---------------------------- MODULE RunnerEngine ----------------------------
(***************************************************************************)
(* The runner engine (packages/runner/src/engine) with its supervisor of   *)
(* fire-and-forget processes (steps/fire-and-forget), over the checkpoint  *)
(* document of module Checkpoint.  One runner process at a time executes   *)
(* the plan; it can be canceled, can crash, and the machine can reboot,    *)
(* between any two awaits.  Every store call either takes effect, or fails *)
(* before its rename, or fails after it (module CheckpointStore).          *)
(*                                                                         *)
(* While no exception is propagating, the state the code passes around is  *)
(* the document on disk: there is one writer and each store call returns   *)
(* what it wrote.  Only the variable `state` of #run, read again in its    *)
(* catch block, can lag behind; run.held is its list of processes.         *)
(***************************************************************************)
EXTENDS Integers, SequencesExt

CONSTANTS
  StepCount,           (* number of steps in the plan                    *)
  Kind,                (* the kind of each step                          *)
  Executors,           (* kinds of step this runner was configured for   *)
  MaxAttempts,         (* automaticPolicy.maxAttempts                    *)
  MaxLaunchAttempts,   (* fireAndForgetPolicy.maxLaunchAttempts          *)
  Pids,                (* process ids; reused once nothing refers to one *)
  Disturbances,        (* what may go wrong: among "cancel", "crash",
                          "reboot", "storage", "host"                    *)
  MaxDisturbances      (* bound on disturbances, all together            *)

ASSUME PlanAssumption ==
  /\ StepCount \in Nat \ {0} /\ MaxDisturbances \in Nat
  /\ MaxAttempts \in Nat \ {0} /\ MaxLaunchAttempts \in Nat \ {0}

INSTANCE Checkpoint WITH
  Identities <- [pid : Pids, boot : 0 .. MaxDisturbances],
  NoIdentity <- [pid |-> 0, boot |-> 0],
  Exits <- {"unknown", "status"},
  NoExit <- "none",
  Diagnostics <- {"failed"}

VARIABLES
  disk,       (* the checkpoint document                                       *)
  run,        (* the runner process: where it is, and what it remembers        *)
  children,   (* fire-and-forget processes alive in the operating system       *)
  boot,       (* number of reboots: the boot id                                *)
  canceled,   (* the cancellation signal of this run was aborted               *)
  ran,        (* history: attempts <<step, attempt>> whose command was started *)
  budget      (* disturbances left                                             *)

vars == <<disk, run, children, boot, canceled, ran, budget>>

-----------------------------------------------------------------------------
(* The runner process.                                                     *)
(*   pc       where it is                                                  *)
(*   cur      the step a launch, a resume or the reconciliation is at      *)
(*   ret      who called launch or resume                                  *)
(*   why      what stopAll was called for, or "none" before                *)
(*   late     stopAll met a process that had exited by itself              *)
(*   stopping shutdown has terminated the first tracked process            *)
(*   child    the process just spawned and not yet registered              *)
(*   tracked  the supervisor's instances, in insertion order               *)
(*   held     the processes in the `state` variable of #run                *)
(*   outcome  how the run ended                                            *)

NoChild == [pid |-> 0, boot |-> 0]
Ended(outcome) ==
  [pc |-> "off", cur |-> 0, ret |-> "main", why |-> "none", late |-> FALSE,
   stopping |-> FALSE, child |-> NoChild, tracked |-> <<>>,
   held |-> InitialCheckpoint.processes, outcome |-> outcome]

Goto(pc) == [run EXCEPT !.pc = pc]
Call(pc, i, ret) == [run EXCEPT !.pc = pc, !.cur = i, !.ret = ret]
StopAll(why) == [run EXCEPT !.pc = "stop", !.ret = "stop", !.why = why,
                            !.late = FALSE, !.child = NoChild]
Holding(next, document) == [next EXCEPT !.held = document.processes]

IsTracking(i) == \E k \in DOMAIN run.tracked : run.tracked[k].step = i
Position(i) == CHOOSE k \in DOMAIN run.tracked : run.tracked[k].step = i
Tracked(i) == run.tracked[Position(i)]
Untrack(next, i) == [next EXCEPT !.tracked = RemoveAt(@, Position(i))]
Track(next, i, identity, own) ==
  [next EXCEPT !.tracked = Append(@, [step |-> i, identity |-> identity,
                                      own |-> own, result |-> FALSE])]

Matches(identity) == \E child \in children : child.identity = identity
Without(identity) == {child \in children : child.identity # identity}

Supervised(i) == Kind[i] = "fire-and-forget"
MaxAttemptsForStep(i) == IF Supervised(i) THEN MaxLaunchAttempts ELSE MaxAttempts

(* An exception: to the catch block of #run, or out of run altogether.     *)
Thrown == IF run.pc = "start" \/ run.why = "throw" THEN Ended("error") ELSE StopAll("throw")

Disturb(kind) == kind \in Disturbances /\ budget > 0 /\ budget' = budget - 1

(* A store call: it takes effect and the runner goes on to `next`; or the  *)
(* write fails, before or after the rename; or the event is refused.       *)
Store(allowed, document, next) ==
  LET accepted == allowed /\ Schema(document)
  IN  \/ /\ accepted
         /\ disk' = document
         /\ run' = next
         /\ UNCHANGED budget
      \/ /\ Disturb("storage")
         /\ disk' \in {disk} \cup {d \in {document} : accepted}
         /\ run' = Thrown
      \/ /\ ~accepted
         /\ run' = Thrown
         /\ UNCHANGED <<disk, budget>>

Finished(t, outcome, exit) == FinishResult(disk, t.step, outcome, exit)
FinishProcess(t, outcome, exit, next) ==
  Store(FinishAllowed(disk, t.step, disk.processes[t.step].generation, t.identity,
                      outcome, exit),
        Finished(t, outcome, exit), next)

Checkpointed(phase) == StepResult(disk, [disk.step EXCEPT !.phase = phase])
CheckpointStep(phase, next) ==
  Store(StepAllowed(disk, [disk.step EXCEPT !.phase = phase]), Checkpointed(phase), next)

Init ==
  /\ disk = InitialCheckpoint
  /\ run = Ended("none")
  /\ children = {}
  /\ boot = 0
  /\ canceled = FALSE
  /\ ran = {}
  /\ budget = MaxDisturbances

-----------------------------------------------------------------------------
(* Starting, and reconciling the processes of completed steps              *)

Start ==
  /\ run.pc = "off"
  /\ run' = [Ended("running") EXCEPT !.pc = "start"]
  /\ canceled' = FALSE
  /\ UNCHANGED <<disk, children, boot, ran, budget>>

(* The plan does not match what the checkpoint records.                    *)
FindRecoveryConflict ==
  \/ disk.step.phase # "none" /\ disk.step.index \notin Indexes
  \/ \E i \in Indexes : /\ disk.processes[i].phase # "none"
                        /\ \/ ~Supervised(i)
                           \/ disk.step.phase = "none"
                           \/ i > disk.step.index

FindUnsupportedStep == \E i \in Indexes : Kind[i] \notin Executors

(* Mutant: a terminal checkpoint is not returned at once.                  *)
InitializeIgnoringTerminal ==
  /\ run.pc = "start"
  /\ run' = Holding(IF FindRecoveryConflict \/ FindUnsupportedStep
                    THEN StopAll("fail") ELSE Goto("reconcile"), disk)
  /\ UNCHANGED <<disk, children, boot, canceled, ran, budget>>

Initialize ==
  /\ run.pc = "start"
  /\ \/ Disturb("storage") /\ run' = Thrown
     \/ /\ run' = IF disk.terminal # "none" THEN Ended(disk.terminal)
                  ELSE Holding(IF FindRecoveryConflict \/ FindUnsupportedStep
                               THEN StopAll("fail") ELSE Goto("reconcile"), disk)
        /\ UNCHANGED budget
  /\ UNCHANGED <<disk, children, boot, canceled, ran>>

Completed(i) == \/ i < disk.step.index
                \/ i = disk.step.index /\ disk.step.phase = "succeeded"

(* Whether a process that is not running any more is one the runner may    *)
(* replace: it was stopped by a runner, or by a reboot.                    *)
Replaceable(process) == \/ process.phase = "finished" /\ process.outcome = "runner-shutdown"
                        \/ process.identity.boot # boot

(* Mutant: a process recorded as accepted is taken to be running.          *)
ReconcileTrustingRecord ==
  LET rest == {i \in Indexes : /\ i >= run.cur /\ Completed(i) /\ Supervised(i)
                               /\ ~Unfinished(disk.processes[i])}
      process == disk.processes[Min(rest)]
  IN  /\ run.pc = "reconcile"
      /\ run' = IF rest = {} THEN Holding(Goto("loop"), disk)
                ELSE IF Replaceable(process) THEN Call("spawn", Min(rest), "reconcile")
                ELSE Holding(StopAll("fail"), disk)
      /\ UNCHANGED <<disk, children, boot, canceled, ran, budget>>

ReconcileCompleted ==
  LET rest == {i \in Indexes : i >= run.cur /\ Completed(i) /\ Supervised(i)}
      i == Min(rest)
      process == disk.processes[i]
  IN  /\ run.pc = "reconcile"
      /\ run' = IF rest = {} THEN Holding(Goto("loop"), disk)
                ELSE IF process.phase = "none" THEN Holding(StopAll("fail"), disk)
                ELSE IF Unfinished(process) THEN Call("resume", i, "reconcile")
                ELSE IF Replaceable(process) THEN Call("spawn", i, "reconcile")
                ELSE Holding(StopAll("fail"), disk)
      /\ UNCHANGED <<disk, children, boot, canceled, ran, budget>>

-----------------------------------------------------------------------------
(* What the callers of launch and resume do with its result                *)

(* stopAll goes on with the next process of the list it was given.         *)
Handled(next, i) ==
  [next EXCEPT !.pc = "stop",
               !.held[i].phase = IF run.why = "throw" THEN "finished" ELSE @]

OnAccepted(next, document) ==
  LET to == [next EXCEPT !.child = NoChild]
  IN  CASE run.ret = "reconcile" -> [to EXCEPT !.pc = "reconcile", !.cur = @ + 1]
        [] run.ret = "started" -> [to EXCEPT !.pc = "succeed"]
        [] run.ret = "main" -> IF canceled THEN [StopAll("throw") EXCEPT !.tracked = to.tracked]
                               ELSE Holding([to EXCEPT !.pc = "succeed"], document)
        [] run.ret = "stop" -> Handled(to, run.cur)

OnFailed(next, document) ==
  LET to == [next EXCEPT !.child = NoChild]
      failing == [StopAll("fail") EXCEPT !.tracked = to.tracked]
  IN  CASE run.ret = "reconcile" -> Holding(failing, document)
        [] run.ret = "started" -> [to EXCEPT !.pc = "record"]
        [] run.ret = "main" -> IF canceled THEN [failing EXCEPT !.why = "throw"]
                               ELSE Holding([to EXCEPT !.pc = "record"], document)
        [] run.ret = "stop" -> [Handled(to, run.cur) EXCEPT !.late = TRUE]

OnMissing(process, document) ==
  CASE run.ret = "reconcile" -> IF process.identity.boot = boot
                                THEN Holding(StopAll("fail"), document)
                                ELSE Goto("spawn")
    [] run.ret = "started" -> Goto("record")
    [] run.ret = "stop" -> Handled(run, run.cur)

-----------------------------------------------------------------------------
(* The supervisor: resume, launch, the acceptance window                   *)

Given(i) == IF run.why = "throw" THEN run.held[i] ELSE disk.processes[i]

Resume ==
  LET i == run.cur
      process == Given(i)
      missing == [step |-> i, identity |-> process.identity]
      adopted == Track(run, i, process.identity, FALSE)
  IN  /\ run.pc = "resume"
      /\ \/ /\ ~Matches(process.identity)
            /\ FinishProcess(missing, "reconciled-missing", "unknown",
                 OnMissing(process, Finished(missing, "reconciled-missing", "unknown")))
         \/ /\ Matches(process.identity)
            /\ run' = IF process.phase = "accepted" THEN OnAccepted(adopted, disk)
                      ELSE [adopted EXCEPT !.pc = "window"]
            /\ UNCHANGED <<disk, budget>>
      /\ UNCHANGED <<children, boot, canceled, ran>>

FreshIdentities ==
  LET referenced == {child.identity : child \in children}
                      \cup {disk.processes[i].identity : i \in Indexes}
                      \cup {run.held[i].identity : i \in Indexes}
                      \cup {run.tracked[k].identity : k \in DOMAIN run.tracked}
  IN  [pid : Pids, boot : {boot}] \ referenced

FreshIdentity == CHOOSE identity \in FreshIdentities : TRUE

(* The command is spawned, or cannot be.                                   *)
Spawn ==
  /\ run.pc = "spawn"
  /\ \/ /\ FreshIdentities # {}
        /\ run' = [Goto("register") EXCEPT !.child = FreshIdentity]
        /\ children' = children \cup {[step |-> run.cur, identity |-> FreshIdentity,
                                       known |-> FALSE]}
     \/ run' = OnFailed(run, disk) /\ UNCHANGED children
  /\ UNCHANGED <<disk, boot, canceled, ran, budget>>

(* The identity is captured and registered; a child that cannot be         *)
(* identified, or registered, is killed and awaited.                       *)
Register ==
  LET i == run.cur
      generation == disk.processes[i].generation + 1
      document == RegisterResult(disk, i, generation, run.child)
      known == {[child EXCEPT !.known = TRUE] :
                  child \in {c \in children : c.identity = run.child}}
  IN  /\ run.pc = "register"
      /\ \/ /\ run' = OnFailed(run, disk)
            /\ children' = Without(run.child)
            /\ UNCHANGED <<disk, budget>>
         \/ /\ Matches(run.child)
            /\ Store(RegisterAllowed(disk, i, generation), document,
                     Track(Goto("window"), i, run.child, TRUE))
            /\ children' = Without(run.child) \cup IF run'.pc = "window" THEN known ELSE {}
      /\ UNCHANGED <<boot, canceled, ran>>

(* The acceptance window ends: by cancellation, or with the process gone,  *)
(* or with the process alive and accepted.                                 *)
AcceptanceWindow ==
  LET i == run.cur
      t == Tracked(i)
      generation == disk.processes[i].generation
      accepted == AcceptResult(disk, i)
      gone == t.result \/ ~Matches(t.identity)
      exit == IF t.result THEN "status" ELSE "unknown"
  IN  /\ run.pc = "window"
      /\ \/ /\ canceled /\ run.ret # "stop"
            /\ run' = Thrown
            /\ UNCHANGED <<disk, budget>>
         \/ /\ gone
            /\ FinishProcess(t, "exited-before-acceptance", exit,
                 OnFailed(Untrack(run, i), Finished(t, "exited-before-acceptance", exit)))
         \/ /\ ~gone
            /\ Store(AcceptAllowed(disk, i, generation, t.identity), accepted,
                     OnAccepted(run, accepted))
      /\ UNCHANGED <<children, boot, canceled, ran>>

-----------------------------------------------------------------------------
(* The sequence                                                            *)

Pending(attempt, index, fresh) == [attempt |-> attempt, index |-> index, fresh |-> fresh]
Complete == Pending(0, 0, FALSE)
Exhausted == Pending(0, 0, TRUE)

(* Mutant: a retry keeps the number of the failed attempt.                 *)
NextPendingStepSameAttempt ==
  LET step == disk.step
      limit == MaxAttemptsForStep(step.index)
  IN  CASE step.phase = "none" -> Pending(1, 0, TRUE)
        [] step.phase = "succeeded" -> IF step.index + 1 = StepCount THEN Complete
                                       ELSE Pending(1, step.index + 1, TRUE)
        [] step.phase = "started" -> IF step.attempt > limit THEN Exhausted
                                     ELSE Pending(step.attempt, step.index, FALSE)
        [] step.phase = "failed" -> IF step.attempt >= limit THEN Exhausted
                                    ELSE Pending(step.attempt, step.index, TRUE)

NextPendingStep ==
  LET step == disk.step
      limit == MaxAttemptsForStep(step.index)
  IN  CASE step.phase = "none" -> Pending(1, 0, TRUE)
        [] step.phase = "succeeded" -> IF step.index + 1 = StepCount THEN Complete
                                       ELSE Pending(1, step.index + 1, TRUE)
        [] step.phase = "started" -> IF step.attempt > limit THEN Exhausted
                                     ELSE Pending(step.attempt, step.index, FALSE)
        [] step.phase = "failed" -> IF step.attempt >= limit THEN Exhausted
                                    ELSE Pending(step.attempt + 1, step.index, TRUE)

(* Where a step that an earlier run left started goes on.                  *)
(* Mutants: an interrupted command is run again under its attempt, or is   *)
(* taken to have succeeded; so is a launch that recorded no process.       *)
ResumeStartedAgain(i) ==
  IF Supervised(i) THEN Call("spawn", i, "started") ELSE Goto("exec")

ResumeStartedAsDone(i) ==
  IF Supervised(i) /\ disk.processes[i].phase # "none" THEN Call("resume", i, "started")
  ELSE Goto("succeed")

ResumeStarted(i) ==
  LET process == disk.processes[i]
  IN  IF ~Supervised(i)
      THEN Goto(IF Kind[i] \in {"automatic", "provider"} THEN "record" ELSE "exec")
      ELSE CASE process.phase = "none" -> Goto("record")
             [] process.phase = "finished" -> IF process.outcome = "runner-shutdown"
                                              THEN Call("spawn", i, "started") ELSE Goto("record")
             [] OTHER -> Call("resume", i, "started")

Unhealthy(k) == run.tracked[k].result \/ ~Matches(run.tracked[k].identity)

(* The top of the loop: cancellation, the health of the tracked processes, *)
(* and the next step.                                                      *)
Loop ==
  LET unhealthy == {k \in DOMAIN run.tracked : Unhealthy(k)}
      t == run.tracked[Min(unhealthy)]
      exit == IF t.result THEN "status" ELSE "unknown"
      pending == NextPendingStep
      target == [index |-> pending.index, attempt |-> pending.attempt, phase |-> "started"]
      started == StepResult(disk, target)
  IN  /\ run.pc = "loop"
      /\ \/ /\ canceled
            /\ run' = Thrown
            /\ UNCHANGED <<disk, budget>>
         \/ /\ ~canceled /\ unhealthy # {}
            /\ FinishProcess(t, "exited-after-acceptance", exit,
                 Holding(Untrack(StopAll("fail"), t.step),
                         Finished(t, "exited-after-acceptance", exit)))
         \/ /\ ~canceled /\ unhealthy = {}
            /\ \/ /\ pending \in {Complete, Exhausted}
                  /\ run' = StopAll(IF pending = Complete THEN "succeed" ELSE "fail")
                  /\ UNCHANGED <<disk, budget>>
               \/ /\ pending.attempt # 0 /\ ~pending.fresh
                  /\ run' = ResumeStarted(pending.index)
                  /\ UNCHANGED <<disk, budget>>
               \/ /\ pending.attempt # 0 /\ pending.fresh
                  /\ Store(StepAllowed(disk, target), started, Holding(Goto("exec"), started))
      /\ UNCHANGED <<children, boot, canceled, ran>>

(* The step's executor is called.                                          *)
Execute ==
  LET i == disk.step.index
  IN  /\ run.pc = "exec"
      /\ CASE Kind[i] = "environment" -> run' = Goto("succeed") /\ UNCHANGED ran
           [] Supervised(i) -> run' = Call("spawn", i, "main") /\ UNCHANGED ran
           [] OTHER -> run' = Goto("running") /\ ran' = ran \cup {<<i, disk.step.attempt>>}
      /\ UNCHANGED <<disk, children, boot, canceled, budget>>

(* An automatic, provider or prompt executor returns.                      *)
ReturnForeground ==
  /\ run.pc = "running"
  /\ Kind[disk.step.index] \in {"automatic", "provider", "prompt"}
  /\ run' \in IF canceled /\ Kind[disk.step.index] # "prompt" THEN {Thrown}
              ELSE {Goto("succeed"), Goto("record")}
  /\ UNCHANGED <<disk, children, boot, canceled, ran, budget>>

(* A manual gate is passed, or fails for good.                             *)
ReturnManual ==
  /\ run.pc = "running"
  /\ Kind[disk.step.index] = "manual"
  /\ \/ /\ run' = IF canceled THEN Thrown ELSE Goto("succeed")
        /\ UNCHANGED <<disk, budget>>
     \/ /\ ~canceled
        /\ CheckpointStep("failed", Holding(StopAll("fail"), Checkpointed("failed")))
  /\ UNCHANGED <<children, boot, canceled, ran>>

(* The secret installer records its next phase, returns once committed, or *)
(* fails, swallowing any error.                                            *)
SecretInstaller ==
  LET i == disk.step.index
      target(phase) == [step |-> i, phase |-> phase]
  IN  /\ run.pc = "running"
      /\ Kind[i] = "install-user-secret"
      /\ \/ /\ disk.secret.phase # "committed"
            /\ \E phase \in SecretPhases :
                 /\ SecretRank(phase) = SecretRank(disk.secret.phase) + 1
                 /\ SecretAllowed(disk, target(phase))
                 /\ disk' = SecretResult(disk, target(phase))
                 /\ \/ run' = run /\ UNCHANGED budget
                    \/ Disturb("storage") /\ run' = Goto("record")
         \/ /\ run' \in {Goto("record")} \cup
                        {Goto("succeed") : phase \in {disk.secret.phase} \cap {"committed"}}
            /\ UNCHANGED <<disk, budget>>
      /\ UNCHANGED <<children, boot, canceled, ran>>

SucceedStep ==
  /\ run.pc = "succeed"
  /\ CheckpointStep("succeeded", Holding(Goto("loop"), Checkpointed("succeeded")))
  /\ UNCHANGED <<children, boot, canceled, ran>>

RecordFailure ==
  /\ run.pc = "record"
  /\ CheckpointStep("failed",
       IF disk.step.attempt >= MaxAttemptsForStep(disk.step.index) THEN StopAll("fail")
       ELSE Holding(Goto("loop"), Checkpointed("failed")))
  /\ UNCHANGED <<children, boot, canceled, ran>>

-----------------------------------------------------------------------------
(* stopAll, for a terminal failure, for success, or in the catch block     *)

ToAdopt == {i \in Indexes : Unfinished(Given(i)) /\ ~IsTracking(i)}

(* Mutant: only the processes this run launched or adopted are stopped.    *)
AdoptNothing ==
  /\ run.pc = "stop"
  /\ run' = [Goto("shutdown") EXCEPT !.stopping = FALSE]
  /\ UNCHANGED <<disk, children, boot, canceled, ran, budget>>

AdoptUntracked ==
  /\ run.pc = "stop"
  /\ run' = IF ToAdopt = {} THEN [Goto("shutdown") EXCEPT !.stopping = FALSE]
            ELSE Call("resume", Min(ToAdopt), "stop")
  /\ UNCHANGED <<disk, children, boot, canceled, ran, budget>>

(* Mutant: the stop is recorded without waiting for the process to exit.   *)
ShutdownWithoutWaiting ==
  LET t == Head(run.tracked)
      rest == [run EXCEPT !.tracked = Tail(@)]
  IN  /\ run.pc = "shutdown" /\ run.tracked # <<>>
      /\ FinishProcess(t, "runner-shutdown", "status", rest)
      /\ UNCHANGED <<children, boot, canceled, ran>>

Shutdown ==
  LET t == Head(run.tracked)
      rest == [run EXCEPT !.tracked = Tail(@), !.stopping = FALSE]
  IN  /\ run.pc = "shutdown" /\ run.tracked # <<>>
      /\ \/ /\ t.result /\ ~run.stopping
            /\ FinishProcess(t, "exited-after-acceptance", "status",
                             [rest EXCEPT !.late = TRUE])
            /\ UNCHANGED children
         \/ /\ ~t.result /\ ~run.stopping
            /\ children' = Without(t.identity)
            /\ run' = [run EXCEPT !.stopping = TRUE, !.tracked[1].result = t.own]
            /\ UNCHANGED <<disk, budget>>
         \/ /\ run.stopping
            /\ FinishProcess(t, "runner-shutdown", IF t.own THEN "status" ELSE "unknown", rest)
            /\ UNCHANGED children
      /\ UNCHANGED <<boot, canceled, ran>>

Stopped == run.pc = "shutdown" /\ run.tracked = <<>>

MarkTerminal ==
  /\ Stopped
  /\ \/ /\ run.why = "succeed" /\ run.late
        /\ run' = StopAll("fail")
        /\ UNCHANGED <<disk, budget>>
     \/ /\ run.why = "succeed" /\ ~run.late
        /\ Store(SuccessAllowed(disk), SuccessResult(disk), Ended("succeeded"))
     \/ /\ run.why = "fail"
        /\ Store(FailureAllowed(disk, "failed"), FailureResult(disk, "failed"), Ended("failed"))
  /\ UNCHANGED <<children, boot, canceled, ran>>

Rethrow ==
  /\ Stopped /\ run.why = "throw"
  /\ run' = Ended(IF canceled THEN "interrupted" ELSE "error")
  /\ UNCHANGED <<disk, children, boot, canceled, ran, budget>>

-----------------------------------------------------------------------------
(* The environment                                                         *)

(* /proc cannot be read, or an adopted process cannot be terminated.       *)
HostFailure ==
  /\ \/ run.pc \in {"resume", "window", "loop"}
     \/ run.pc = "shutdown" /\ run.tracked # <<>> /\ ~Head(run.tracked).own
  /\ Disturb("host")
  /\ run' = Thrown
  /\ UNCHANGED <<disk, children, boot, canceled, ran>>

Exit(child) ==
  /\ children' = children \ {child}
  /\ UNCHANGED <<disk, run, boot, canceled, ran, budget>>

(* The completion callback of a child this run spawned.                    *)
Completion(k) ==
  /\ ~run.tracked[k].result /\ run.tracked[k].own
  /\ ~Matches(run.tracked[k].identity)
  /\ run' = [run EXCEPT !.tracked[k].result = TRUE]
  /\ UNCHANGED <<disk, children, boot, canceled, ran, budget>>

Cancel ==
  /\ run.pc # "off" /\ ~canceled
  /\ Disturb("cancel")
  /\ canceled' = TRUE
  /\ UNCHANGED <<disk, run, children, boot, ran>>

(* The runner dies; its children may or may not survive it.                *)
Crash ==
  /\ run.pc # "off"
  /\ Disturb("crash")
  /\ run' = Ended("crashed")
  /\ children' \in SUBSET children
  /\ canceled' = FALSE
  /\ UNCHANGED <<disk, boot, ran>>

Reboot ==
  /\ Disturb("reboot")
  /\ run' = Ended("crashed")
  /\ children' = {}
  /\ boot' = boot + 1
  /\ canceled' = FALSE
  /\ UNCHANGED <<disk, ran>>

Runner ==
  \/ Initialize \/ ReconcileCompleted \/ Resume \/ Spawn \/ Register \/ AcceptanceWindow
  \/ Loop \/ Execute \/ ReturnForeground \/ ReturnManual \/ SecretInstaller
  \/ SucceedStep \/ RecordFailure
  \/ AdoptUntracked \/ Shutdown \/ MarkTerminal \/ Rethrow

Next ==
  \/ Start \/ Runner
  \/ \E child \in children : Exit(child)
  \/ \E k \in DOMAIN run.tracked : Completion(k)
  \/ HostFailure \/ Cancel \/ Crash \/ Reboot

Spec == Init /\ [][Next]_vars

(* systemd restarts a runner that failed or died, not one it stopped.      *)
Restart == run.outcome \in {"crashed", "error", "none"} /\ Start

Fairness ==
  /\ WF_vars(Runner)
  /\ WF_vars(Restart)
  /\ WF_vars(\E k \in DOMAIN run.tracked : Completion(k))

FairSpec == Spec /\ Fairness

-----------------------------------------------------------------------------
Identity == [pid : Pids, boot : 0 .. MaxDisturbances] \cup {NoChild}
Child == [step : Indexes, identity : Identity, known : BOOLEAN]

Programs == {"off", "start", "reconcile", "resume", "spawn", "register", "window",
             "loop", "exec", "running", "succeed", "record", "stop", "shutdown"}

TrackedProcess == [step : Indexes, identity : Identity, own : BOOLEAN, result : BOOLEAN]

Runs ==
  [pc : Programs, cur : 0 .. StepCount, ret : {"main", "started", "reconcile", "stop"},
   why : {"none", "fail", "succeed", "throw"}, late : BOOLEAN, stopping : BOOLEAN,
   child : Identity, held : [Indexes -> Process],
   tracked : Seq(TrackedProcess),
   outcome : {"none", "running", "crashed", "error", "interrupted", "succeeded", "failed"}]

TypeOK ==
  /\ disk \in Document
  /\ run \in Runs
  /\ children \subseteq Child
  /\ boot \in 0 .. MaxDisturbances
  /\ canceled \in BOOLEAN
  /\ ran \subseteq Indexes \X Nat
  /\ budget \in 0 .. MaxDisturbances - boot

(* The checkpoint never loses a process that is alive: a child that was    *)
(* registered is the one its step's record names, and that record is not   *)
(* finished.  So no step has two of them, and none is running behind a     *)
(* terminal checkpoint (launch, resume, shutdown, stopAll and the crashes  *)
(* between their steps).                                                   *)
LiveChildIsRecorded ==
  \A child \in children : child.known =>
    /\ disk.processes[child.step].identity = child.identity
    /\ Unfinished(disk.processes[child.step])

(* A run that returns, or reports its interruption, has left none of the   *)
(* processes it ever registered running.                                   *)
RunLeavesNoChild ==
  run.outcome \in {"succeeded", "failed", "interrupted"} =>
    \A child \in children : ~child.known

(* A canceled run that came back, however it came back, has stopped every  *)
(* process it supervised.                                                  *)
CancellationStopsChildren ==
  canceled /\ run.pc = "off" => \A child \in children : ~child.known

(* While a step executes, the process of every completed fire-and-forget   *)
(* step was adopted or relaunched by this very run, and is the registered  *)
(* one.                                                                    *)
ServicesAreSupervised ==
  run.pc \in {"exec", "running"} =>
    \A i \in Indexes : Completed(i) /\ Supervised(i) =>
      /\ IsTracking(i)
      /\ Tracked(i).identity = disk.processes[i].identity
      /\ disk.processes[i].phase = "accepted"

(* No crash, cancellation or failed write leaves a checkpoint that the     *)
(* next run refuses as conflicting with the plan, or whose completed       *)
(* fire-and-forget steps lack the record that reconciliation needs.        *)
CheckpointIsRecoverable ==
  /\ ~FindRecoveryConflict
  /\ \A i \in Indexes : Completed(i) /\ Supervised(i) => disk.processes[i].phase # "none"

(* An attempt of an automatic or provider step starts its command at most  *)
(* once, whatever crashed in between, and no command starts beyond the     *)
(* attempts of its step, after it succeeded or while an earlier step is    *)
(* unfinished.                                                             *)
ExecutesOnce ==
  [][run.pc = "exec" /\ run'.pc = "running" =>
       /\ Kind[disk.step.index] \in {"automatic", "provider"} =>
            <<disk.step.index, disk.step.attempt>> \notin ran
       /\ disk.step.attempt <= MaxAttemptsForStep(disk.step.index)
       /\ \A attempt \in ran : attempt[1] <= disk.step.index
       /\ disk.step.phase = "started"]_vars

(* A plan that succeeded has started the command of every foreground step, *)
(* and accepted the process of every fire-and-forget step: no crash or     *)
(* restart makes the sequence skip one.                                    *)
SuccessSkipsNothing ==
  disk.terminal = "succeeded" =>
    \A i \in Indexes :
      IF Supervised(i) THEN disk.processes[i].phase = "finished" /\ disk.processes[i].accepted
      ELSE Kind[i] # "environment" => \E attempt \in ran : attempt[1] = i

(* A terminal checkpoint is never touched again, by any later run.         *)
TerminalIsFinal == [][disk.terminal # "none" => disk' = disk /\ children' \subseteq children]_vars

(* Once disturbances stop, the plan comes to a terminal state, unless the  *)
(* runner was told to stop and is not started again.                       *)
ReachesTerminal == <>[](disk.terminal # "none" \/ run.outcome = "interrupted")
=============================================================================
