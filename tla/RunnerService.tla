--------------------------- MODULE RunnerService ---------------------------
(***************************************************************************)
(* The runner as systemd runs it (packages/runner-bundle/src/runtime/      *)
(* service.ts, systemd.ts): a plan of one step, attempted by StepAttempt   *)
(* under the engine's checkpoint, between the start of the process and the *)
(* status file it leaves behind.  RunnerEngine models the engine itself.   *)
(*                                                                         *)
(* The unit says Restart=on-failure and StartLimitIntervalSec=0: systemd   *)
(* starts the runner again, as often as it takes, unless it ended cleanly  *)
(* or was asked to stop; SIGHUP and SIGTERM count as a clean end of a      *)
(* process that does not handle them.                                      *)
(***************************************************************************)
EXTENDS StepAttempt

CONSTANTS
  StepKinds,      (* the kinds the plan's step may have                     *)
  MaxAttempts,    (* automaticPolicy.maxAttempts                            *)
  MaxFaults       (* bound: failures of the disk, kills, signals and stops  *)

ASSUME ServiceAssumption ==
  /\ StepKinds \subseteq Kinds
  /\ MaxAttempts \in Nat \ {0}
  /\ MaxFaults \in Nat

VARIABLES
  service,      (* where the process of the runner is                       *)
  unit,         (* what systemd does about it: "done" once the runner has   *)
                (* ended by itself, "off" once somebody has ended it        *)
  checkpoint,   (* state.json: the step's phase and attempt, the plan       *)
  status,       (* service-status.json                                      *)
  faults

serviceVars == <<service, unit, checkpoint, status, faults>>
vars == <<command, attempt, canceled, prompts, service, unit, checkpoint, status, faults>>

Terminal == {"succeeded", "failed"}

(* The part of the service that runs commands, left alone.                 *)
Quiet == UNCHANGED attemptVars

Engine == service = "engine"
Listening == service \in {"engine", "closing", "unwinding"}
Settled == Engine /\ ~InProgress

Init ==
  /\ CommandInit
  /\ \E kind \in StepKinds : attempt = NoAttempt(kind)
  /\ canceled = FALSE /\ prompts = {}
  /\ service = "down" /\ unit = "start" /\ status = "none"
  /\ checkpoint = [phase |-> "none", tried |-> 0, plan |-> "active"]
  /\ faults = 0

Fault == faults < MaxFaults /\ faults' = faults + 1

(* A write of the status file that fails, before its rename or after it.   *)
FailedWrite(said) == Fault /\ status' \in {status, said}

-----------------------------------------------------------------------------
(* runRunnerService, up to the engine *)

Start ==
  /\ service = "down" /\ unit = "start"
  /\ service' = "starting" /\ unit' = "running"
  /\ canceled' = FALSE /\ attempt' = NoAttempt(attempt.kind)
  /\ UNCHANGED <<command, prompts, checkpoint, status, faults>>

WriteStarting ==
  /\ service = "starting"
  /\ \/ service' = "loading" /\ status' = "starting" /\ UNCHANGED faults
     \/ service' = "excuse" /\ FailedWrite("starting")
  /\ Quiet /\ UNCHANGED <<unit, checkpoint>>

(* The manifest, the plan, the adapters; then the signal listeners.        *)
Load ==
  /\ service = "loading"
  /\ \/ service' = "engine" /\ UNCHANGED faults
     \/ service' = "excuse" /\ Fault
  /\ Quiet /\ UNCHANGED <<unit, checkpoint, status>>

-----------------------------------------------------------------------------
(* RunnerEngine.run *)

(* A failing write of the checkpoint, before its rename or after it, ends  *)
(* the run.                                                                *)
FailedStore(document) ==
  service' = "unwinding" /\ Fault /\ checkpoint' \in {checkpoint, document}

Store(document) ==
  \/ checkpoint' = document /\ UNCHANGED <<service, faults>>
  \/ FailedStore(document)

Phase(phase) == [checkpoint EXCEPT !.phase = phase]

(* The last attempt, or a manual gate, failed: the plan is marked at once. *)
Final == attempt.kind = "manual" \/ checkpoint.tried = MaxAttempts
Failing == attempt.pc = "returned" /\ checkpoint.phase = "failed"

Interrupted ==
  /\ Settled /\ canceled /\ checkpoint.plan = "active" /\ ~Failing
  /\ service' = "unwinding"
  /\ Quiet /\ UNCHANGED <<unit, checkpoint, status, faults>>

(* A terminal checkpoint is returned at once.                              *)
ReturnTerminal ==
  /\ Settled /\ checkpoint.plan \in Terminal
  /\ service' = "closing"
  /\ Quiet /\ UNCHANGED <<unit, checkpoint, status, faults>>

Looping == Settled /\ attempt.pc = "idle" /\ ~canceled /\ checkpoint.plan = "active"

(* The checkpoint says "started" before the attempt begins.                *)
CheckpointStart ==
  /\ Looping /\ checkpoint.phase \in {"none", "failed"} /\ checkpoint.tried < MaxAttempts
  /\ LET next == [Phase("started") EXCEPT !.tried = @ + 1] IN
     \/ checkpoint' = next /\ Begin /\ UNCHANGED <<service, faults>>
     \/ FailedStore(next) /\ Quiet
  /\ UNCHANGED <<unit, status>>

(* An attempt a dead runner left: it counts as failed, unless the step can *)
(* be resumed.                                                             *)
ResumeInterrupted ==
  /\ Looping /\ checkpoint.phase = "started"
  /\ \/ /\ attempt.kind \in {"automatic", "provider"}
        /\ Store(Phase("failed"))
        /\ \/ Final /\ attempt' = [attempt EXCEPT !.pc = "returned", !.verdict = "failed"]
           \/ ~Final /\ UNCHANGED attempt
        /\ UNCHANGED <<command, canceled, prompts>>
     \/ /\ attempt.kind \notin {"automatic", "provider"} /\ Begin
        /\ UNCHANGED <<service, checkpoint, faults>>
  /\ UNCHANGED <<unit, status>>

(* What the attempt came to; an attempt of a canceled run is not recorded, *)
(* but for that of a prompt.                                               *)
Record ==
  /\ Settled /\ attempt.pc = "returned" /\ (~canceled \/ attempt.kind = "prompt")
  /\ checkpoint.phase = "started" /\ checkpoint.plan = "active"
  /\ Store(Phase(attempt.verdict))
  /\ \/ attempt.verdict = "failed" /\ Final /\ UNCHANGED attempt
     \/ (attempt.verdict = "succeeded" \/ ~Final) /\ attempt' = NoAttempt(attempt.kind)
  /\ UNCHANGED <<command, canceled, prompts, unit, status>>

MarkTerminal ==
  /\ \/ /\ Looping /\ checkpoint.phase = "succeeded"
        /\ Store([checkpoint EXCEPT !.plan = "succeeded"])
     \/ /\ Settled /\ checkpoint.plan = "active"
        /\ Failing \/ (Looping /\ checkpoint.phase = "failed" /\ checkpoint.tried = MaxAttempts)
        /\ Store([checkpoint EXCEPT !.plan = "failed"])
  /\ Quiet /\ UNCHANGED <<unit, status>>

(* removeAll, in a finally clause: the prompts go, or the run has failed.  *)
RemoveAll ==
  /\ service \in {"closing", "unwinding"}
  /\ \/ /\ prompts' = {} /\ UNCHANGED faults
        /\ service' = IF service = "closing" THEN "report" ELSE "excuse"
     \/ Fault /\ service' = "excuse" /\ UNCHANGED prompts
  /\ UNCHANGED <<command, attempt, canceled, unit, checkpoint, status>>

-----------------------------------------------------------------------------
(* The end of the process *)

(* systemd kills what is left in the control group (KillMode=mixed) and    *)
(* removes the runtime directory.                                          *)
End(next) ==
  /\ service' = "down"
  /\ unit' = IF unit = "stopping" THEN "off" ELSE next
  /\ KillControlGroup /\ prompts' = {} /\ canceled' = FALSE
  /\ attempt' = NoAttempt(attempt.kind)

(* A run that failed sets the exit code, after its status was written.     *)
Exits == IF checkpoint.plan = "succeeded" THEN "done" ELSE "start"

(* Mutant: only failures are written to the status file.                   *)
ReportFailures ==
  /\ service = "report"
  /\ status' = IF checkpoint.plan = "failed" THEN "failed" ELSE status
  /\ End(Exits)
  /\ UNCHANGED <<checkpoint, faults>>

Report ==
  /\ service = "report"
  /\ \/ status' = checkpoint.plan /\ End(Exits) /\ UNCHANGED faults
     \/ service' = "excuse" /\ FailedWrite(checkpoint.plan) /\ Quiet /\ UNCHANGED unit
  /\ UNCHANGED checkpoint

Excuse ==
  /\ service = "excuse"
  /\ \/ status' = "failed" /\ UNCHANGED faults
     \/ FailedWrite("failed")
  /\ End("start")
  /\ UNCHANGED checkpoint

(* The runner dies: killed, out of memory.                                 *)
Kill ==
  /\ service # "down" /\ Fault
  /\ End("start")
  /\ UNCHANGED <<checkpoint, status>>

(* A signal reaches the runner: its listeners abort the run; before and    *)
(* after them, it dies.                                                    *)
Signal(u) ==
  \/ /\ Listening
     /\ canceled' = TRUE /\ Abort /\ unit' = u
     /\ UNCHANGED <<attempt, prompts, service>>
  \/ ~Listening /\ service # "down" /\ End("off")

(* A hangup of the terminal.                                               *)
Hangup ==
  /\ Fault
  /\ Signal(unit)
  /\ UNCHANGED <<checkpoint, status>>

Stop ==
  /\ unit \in {"running", "start"} /\ Fault
  /\ \/ service # "down" /\ Signal("stopping")
     \/ service = "down" /\ unit' = "off" /\ Quiet /\ UNCHANGED service
  /\ UNCHANGED <<checkpoint, status>>

(* TimeoutStopSec: everybody is killed.                                    *)
StopTimeout ==
  /\ service # "down" /\ unit = "stopping"
  /\ End("off")
  /\ UNCHANGED <<checkpoint, status, faults>>

(* The operator starts the unit again, or the machine is booted again.     *)
StartAgain ==
  /\ service = "down" /\ unit \in {"off", "done"}
  /\ unit' = "start"
  /\ Quiet /\ UNCHANGED <<service, checkpoint, status, faults>>

-----------------------------------------------------------------------------
RunCommands == Engine /\ (Execute \/ CommandEvent \/ ProcessEvent) /\ UNCHANGED serviceVars

Progress ==
  \/ Start \/ WriteStarting \/ Load \/ Interrupted \/ ReturnTerminal \/ CheckpointStart
  \/ ResumeInterrupted \/ Record \/ MarkTerminal \/ RemoveAll \/ Report \/ Excuse
  \/ Engine /\ Execute /\ UNCHANGED serviceVars

Next ==
  \/ Progress \/ RunCommands
  \/ Kill \/ Hangup \/ Stop \/ StopTimeout \/ StartAgain

Spec == Init /\ [][Next]_vars

(* The runner goes on; timers fire, and the events of a command come once  *)
(* its processes are gone.  Processes, signals and the operator owe        *)
(* nothing, and neither does StopTimeout, which would hide what a          *)
(* cancellation leaves.                                                    *)
Fairness ==
  /\ WF_vars(Progress)
  /\ \A s \in Slots :
       /\ WF_vars(Timeout(s) /\ Under /\ UNCHANGED serviceVars)
       /\ WF_vars(EndGrace(s) /\ Under /\ UNCHANGED serviceVars)
       /\ WF_vars(OnExit(s) /\ Under /\ UNCHANGED serviceVars)
       /\ WF_vars(Complete(s) /\ Under /\ UNCHANGED serviceVars)
       /\ WF_vars(OnClose(s) /\ command[s].group = {} /\ Under /\ UNCHANGED serviceVars)

FairSpec == Spec /\ Fairness

-----------------------------------------------------------------------------
TypeOK ==
  /\ AttemptTypeOK
  /\ service \in {"down", "starting", "loading", "engine", "closing", "unwinding", "report",
                  "excuse"}
  /\ unit \in {"start", "running", "stopping", "done", "off"}
  /\ checkpoint \in [phase : {"none", "started", "succeeded", "failed"},
                     tried : 0 .. MaxAttempts, plan : {"active", "succeeded", "failed"}]
  /\ status \in {"none", "starting", "succeeded", "failed"}
  /\ faults \in 0 .. MaxFaults

(* Whatever outcome the plan has reached, the status file comes to say it, *)
(* after every start of the unit, until somebody ends the unit first       *)
(* (service.ts: runRunnerService).                                         *)
OutcomeIsReported ==
  \A outcome \in Terminal :
    checkpoint.plan = outcome ~> status = outcome \/ unit = "off"

(* A step that waits for nobody comes to an end, unless the unit is off or *)
(* a process outside of the step's group holds its output.                 *)
PlanEnds ==
  attempt.kind \in {"automatic", "prompt"} ~>
    checkpoint.plan \in Terminal \/ unit = "off" \/ HeldOpen

(* A runner that is asked to end does, whatever its step waits for.        *)
CancellationEnds == canceled ~> ~canceled \/ HeldOpen
=============================================================================
