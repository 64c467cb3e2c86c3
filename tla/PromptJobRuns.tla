--------------------------- MODULE PromptJobRuns ----------------------------
(***************************************************************************)
(* One run of a scheduled prompt job (run.ts, executor.ts, result-store.ts *)
(* of packages/scheduled-prompt-jobs).  A job's systemd service runs the   *)
(* "run" command (outer), which runs two flocks around "run-locked"        *)
(* (inner), which runs Codex in a process group of its own.  The locks are *)
(* descriptors that flock and run-locked hold open: they are free when     *)
(* run-locked and both flocks are gone, and Codex does not inherit them.   *)
(*                                                                         *)
(* The time limits are abstract: the inner one may pass whenever Codex     *)
(* runs, the outer one whenever run-locked does, since run-locked reads    *)
(* its manifest again, a systemd-analyze per job, before its time counts.  *)
(***************************************************************************)
EXTENDS PromptJobManifest

CONSTANTS NoJob, MaxRuns, MaxDisturbances

ASSUME LockAssumption == NoJob \notin Job

VARIABLES
  unit,      (* a job's service: idle, running, or stopping *)
  outer,     (* where "run" is; it ends its group after a timeout in "stop",
                after a signal in "halt" *)
  inner,     (* where "run-locked" is *)
  innerExit, (* what flock came to: run-locked's exit status, or its own *)
  codex,     (* Codex and its descendants, or how they ended *)
  result,    (* what inner and outer are about to record *)
  lock,      (* the job that holds a group's lock *)
  last,      (* last-run.json: the run that wrote it, and its result *)
  exit,      (* the status the service's last run exited with *)
  run,       (* how often a service was started *)
  runs,      (* how often all of them were *)
  disturbances

runVars ==
  <<unit, outer, inner, innerExit, codex, result, lock, last, exit, run, runs,
    disturbances>>

Disturb == disturbances < MaxDisturbances /\ disturbances' = disturbances + 1

(* The status of a process that a signal ended, and of one that did not.   *)
Signaled == 143
Running == 255

OuterPlaces == {"none", "load", "lock", "wait", "stop", "halt", "status", "log"}
InnerPlaces == {"none", "load", "run", "stop", "status", "log"}
RunResults == {"none", "passed", "failed", "timed-out", "skipped-overlap"}

RunsTypeOK ==
  /\ unit \in [Job -> {"idle", "running", "stopping"}]
  /\ outer \in [Job -> OuterPlaces] /\ inner \in [Job -> InnerPlaces]
  /\ innerExit \in [Job -> Nat] /\ exit \in [Job -> Nat]
  /\ codex \in [Job -> {"none", "running", "passed", "failed"}]
  /\ result \in [Job -> [inner : RunResults, outer : RunResults]]
  /\ lock \in [Group -> Job \cup {NoJob}]
  /\ last \in [Job -> [run : Nat, result : RunResults]]
  /\ run \in [Job -> Nat] /\ runs \in Nat /\ disturbances \in Nat

RunsInit ==
  /\ unit = [j \in Job |-> "idle"] /\ outer = [j \in Job |-> "none"]
  /\ inner = [j \in Job |-> "none"] /\ innerExit = [j \in Job |-> 0]
  /\ codex = [j \in Job |-> "none"]
  /\ result = [j \in Job |-> [inner |-> "none", outer |-> "none"]]
  /\ lock = [g \in Group |-> NoJob]
  /\ last = [j \in Job |-> [run |-> 0, result |-> "none"]]
  /\ exit = [j \in Job |-> Running] /\ run = [j \in Job |-> 0]
  /\ runs = 0 /\ disturbances = 0

Alive(j) == codex[j] = "running"

-----------------------------------------------------------------------------
(* How processes end *)

(* lockedExitCode, and runPromptJob's own.                                 *)
ExitCode(r) == CASE r \in {"passed", "skipped-overlap"} -> 0
                 [] r = "timed-out" -> 71
                 [] OTHER -> 70

InnerGone(j, code) ==
  /\ inner' = [inner EXCEPT ![j] = "none"]
  /\ innerExit' = [innerExit EXCEPT ![j] = code]
  /\ lock' = [g \in Group |-> IF lock[g] = j THEN NoJob ELSE lock[g]]

(* A service whose main process is gone has the rest of its control group  *)
(* ended by systemd (KillMode=control-group).                              *)
OuterGone(j, code) ==
  /\ outer' = [outer EXCEPT ![j] = "none"]
  /\ exit' = [exit EXCEPT ![j] = code]
  /\ unit' = [unit EXCEPT ![j] =
       IF inner[j] = "none" /\ ~Alive(j) THEN "idle" ELSE "stopping"]

(* SIGTERM.  While it waits for a command, a process hands the signal on,  *)
(* and its own end follows from the command's; otherwise the signal kills  *)
(* it.  flock dies of it, run-locked's descriptor keeps the locks.         *)
InnerSignaled(j) ==
  IF inner[j] \in {"load", "status", "log"} THEN InnerGone(j, Signaled)
  ELSE UNCHANGED <<inner, innerExit, lock>>

-----------------------------------------------------------------------------
(* runLockedPromptJob, executePromptJob *)

InnerOnly == UNCHANGED <<unit, outer, exit, run, runs>>

(* The manifest, the prompt and the launcher are checked, and may fail.    *)
InnerLoad(j) ==
  /\ inner[j] = "load"
  /\ \/ /\ inner' = [inner EXCEPT ![j] = "run"]
        /\ codex' = [codex EXCEPT ![j] = "running"]
        /\ UNCHANGED <<innerExit, lock>>
     \/ InnerGone(j, 2) /\ UNCHANGED codex
  /\ UNCHANGED <<result, last, disturbances>> /\ InnerOnly

InnerTimeout(j) ==
  /\ inner[j] = "run" /\ Alive(j)
  /\ inner' = [inner EXCEPT ![j] = "stop"]
  /\ UNCHANGED <<innerExit, codex, result, lock, last, disturbances>> /\ InnerOnly

(* Codex ends by itself, or for a SIGTERM.                                 *)
CodexEnds(j) ==
  /\ Alive(j)
  /\ \E how \in {"passed", "failed"} : codex' = [codex EXCEPT ![j] = how]
  /\ UNCHANGED <<inner, innerExit, result, lock, last, disturbances>> /\ InnerOnly

(* The grace is over, and Codex gets a SIGKILL.                            *)
InnerKill(j) ==
  /\ inner[j] = "stop" /\ Alive(j)
  /\ codex' = [codex EXCEPT ![j] = "failed"]
  /\ UNCHANGED <<inner, innerExit, result, lock, last, disturbances>> /\ InnerOnly

(* The completion, and resultDocument.                                     *)
CodexResult(j) ==
  IF inner[j] = "stop" THEN "timed-out" ELSE codex[j]

Completed(j) ==
  /\ inner[j] \in {"run", "stop"} /\ ~Alive(j)
  /\ inner' = [inner EXCEPT ![j] = "status"]
  /\ result' = [result EXCEPT ![j].inner = CodexResult(j)]
  /\ UNCHANGED <<innerExit, codex, lock, last, disturbances>> /\ InnerOnly

(* PromptJobResultStore.record: the last run first, the history second.    *)
Wrote(j, r) == last' = [last EXCEPT ![j] = [run |-> run[j], result |-> r]]

InnerStatus(j) ==
  /\ inner[j] = "status"
  /\ Wrote(j, result[j].inner)
  /\ inner' = [inner EXCEPT ![j] = "log"]
  /\ UNCHANGED <<innerExit, codex, result, lock, disturbances>> /\ InnerOnly

InnerLog(j) ==
  /\ inner[j] = "log"
  /\ InnerGone(j, ExitCode(result[j].inner))
  /\ UNCHANGED <<codex, result, last, disturbances>> /\ InnerOnly

(* Mutant: a write that fails does not fail the run.                       *)
InnerWriteIgnored(j) ==
  /\ Disturb
  /\ inner[j] \in {"status", "log"}
  /\ InnerGone(j, ExitCode(result[j].inner))
  /\ UNCHANGED <<codex, result, last>> /\ InnerOnly

InnerWriteFails(j) ==
  /\ Disturb
  /\ inner[j] \in {"status", "log"}
  /\ InnerGone(j, 2)
  /\ UNCHANGED <<codex, result, last>> /\ InnerOnly

-----------------------------------------------------------------------------
(* runPromptJob *)

(* systemd starts an idle service, for its timer or for run-once.          *)
StartService(j) ==
  /\ unit[j] = "idle" /\ runs < MaxRuns
  /\ runs' = runs + 1 /\ run' = [run EXCEPT ![j] = @ + 1]
  /\ unit' = [unit EXCEPT ![j] = "running"] /\ outer' = [outer EXCEPT ![j] = "load"]
  /\ codex' = [codex EXCEPT ![j] = "none"]
  /\ result' = [result EXCEPT ![j] = [inner |-> "none", outer |-> "none"]]
  /\ innerExit' = [innerExit EXCEPT ![j] = 0]
  /\ exit' = [exit EXCEPT ![j] = Running]
  /\ UNCHANGED <<inner, lock, last, disturbances>>

OuterOnly == UNCHANGED <<codex, run, runs>>

OuterLoad(j) ==
  /\ outer[j] = "load"
  /\ \/ outer' = [outer EXCEPT ![j] = "lock"] /\ UNCHANGED <<unit, exit>>
     \/ OuterGone(j, 2)
  /\ UNCHANGED <<inner, innerExit, result, lock, last, disturbances>> /\ OuterOnly

(* Mutant: only the job's own lock is taken.                               *)
TakeJobLock(j) ==
  /\ outer[j] = "lock"
  /\ outer' = [outer EXCEPT ![j] = "wait"]
  /\ inner' = [inner EXCEPT ![j] = "load"]
  /\ UNCHANGED <<innerExit, lock, unit, result, last, exit, disturbances>> /\ OuterOnly

(* flock --nonblock around flock --nonblock around run-locked.  The job's  *)
(* own lock is free, since systemd runs a service once.                    *)
TakeLocks(j) ==
  /\ outer[j] = "lock"
  /\ outer' = [outer EXCEPT ![j] = "wait"]
  /\ \/ /\ lock[GroupOf[j]] = NoJob
        /\ lock' = [lock EXCEPT ![GroupOf[j]] = j]
        /\ inner' = [inner EXCEPT ![j] = "load"]
        /\ UNCHANGED innerExit
     \/ /\ lock[GroupOf[j]] # NoJob
        /\ innerExit' = [innerExit EXCEPT ![j] = 75]
        /\ UNCHANGED <<lock, inner>>
  /\ UNCHANGED <<unit, result, last, exit, disturbances>> /\ OuterOnly

(* What runPromptJob makes of the completion.                              *)
OuterResult(j) ==
  CASE outer[j] = "stop" -> "timed-out"
    [] outer[j] = "wait" /\ innerExit[j] = 75 -> "skipped-overlap"
    [] OTHER -> "failed"

Answered(j) ==
  /\ outer[j] \in {"wait", "stop", "halt"} /\ inner[j] = "none"
  /\ \/ /\ outer[j] = "wait" /\ innerExit[j] \in {0, 70, 71}
        /\ OuterGone(j, innerExit[j])
        /\ UNCHANGED result
     \/ /\ outer[j] # "wait" \/ innerExit[j] \notin {0, 70, 71}
        /\ outer' = [outer EXCEPT ![j] = "status"]
        /\ result' = [result EXCEPT ![j].outer = OuterResult(j)]
        /\ UNCHANGED <<unit, exit>>
  /\ UNCHANGED <<inner, innerExit, lock, last, disturbances>> /\ OuterOnly

OuterTimeout(j) ==
  /\ outer[j] = "wait" /\ inner[j] # "none"
  /\ outer' = [outer EXCEPT ![j] = "stop"]
  /\ InnerSignaled(j)
  /\ UNCHANGED <<unit, result, last, exit, disturbances>> /\ OuterOnly

(* The grace is over: SIGKILL to the flocks and run-locked.  Codex is in   *)
(* another process group.                                                  *)
OuterKill(j) ==
  /\ outer[j] \in {"stop", "halt"} /\ inner[j] # "none"
  /\ InnerGone(j, Signaled)
  /\ UNCHANGED <<unit, outer, result, last, exit, disturbances>> /\ OuterOnly

OuterStatus(j) ==
  /\ outer[j] = "status"
  /\ Wrote(j, result[j].outer)
  /\ outer' = [outer EXCEPT ![j] = "log"]
  /\ UNCHANGED <<unit, inner, innerExit, result, lock, exit, disturbances>> /\ OuterOnly

OuterLog(j) ==
  /\ outer[j] = "log"
  /\ OuterGone(j, ExitCode(result[j].outer))
  /\ UNCHANGED <<inner, innerExit, result, lock, last, disturbances>> /\ OuterOnly

OuterWriteFails(j) ==
  /\ Disturb
  /\ outer[j] \in {"status", "log"}
  /\ OuterGone(j, 2)
  /\ UNCHANGED <<inner, innerExit, result, lock, last>> /\ OuterOnly

-----------------------------------------------------------------------------
(* systemd, and the kernel *)

(* A stop, or TimeoutStartSec: SIGTERM to every process of the service.    *)
(* flock, if it still runs, dies of it, and the cleanup of its group       *)
(* follows, as after a timeout; "run" dies of it when it waits for none.   *)
StopService(j) ==
  /\ Disturb
  /\ unit[j] = "running"
  /\ unit' = [unit EXCEPT ![j] = "stopping"]
  /\ InnerSignaled(j)
  /\ \/ /\ outer[j] = "wait" /\ inner[j] # "none"
        /\ outer' = [outer EXCEPT ![j] = "halt"] /\ UNCHANGED exit
     \/ /\ outer[j] \in {"stop", "halt"} \/ (outer[j] = "wait" /\ inner[j] = "none")
        /\ UNCHANGED <<outer, exit>>
     \/ /\ outer[j] \in {"load", "lock", "status", "log"}
           \/ (outer[j] = "wait" /\ inner[j] = "none")
        /\ outer' = [outer EXCEPT ![j] = "none"]
        /\ exit' = [exit EXCEPT ![j] = Signaled]
  /\ UNCHANGED <<codex, result, last, run, runs>>

(* TimeoutStopSec: SIGKILL to whatever is left.                            *)
KillService(j) ==
  /\ unit[j] = "stopping"
  /\ InnerGone(j, Signaled)
  /\ outer' = [outer EXCEPT ![j] = "none"]
  /\ exit' = [exit EXCEPT ![j] = IF outer[j] = "none" THEN @ ELSE Signaled]
  /\ codex' = [codex EXCEPT ![j] = IF Alive(j) THEN "failed" ELSE @]
  /\ unit' = [unit EXCEPT ![j] = "idle"]
  /\ UNCHANGED <<result, last, run, runs, disturbances>>

Stopped(j) ==
  /\ unit[j] = "stopping" /\ outer[j] = "none" /\ inner[j] = "none" /\ ~Alive(j)
  /\ unit' = [unit EXCEPT ![j] = "idle"]
  /\ UNCHANGED <<outer, inner, innerExit, codex, result, lock, last, exit, run, runs, disturbances>>

(* run-locked is killed, for want of memory.                               *)
KillInner(j) ==
  /\ Disturb
  /\ inner[j] # "none"
  /\ InnerGone(j, 137)
  /\ UNCHANGED <<codex, result, last>> /\ InnerOnly

RunsStep(j) ==
  \/ InnerLoad(j) \/ InnerTimeout(j) \/ CodexEnds(j) \/ InnerKill(j) \/ Completed(j)
  \/ InnerStatus(j) \/ InnerLog(j) \/ InnerWriteFails(j)
  \/ OuterLoad(j) \/ TakeLocks(j) \/ Answered(j) \/ OuterTimeout(j) \/ OuterKill(j)
  \/ OuterStatus(j) \/ OuterLog(j) \/ OuterWriteFails(j)
  \/ StopService(j) \/ KillService(j) \/ Stopped(j) \/ KillInner(j)

-----------------------------------------------------------------------------

(* The Codex processes of two jobs of one overlap group run at the same    *)
(* time only if the supervisor of one was killed, whose service systemd is *)
(* then bringing down.                                                     *)
GroupRunsAlone ==
  \A j, k \in Job :
    j # k /\ GroupOf[j] = GroupOf[k] /\ Alive(j) /\ Alive(k)
      => inner[j] = "none" \/ inner[k] = "none"

(* A service that ends with a status of its own has recorded the run: its  *)
(* last-run.json is of this run and says what the status says; it says     *)
(* "passed" only if Codex did, "skipped" only if it never ran.             *)
ExitIsRecorded ==
  \A j \in Job :
    exit[j] \in {0, 70, 71} =>
      /\ last[j].run = run[j] /\ ExitCode(last[j].result) = exit[j]
      /\ last[j].result = "passed" => codex[j] = "passed"
      /\ last[j].result = "skipped-overlap" => codex[j] = "none"
=============================================================================
