---------------------------- MODULE ImageFailure ----------------------------
(***************************************************************************)
(* What the image command tells of a failure (packages/cli/src/image/      *)
(* failure.ts, errors.ts and command.ts, with the errors of imaging/ and   *)
(* customize/): the phase that failed, the state the target was left in,   *)
(* whether cleanup failed, and the exit code.                              *)
(*                                                                         *)
(* An error is abstracted to what that code reads from it:                 *)
(*   source     the class of its primary cause, "none" for a failure of    *)
(*              cleanup alone                                              *)
(*   at         the phase that the primary cause's code stands for         *)
(*   cleanup    a cleanup-failed error is somewhere in its causes          *)
(*   completed  the latest completedPhase found in its causes              *)
(***************************************************************************)
EXTENDS Naturals

Destructive == {"lock", "recheck", "write", "verify"}

Phases == Destructive \cup
  {"validation", "os-resolution", "synthesis", "artifact-acquisition", "preparation",
   "preflight", "confirmation", "customize", "check", "cleanup"}

(* States of the target, from the one that promises the least changed.     *)
RecoveryStates == {"target-unchanged", "target-incomplete",
                   "target-verified-needs-customization", "complete"}

Sources == {"none", "write", "customize", "guardrail", "confirmation", "other"}
CompletedPhases == {"nothing", "verify", "check"}

Errors == [source : Sources, at : Phases, cleanup : BOOLEAN, completed : CompletedPhases]

Error(source, at) == [source |-> source, at |-> at, cleanup |-> FALSE, completed |-> "nothing"]
NoError == Error("none", "cleanup")

(* An ImageWriteError by the phase of its code (writeFailurePhase), an     *)
(* ImageCustomizationError, a DriveGuardrailError, and the others.         *)
WriteError(at) == Error("write", at)
CustomizationError(at) == Error("customize", at)
Guardrail == Error("guardrail", "preflight")
Rejected == Error("confirmation", "confirmation")
Other == Error("other", "cleanup")

(* cleanupFailure of either transaction: `error` is what had failed before *)
(* cleanup did, if anything; `completed` is the wrapper's completedPhase.  *)
(* Mutant: the wrapper hides what had failed before.                       *)
CleanupHidingCause(error, completed) ==
  [NoError EXCEPT !.cleanup = TRUE, !.completed = completed]

CleanupFailure(error, completed) ==
  [error EXCEPT !.cleanup = TRUE,
                !.completed = IF "check" \in {@, completed} THEN "check"
                              ELSE IF "verify" \in {@, completed} THEN "verify"
                              ELSE "nothing"]

(* Mutant: an error of the write transaction does not name its own phase.  *)
PhaseFromProgress(error, current) ==
  IF error.source = "none" THEN "cleanup"
  ELSE IF error.source = "customize" THEN IF error.at = "check" THEN "check" ELSE "customize"
  ELSE current

PhaseForFailure(error, current) ==
  IF error.source = "none" THEN "cleanup"
  ELSE IF error.source = "write" THEN error.at
  ELSE IF current \in Destructive THEN current
  ELSE IF error.source = "customize" \/ current \in {"customize", "check"}
  THEN IF error.at = "check" THEN "check" ELSE "customize"
  ELSE IF error.source = "confirmation" THEN "confirmation"
  ELSE current

(* completedRecoveryFor, of the latest completedPhase.                     *)
CompletedRecovery ==
  [nothing |-> "target-unchanged", verify |-> "target-verified-needs-customization",
   check |-> "complete"]

LatestRecovery(recovery, completed) ==
  IF "complete" \in {recovery, CompletedRecovery[completed]} THEN "complete"
  ELSE IF completed = "verify" THEN CompletedRecovery[completed]
  ELSE recovery

RecoveryFor(recovery, error, phase) ==
  LET latest == LatestRecovery(recovery, error.completed)
  IN  IF latest = "target-unchanged" /\ phase \in {"write", "verify"}
      THEN "target-incomplete" ELSE latest

(* The ImageWorkflowError that ends the command.                           *)
Report(phase, recovery, canceled, cleanupFailed) ==
  [phase |-> phase, recovery |-> recovery, canceled |-> canceled,
   cleanupFailed |-> cleanupFailed]

Reports == [phase : Phases, recovery : RecoveryStates, canceled : BOOLEAN,
            cleanupFailed : BOOLEAN]

ExitCode(report) ==
  IF report.cleanupFailed THEN 13
  ELSE IF report.canceled THEN 130
  ELSE IF report.phase \in {"confirmation", "preflight"} THEN 10
  ELSE IF report.phase \in Destructive THEN 11
  ELSE IF report.phase \in {"customize", "check"} THEN 12
  ELSE 9
=============================================================================
