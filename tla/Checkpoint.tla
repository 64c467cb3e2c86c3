------------------------------ MODULE Checkpoint ------------------------------
(***************************************************************************)
(* The runner's checkpoint document and the transitions it admits          *)
(* (packages/runner/src/state/transitions.ts and schema.ts).               *)
(*                                                                         *)
(* A transition is a pair of operators: XAllowed is the conjunction of     *)
(* the conditions under which the code does not throw StateTransitionError *)
(* and XResult is the document it returns (its argument when the event was *)
(* already recorded).  A changed document is re-parsed before it is        *)
(* returned, so a transition takes effect only when Schema holds of its    *)
(* result.                                                                 *)
(*                                                                         *)
(* Left out: timestamps, the plan identity (constant during a run), and    *)
(* the step's id beside its index (the plan fixes one by the other).  The  *)
(* revision number is kept by CheckpointStore.                             *)
(***************************************************************************)
EXTENDS Integers

CONSTANTS
  StepCount,    (* number of steps in the plan                                 *)
  Identities,   (* stable process identities: boot id, pid, group, start ticks *)
  NoIdentity,   (* "no process recorded"                                       *)
  Exits,        (* exit statuses a finish event may carry (code, signal)       *)
  NoExit,       (* "no exit recorded"                                          *)
  Diagnostics   (* diagnostics a terminal failure may carry                    *)

ASSUME StepCountAssumption == StepCount \in Nat \ {0}
ASSUME DiagnosticsAssumption == Diagnostics \cap {"none", "succeeded"} = {}

Indexes == 0 .. StepCount - 1

-----------------------------------------------------------------------------
(* The document *)

StepPhases == {"started", "succeeded", "failed"}
StepTarget == [index : Indexes, attempt : Nat \ {0}, phase : StepPhases]
NoStep == [index |-> 0, attempt |-> 0, phase |-> "none"]

Outcomes == {"exited-before-acceptance", "exited-after-acceptance",
             "reconciled-missing", "runner-shutdown"}
Process == [generation : Nat, identity : Identities \cup {NoIdentity},
            phase : {"none", "registered", "accepted", "finished"},
            accepted : BOOLEAN, outcome : Outcomes \cup {"none"},
            exit : Exits \cup {NoExit}]
NoProcess == [generation |-> 0, identity |-> NoIdentity, phase |-> "none",
              accepted |-> FALSE, outcome |-> "none", exit |-> NoExit]

SecretPhases == {"prepared", "installed", "source-removed", "committed"}
SecretTarget == [step : Indexes, phase : SecretPhases]
NoSecret == [step |-> 0, phase |-> "none"]
SecretRank(phase) == CASE phase = "prepared" -> 1
                       [] phase = "installed" -> 2
                       [] phase = "source-removed" -> 3
                       [] phase = "committed" -> 4
                       [] OTHER -> 0

Document == [step : StepTarget \cup {NoStep}, processes : [Indexes -> Process],
             secret : SecretTarget \cup {NoSecret},
             terminal : {"none", "succeeded"} \cup Diagnostics]

InitialCheckpoint == [step |-> NoStep, processes |-> [i \in Indexes |-> NoProcess],
                      secret |-> NoSecret, terminal |-> "none"]

Unfinished(process) == process.phase \in {"registered", "accepted"}

(* What parseRunnerCheckpoint refuses beyond the shape of the document.    *)
ProcessSchema(process) ==
  process.phase = "finished" =>
    /\ process.outcome = "exited-before-acceptance" => ~process.accepted
    /\ process.outcome = "exited-after-acceptance" => process.accepted

Schema(document) ==
  /\ \A i \in Indexes : ProcessSchema(document.processes[i])
  /\ document.secret.phase # "none" =>
       /\ document.step.phase # "none"
       /\ document.secret.step = document.step.index
       /\ document.step.phase = "succeeded" => document.secret.phase = "committed"
  /\ document.terminal = "succeeded" =>
       /\ document.step.phase \in {"none", "succeeded"}
       /\ document.secret.phase \in {"none", "committed"}
  /\ document.terminal # "none" =>
       \A i \in Indexes : ~Unfinished(document.processes[i])

-----------------------------------------------------------------------------
(* Steps *)

SecretSettled(document) == document.secret.phase \in {"none", "committed"}

CompletesAttempt(current, target) ==
  /\ current.phase = "started"
  /\ target.attempt = current.attempt
  /\ target.phase \in {"succeeded", "failed"}

(* Mutant: a step that succeeded may be attempted again.                   *)
RetriesAnyAttempt(current, target) ==
  /\ current.phase # "started"
  /\ target.phase = "started"
  /\ target.attempt = current.attempt + 1

RetriesAttempt(current, target) ==
  /\ current.phase = "failed"
  /\ target.phase = "started"
  /\ target.attempt = current.attempt + 1

StepAllowed(document, target) ==
  LET current == document.step
  IN  /\ document.terminal = "none"
      /\ \/ /\ current.phase = "none"
            /\ target.index = 0 /\ target.attempt = 1 /\ target.phase = "started"
         \/ target = current
         \/ /\ current.phase # "none"
            /\ target.index = current.index
            /\ CompletesAttempt(current, target) \/ RetriesAttempt(current, target)
            /\ target.phase = "succeeded" => SecretSettled(document)
         \/ /\ current.phase = "succeeded"
            /\ target.index = current.index + 1
            /\ target.attempt = 1 /\ target.phase = "started"
            /\ SecretSettled(document)

StepResult(document, target) ==
  [document EXCEPT
     !.step = target,
     !.secret = IF document.step.phase # "none" /\ target.index # document.step.index
                THEN NoSecret ELSE @]

-----------------------------------------------------------------------------
(* Fire-and-forget processes: an event names the step, the generation and  *)
(* the identity it is about.                                               *)

SameProcess(process, generation, identity) ==
  process.generation = generation /\ process.identity = identity

RegisterAllowed(document, i, generation) ==
  /\ document.terminal = "none"
  /\ generation = document.processes[i].generation + 1
  /\ ~Unfinished(document.processes[i])

RegisterResult(document, i, generation, identity) ==
  [document EXCEPT !.processes[i] =
     [NoProcess EXCEPT !.generation = generation, !.identity = identity,
                       !.phase = "registered"]]

(* Mutant: a process that finished meanwhile is accepted.                  *)
AcceptAllowedLate(document, i, generation, identity) ==
  /\ document.terminal = "none"
  /\ SameProcess(document.processes[i], generation, identity)

AcceptAllowed(document, i, generation, identity) ==
  /\ document.terminal = "none"
  /\ SameProcess(document.processes[i], generation, identity)
  /\ Unfinished(document.processes[i])

AcceptResult(document, i) ==
  [document EXCEPT !.processes[i] = [@ EXCEPT !.phase = "accepted", !.accepted = TRUE]]

FinishAllowed(document, i, generation, identity, outcome, exit) ==
  LET process == document.processes[i]
  IN  /\ document.terminal = "none"
      /\ SameProcess(process, generation, identity)
      /\ \/ Unfinished(process)
         \/ /\ process.phase = "finished"
            /\ process.outcome = outcome /\ process.exit = exit

FinishResult(document, i, outcome, exit) ==
  [document EXCEPT !.processes[i] =
     [@ EXCEPT !.phase = "finished", !.outcome = outcome, !.exit = exit]]

-----------------------------------------------------------------------------
(* Secret transactions and terminal states *)

SecretAllowed(document, target) ==
  /\ document.terminal = "none"
  /\ document.step.phase = "started" /\ document.step.index = target.step
  /\ \/ document.secret.phase = "none" /\ target.phase = "prepared"
     \/ /\ document.secret.phase # "none"
        /\ document.secret.step = target.step
        /\ SecretRank(target.phase) \in
             {SecretRank(document.secret.phase), SecretRank(document.secret.phase) + 1}

SecretResult(document, target) == [document EXCEPT !.secret = target]

SuccessAllowed(document) ==
  \/ document.terminal = "succeeded"
  \/ /\ document.terminal = "none"
     /\ document.step.phase \in {"none", "succeeded"}
     /\ SecretSettled(document)

SuccessResult(document) == [document EXCEPT !.terminal = "succeeded"]

FailureAllowed(document, diagnostic) == document.terminal \in {"none", diagnostic}

FailureResult(document, diagnostic) == [document EXCEPT !.terminal = diagnostic]
=============================================================================
