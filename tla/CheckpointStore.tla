--------------------------- MODULE CheckpointStore ---------------------------
(***************************************************************************)
(* The checkpoint store (packages/runner/src/state/store.ts) over a file   *)
(* whose rename is visible at once and durable only after the directory is *)
(* synced.  Calls are serialized; each inspects the file (which removes    *)
(* temporary files and syncs the directory), applies one transition and    *)
(* replaces the file.  A write may fail before the rename, or after it:    *)
(* then the caller gets an error although the new contents are visible.    *)
(* A power loss may undo a rename that was not yet synced.                 *)
(***************************************************************************)
EXTENDS Checkpoint

CONSTANTS
  Callers,        (* concurrent callers within the runner process *)
  MaxAttempt,     (* bound on step attempts                       *)
  MaxGeneration   (* bound on process generations                 *)

ASSUME BoundsAssumption == MaxAttempt \in Nat /\ MaxGeneration \in Nat

VARIABLES
  visible,    (* contents of the checkpoint file as a reader sees them    *)
  durable,    (* contents that survive a power loss                       *)
  call,       (* what each call in progress has inspected, or Idle        *)
  returned    (* history: the contents most recently returned to a caller *)

vars == <<visible, durable, call, returned>>

Contents == [revision : Nat, document : Document]
Pristine == [revision |-> 0, document |-> InitialCheckpoint]
Idle == [revision |-> -1, document |-> InitialCheckpoint]

Init ==
  /\ visible = Pristine
  /\ durable = Pristine
  /\ returned = Pristine
  /\ call = [c \in Callers |-> Idle]

Busy(c) == call[c] # Idle
Finish(c) == call' = [call EXCEPT ![c] = Idle]
Abandon == call' = [c \in Callers |-> Idle]

(* Mutant: the inspection does not sync the directory.                     *)
InspectUnsynced(c) ==
  /\ \A other \in Callers : ~Busy(other)
  /\ call' = [call EXCEPT ![c] = visible]
  /\ UNCHANGED <<visible, durable, returned>>

(* A call reaches the head of the queue and inspects the file.             *)
Inspect(c) ==
  /\ \A other \in Callers : ~Busy(other)
  /\ durable' = visible
  /\ call' = [call EXCEPT ![c] = visible]
  /\ UNCHANGED <<visible, returned>>

(* The call writes a changed document, unless its schema refuses it.       *)
Persist(c, document) ==
  LET next == [revision |-> call[c].revision + 1, document |-> document]
  IN  /\ document # call[c].document
      /\ Schema(document)
      /\ visible' = next
      /\ \/ durable' = next /\ returned' = next
         \/ UNCHANGED <<durable, returned>>
      /\ Finish(c)

(* Reading the state, or an event already recorded: nothing is written.    *)
Return(c) ==
  /\ Busy(c)
  /\ returned' = call[c]
  /\ Finish(c)
  /\ UNCHANGED <<visible, durable>>

(* The transition or the schema refuses the event, or the write fails      *)
(* before the rename.                                                      *)
Refuse(c) ==
  /\ Busy(c)
  /\ Finish(c)
  /\ UNCHANGED <<visible, durable, returned>>

CheckpointStep(c) ==
  \E target \in [index : Indexes, attempt : 1 .. MaxAttempt, phase : StepPhases] :
    /\ Busy(c)
    /\ StepAllowed(call[c].document, target)
    /\ Persist(c, StepResult(call[c].document, target))

CheckpointProcess(c) ==
  \E i \in Indexes, generation \in 1 .. MaxGeneration, identity \in Identities :
    LET document == call[c].document
    IN  /\ Busy(c)
        /\ \/ /\ RegisterAllowed(document, i, generation)
              /\ Persist(c, RegisterResult(document, i, generation, identity))
           \/ /\ AcceptAllowed(document, i, generation, identity)
              /\ Persist(c, AcceptResult(document, i))
           \/ \E outcome \in Outcomes, exit \in Exits :
                /\ FinishAllowed(document, i, generation, identity, outcome, exit)
                /\ Persist(c, FinishResult(document, i, outcome, exit))

CheckpointSecret(c) ==
  \E target \in SecretTarget :
    /\ Busy(c)
    /\ SecretAllowed(call[c].document, target)
    /\ Persist(c, SecretResult(call[c].document, target))

MarkTerminal(c) ==
  /\ Busy(c)
  /\ \/ /\ SuccessAllowed(call[c].document)
        /\ Persist(c, SuccessResult(call[c].document))
     \/ \E diagnostic \in Diagnostics :
          /\ FailureAllowed(call[c].document, diagnostic)
          /\ Persist(c, FailureResult(call[c].document, diagnostic))

(* The runner process dies.                                                *)
Kill ==
  /\ Abandon
  /\ UNCHANGED <<visible, durable, returned>>

(* The machine loses power: an unsynced rename survives or is undone.      *)
PowerLoss ==
  /\ Abandon
  /\ visible' \in {visible, durable}
  /\ durable' = visible'
  /\ UNCHANGED returned

Next ==
  \/ \E c \in Callers :
       \/ Inspect(c) \/ Return(c) \/ Refuse(c)
       \/ CheckpointStep(c) \/ CheckpointProcess(c)
       \/ CheckpointSecret(c) \/ MarkTerminal(c)
  \/ Kill
  \/ PowerLoss

Spec == Init /\ [][Next]_vars

-----------------------------------------------------------------------------
TypeOK ==
  /\ visible \in Contents
  /\ durable \in Contents
  /\ returned \in Contents
  /\ call \in [Callers -> Contents \cup {Idle}]

(* Contents that can be the same file or a later one.                      *)
NotAfter(a, b) ==
  \/ a = b
  \/ a.revision < b.revision

(* What a caller was told is on disk for good: no failed write, serialized *)
(* neighbour or power loss takes back a state the store has returned, and  *)
(* no two different documents are returned under one revision.             *)
ReturnedIsDurable == NotAfter(returned, durable) /\ NotAfter(durable, visible)

(* The documents returned form a history (module CheckpointHistory).       *)
History == INSTANCE CheckpointHistory WITH returned <- returned.document
ReturnedIsHistory == History!Spec
=============================================================================
