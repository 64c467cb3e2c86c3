-------------------------- MODULE CheckpointHistory --------------------------
(***************************************************************************)
(* What the checkpoint store promises its callers: the sequence of         *)
(* documents it has returned is a history.  Steps, attempts, process       *)
(* generations and phases only move forward, a recorded success, a         *)
(* finished process and a terminal status are never rewritten, whatever    *)
(* writes failed and whatever power losses came in between.                *)
(***************************************************************************)
EXTENDS Checkpoint

VARIABLE returned    (* the document most recently returned to a caller *)

StepPrecedes(a, b) ==
  \/ a.phase = "none"
  \/ a = b
  \/ a.index < b.index
  \/ /\ a.index = b.index
     /\ \/ a.attempt < b.attempt /\ a.phase # "succeeded"
        \/ a.attempt = b.attempt /\ a.phase = "started"

ProcessPrecedes(a, b) ==
  \/ a.generation < b.generation
  \/ /\ a.generation = b.generation
     /\ a.identity = b.identity
     /\ \/ a = b
        \/ a.phase = "registered" /\ b.phase \in {"accepted", "finished"}
        \/ a.phase = "accepted" /\ b.phase = "finished" /\ b.accepted

Precedes(a, b) ==
  /\ StepPrecedes(a.step, b.step)
  /\ \A i \in Indexes : ProcessPrecedes(a.processes[i], b.processes[i])
  /\ a.terminal # "none" => a = b

Init == returned = InitialCheckpoint

Next == Precedes(returned, returned')

Spec == Init /\ [][Next]_returned
=============================================================================
