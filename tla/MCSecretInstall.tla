--------------------------- MODULE MCSecretInstall ---------------------------
(***************************************************************************)
(* The installer with what happened to it so far: whether an attempt was   *)
(* cut short otherwise than by a power loss, whether there was a power     *)
(* loss, and whether the source was replaced.                              *)
(***************************************************************************)
EXTENDS SecretInstall

VARIABLES interrupted, lost, replaced

history == <<interrupted, lost, replaced>>

MCInit == Init /\ interrupted = FALSE /\ lost = FALSE /\ replaced = FALSE

MCNext ==
  \/ /\ Attempt \/ Fault \/ Kill
     /\ interrupted' = (interrupted \/ budget' # budget)
     /\ UNCHANGED <<lost, replaced>>
  \/ PowerLoss /\ lost' = TRUE /\ UNCHANGED <<interrupted, replaced>>
  \/ Replace /\ replaced' = TRUE /\ UNCHANGED <<interrupted, lost>>

(* The runner is started again until the step has succeeded.               *)
MCFairness == WF_<<vars, history>>(Attempt /\ MCNext)

MCSpec == MCInit /\ [][MCNext]_<<vars, history>> /\ MCFairness

(* Whatever a power loss keeps, a copy of the secret is left, and a        *)
(* committed removal is not undone: unless an attempt was cut short        *)
(* between a change and the sync of its directory, and resumed after the   *)
(* change, without the sync (destination-store.ts:58, installer.ts:124).   *)
SecretSurvives == ~interrupted => SecretSurvivesPowerLoss
RemovalIsDurable == ~interrupted /\ ~replaced => CommittedRemovalIsDurable

(* The transaction comes to an end after the last disturbance, unless a    *)
(* new secret took the place of the source, or a power loss undid the      *)
(* unsynced part of an attempt cut short.                                  *)
EndsInstalled == <>(pc = "done" \/ replaced \/ (interrupted /\ lost))
=============================================================================
