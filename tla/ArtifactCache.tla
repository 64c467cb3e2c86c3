---------------------------- MODULE ArtifactCache ----------------------------
(***************************************************************************)
(* The cache of operating-system artifacts (packages/cli/src/images/       *)
(* artifact-cache.ts) and the download into it (download.ts), for one      *)
(* artifact, identified by its digest.  Callers are processes that run     *)
(* `create-agent image`; its lock is that of module FileLock: a caller     *)
(* that dies loses it.                                                     *)
(*                                                                         *)
(* The cache directory survives everything; of a power loss it is only     *)
(* assumed that files have some contents, since the cache checks them      *)
(* before each use: syncs are left out.                                    *)
(***************************************************************************)
EXTENDS Naturals

CONSTANTS
  Callers,
  Length,      (* chunks of the artifact *)
  MaxFaults    (* bound on failing operations, misbehaving servers and power losses *)

ASSUME LengthAssumption == Length \in Nat \ {0}
ASSUME FaultsAssumption == MaxFaults \in Nat

VARIABLES
  artifact,    (* the file at the artifact's path                  *)
  partial,     (* the file of the download                         *)
  holders,     (* who holds the lock of the digest                 *)
  call,        (* what each caller is doing                        *)
  faults       (* faults so far                                    *)

vars == <<artifact, partial, holders, call, faults>>

-----------------------------------------------------------------------------
(* A file is nothing, something that is not a regular file, or a number of *)
(* chunks, which are the artifact's first ones or not.                     *)
Absent == [kind |-> "absent", length |-> 0, genuine |-> FALSE]
Special == [kind |-> "special", length |-> 0, genuine |-> FALSE]
Empty == [kind |-> "regular", length |-> 0, genuine |-> TRUE]
Whole == [kind |-> "regular", length |-> Length, genuine |-> TRUE]
Files == {Absent, Special} \cup
           [kind : {"regular"}, length : 0 .. Length + 1, genuine : BOOLEAN]

(* What a caller remembers: where it is, and of the response, the offset   *)
(* it starts at, the chunks it announced, the chunks received, and whether *)
(* they are those of the artifact.                                         *)
Calls == [pc : {"start", "check", "quarantine", "partial", "request", "receive", "verify",
                "promote", "inspect", "acquired", "failed"},
          start : 0 .. Length, expected : 0 .. Length, received : 0 .. Length,
          genuine : BOOLEAN]
InitialCall == [pc |-> "start", start |-> 0, expected |-> 0, received |-> 0, genuine |-> TRUE]

Init ==
  /\ artifact = Absent
  /\ partial = Absent
  /\ holders = {}
  /\ call = [c \in Callers |-> InitialCall]
  /\ faults = 0

At(c, pc) == call[c].pc = pc
Goto(c, pc) == call' = [call EXCEPT ![c].pc = pc]
Fault == faults < MaxFaults /\ faults' = faults + 1
Leave(c, pc) == holders' = holders \ {c} /\ Goto(c, pc)

-----------------------------------------------------------------------------
(* acquire                                                                 *)

(* Mutant: the lock is not waited for.                                     *)
EnterAnyway(c) ==
  /\ At(c, "start")
  /\ holders' = holders \cup {c}
  /\ Goto(c, "check")
  /\ UNCHANGED <<artifact, partial, faults>>

Enter(c) ==
  /\ At(c, "start") /\ holders = {}
  /\ holders' = holders \cup {c}
  /\ Goto(c, "check")
  /\ UNCHANGED <<artifact, partial, faults>>

(* Mutant: a cached artifact is trusted for its length.                    *)
CheckLength(c) ==
  /\ At(c, "check")
  /\ Goto(c, IF artifact.kind = "regular" /\ artifact.length = Length THEN "inspect"
             ELSE IF artifact.kind = "absent" THEN "partial" ELSE "quarantine")
  /\ UNCHANGED <<artifact, partial, holders, faults>>

CheckCached(c) ==
  /\ At(c, "check")
  /\ Goto(c, IF artifact = Whole THEN "inspect"
             ELSE IF artifact.kind = "absent" THEN "partial" ELSE "quarantine")
  /\ UNCHANGED <<artifact, partial, holders, faults>>

Quarantine(c) ==
  /\ At(c, "quarantine")
  /\ artifact' = Absent
  /\ Goto(c, "partial")
  /\ UNCHANGED <<partial, holders, faults>>

(* A download that is not to be resumed: one that is as long as the        *)
(* artifact and is not the artifact, or longer, or not a file.             *)
Unusable == partial.kind = "special" \/ (partial.kind = "regular" /\ partial.length >= Length)

(* Mutant: a complete download with a wrong digest is an error, and kept.  *)
KeepPartial(c) ==
  /\ At(c, "partial")
  /\ \/ partial = Whole /\ Goto(c, "promote") /\ UNCHANGED holders
     \/ partial # Whole /\ Unusable /\ Leave(c, "failed")
     \/ ~Unusable /\ Goto(c, "request") /\ UNCHANGED holders
  /\ UNCHANGED <<artifact, partial, faults>>

CheckPartial(c) ==
  /\ At(c, "partial")
  /\ \/ partial = Whole /\ Goto(c, "promote") /\ UNCHANGED partial
     \/ partial # Whole /\ Unusable /\ Goto(c, "request") /\ partial' = Absent
     \/ ~Unusable /\ Goto(c, "request") /\ UNCHANGED partial
  /\ UNCHANGED <<artifact, holders, faults>>

(* The download is verified, and renamed to the artifact.                  *)
(* Mutant: a download is verified by its length.                           *)
VerifyLength(c) ==
  /\ At(c, "verify")
  /\ Goto(c, "promote")
  /\ UNCHANGED <<artifact, partial, holders, faults>>

Verify(c) ==
  /\ At(c, "verify")
  /\ \/ partial = Whole /\ Goto(c, "promote") /\ UNCHANGED <<partial, holders>>
     \/ partial # Whole /\ Leave(c, "failed") /\ partial' = Absent
  /\ UNCHANGED <<artifact, faults>>

Promote(c) ==
  /\ At(c, "promote")
  /\ artifact' = partial
  /\ partial' = Absent
  /\ Goto(c, "inspect")
  /\ UNCHANGED <<holders, faults>>

(* Its metadata is read, and the lock released.                            *)
Inspect(c) ==
  /\ At(c, "inspect")
  /\ Leave(c, "acquired")
  /\ UNCHANGED <<artifact, partial, faults>>

-----------------------------------------------------------------------------
(* downloadArtifact                                                        *)

Offset == IF partial.kind = "regular" THEN partial.length ELSE 0

(* The server answers a request for a range that starts at Offset with     *)
(* that range or with everything; one that misbehaves, with a range that   *)
(* ends earlier, or with the chunks of another file.                       *)
Respond(c, start, expected, genuine) ==
  call' = [call EXCEPT ![c] = [pc |-> "receive", start |-> start, expected |-> expected,
                               received |-> 0, genuine |-> genuine]]

Request(c) ==
  /\ At(c, "request")
  /\ \E genuine \in BOOLEAN :
       \/ /\ Offset > 0
          /\ \E expected \in 1 .. Length - Offset :
               /\ Respond(c, Offset, expected, genuine)
               /\ IF genuine /\ expected = Length - Offset THEN UNCHANGED faults ELSE Fault
          /\ UNCHANGED partial
       \/ /\ Respond(c, 0, Length, genuine)
          /\ IF genuine THEN UNCHANGED faults ELSE Fault
          /\ partial' = Empty
  /\ UNCHANGED <<artifact, holders>>

(* A chunk too many discards the download.                                 *)
Receive(c) ==
  /\ At(c, "receive")
  /\ \/ /\ call[c].received < call[c].expected
        /\ partial' = [partial EXCEPT !.length = @ + 1, !.genuine = @ /\ call[c].genuine]
        /\ call' = [call EXCEPT ![c].received = @ + 1]
        /\ UNCHANGED <<holders, faults>>
     \/ /\ Fault
        /\ call[c].received = call[c].expected
        /\ partial' = Absent
        /\ Leave(c, "failed")
  /\ UNCHANGED artifact

(* The response ends; if it is short, the download stays, to be resumed.   *)
Finish(c) ==
  /\ At(c, "receive") /\ call[c].received = call[c].expected
  /\ \/ /\ call[c].start + call[c].received = Length
        /\ Goto(c, "verify") /\ UNCHANGED holders
     \/ call[c].start + call[c].received # Length /\ Leave(c, "failed")
  /\ UNCHANGED <<artifact, partial, faults>>

-----------------------------------------------------------------------------
(* The environment                                                         *)

(* An operation fails, the caller is canceled, or it dies: at any point.   *)
Abort(c) ==
  /\ c \in holders
  /\ Fault
  /\ Leave(c, "failed")
  /\ UNCHANGED <<artifact, partial>>

(* The operator tries again.                                               *)
Retry(c) ==
  /\ At(c, "failed")
  /\ Goto(c, "start")
  /\ UNCHANGED <<artifact, partial, holders, faults>>

PowerLoss ==
  /\ Fault
  /\ artifact' \in Files
  /\ partial' \in Files
  /\ holders' = {}
  /\ call' = [c \in Callers |-> InitialCall]

Caller(c) ==
  \/ Enter(c) \/ CheckCached(c) \/ Quarantine(c) \/ CheckPartial(c)
  \/ Request(c) \/ Receive(c) \/ Finish(c) \/ Verify(c) \/ Promote(c) \/ Inspect(c)
  \/ Retry(c)

Next == PowerLoss \/ \E c \in Callers : Caller(c) \/ Abort(c)

Spec == Init /\ [][Next]_vars

(* Every operation ends, and whoever failed tries again.                   *)
FairSpec == Spec /\ \A c \in Callers : WF_vars(Caller(c))

-----------------------------------------------------------------------------
TypeOK ==
  /\ artifact \in Files
  /\ partial \in Files
  /\ holders \subseteq Callers
  /\ call \in [Callers -> Calls]
  /\ faults \in 0 .. MaxFaults

(* Who has been given the artifact by its path finds the whole artifact,   *)
(* and nobody replaces or removes it: the cache verifies it on each hit,   *)
(* and quarantines what it found corrupt, not what another process has     *)
(* promoted since.                                                         *)
AcquiredIsWhole == \A c \in Callers : call[c].pc \in {"inspect", "acquired"} => artifact = Whole

(* No step of the cache puts anything but the whole artifact at its path,  *)
(* or takes the whole artifact from it, whatever a server sent and         *)
(* wherever a previous download was interrupted (packages/cli/README.md).  *)
PublishesOnlyWhole ==
  [][faults' = faults =>
       /\ artifact' \in {artifact, Absent, Whole}
       /\ artifact = Whole => artifact' = Whole]_vars

(* Every caller that tries again acquires the artifact once the server and *)
(* the disk behave: no remains of a download prevent that for good.        *)
EventuallyAcquired == \A c \in Callers : <>At(c, "acquired")
=============================================================================
