--------------------------- MODULE AssemblyWriter ---------------------------
(***************************************************************************)
(* writeAssemblyAtomically: an assembly is written to a staging directory  *)
(* and renamed to the output; an assembly that was there is set aside in a *)
(* backup first, and removed when the new one is durable.                  *)
(*                                                                         *)
(* `possible` holds the contents of the parent directory that a loss of    *)
(* power may bring back.  A journal commits the changes of a directory in  *)
(* the order in which they were made, and a sync of it commits them all:   *)
(* so these are the contents since the last sync.                          *)
(***************************************************************************)
EXTENDS Integers, SequencesExt

CONSTANTS
  Writer,        (* the writers that share an output              *)
  MaxTroubles    (* bound: failing calls, deaths and power losses *)

ASSUME WriterAssumption == Writer \cap {"nobody", "before"} = {}

VARIABLES
  disk,       (* what the output, the staging directories and the backups hold *)
  possible,
  before,     (* the output as it was at first                                 *)
  replace,    (* the writer's option                                           *)
  at,         (* where the writer is, or how it ended                          *)
  seen,       (* outputState: whether the writer saw a directory               *)
  backed,     (* backupPath is defined                                         *)
  fine,       (* nothing was thrown so far                                     *)
  troubles

writerVars == <<disk, possible, before, replace, at, seen, backed, fine, troubles>>

Copy(of, state) == [of |-> of, state |-> state]
Absent == Copy("nobody", "absent")
Foreign == Copy("nobody", "foreign")
Old == Copy("before", "synced")

Ended == {"written", "exists", "failed", "dead"}
Running(w) == at[w] \notin Ended \cup {"idle"}

(* What is not synced may be lost in part with the power.                  *)
Settled(d) ==
  LET settle(copy) == IF copy.state = "written" THEN Copy(copy.of, "partial") ELSE copy
  IN [out |-> settle(d.out),
      staging |-> [w \in Writer |-> settle(d.staging[w])],
      backup |-> [w \in Writer |-> settle(d.backup[w])]]

WriterInit ==
  /\ before \in {Absent, Foreign, Old} /\ replace \in [Writer -> BOOLEAN]
  /\ disk = [out |-> before, staging |-> [w \in Writer |-> Absent],
             backup |-> [w \in Writer |-> Absent]]
  /\ possible = {disk}
  /\ at = [w \in Writer |-> "idle"] /\ seen = [w \in Writer |-> FALSE]
  /\ backed = [w \in Writer |-> FALSE] /\ fine = [w \in Writer |-> TRUE]
  /\ troubles \in 0..MaxTroubles     (* some of the bound may be spent *)

-----------------------------------------------------------------------------
At(w, here, next) == at[w] = here /\ at' = [at EXCEPT ![w] = next]

Change(new) == disk' = new /\ possible' = possible \cup {new}

Leave == UNCHANGED <<disk, possible>>

SyncParent == possible' = {disk} /\ UNCHANGED disk

Set(variable, w, value) == [variable EXCEPT ![w] = value]

Throws(w) == fine' = Set(fine, w, FALSE)

Constant == UNCHANGED <<before, replace, troubles>>

Begin(w) == At(w, "idle", "inspect") /\ Leave /\ Constant /\ UNCHANGED <<seen, backed, fine>>

InspectExistingOutput(w) ==
  /\ \/ disk.out = Absent /\ At(w, "inspect", "stage") /\ UNCHANGED seen
     \/ disk.out # Absent /\ ~replace[w] /\ At(w, "inspect", "exists") /\ UNCHANGED seen
     \/ /\ disk.out # Absent /\ replace[w] /\ At(w, "inspect", "recognize")
        /\ seen' = Set(seen, w, TRUE)
  /\ Leave /\ Constant /\ UNCHANGED <<backed, fine>>

(* The three documents of an assembly lie in the output.                   *)
AssertReplaceableAssembly(w) ==
  /\ IF disk.out \in {Absent, Foreign} THEN At(w, "recognize", "failed")
     ELSE At(w, "recognize", "stage")
  /\ Leave /\ Constant /\ UNCHANGED <<seen, backed, fine>>

MakeStaging(w) ==
  /\ At(w, "stage", "write") /\ Change([disk EXCEPT !.staging[w] = Copy(w, "partial")])
  /\ Constant /\ UNCHANGED <<seen, backed, fine>>

(* Paths are relative, normalized and written once.                        *)
AssertsPaths(paths) ==
  /\ IsInjective(paths)
  /\ \A i \in DOMAIN paths : paths[i] # <<>> /\ Range(paths[i]) \cap {"", ".", ".."} = {}

WriteStaging(w, paths) ==
  /\ \/ /\ AssertsPaths(paths) /\ At(w, "write", "sync") /\ UNCHANGED fine
        /\ Change([disk EXCEPT !.staging[w] = Copy(w, "written")])
     \/ ~AssertsPaths(paths) /\ At(w, "write", "clean") /\ Throws(w) /\ Leave
  /\ Constant /\ UNCHANGED <<seen, backed>>

(* Every directory of the staging area, the deepest first.                 *)
SyncStaging(w) ==
  /\ At(w, "sync", IF seen[w] THEN "set aside" ELSE "publish")
  /\ Change([disk EXCEPT !.staging[w] = Copy(w, "synced")])
  /\ Constant /\ UNCHANGED <<seen, backed, fine>>

SetAside(w) ==
  /\ backed' = Set(backed, w, TRUE)
  /\ \/ /\ disk.out # Absent /\ At(w, "set aside", "publish") /\ UNCHANGED fine
        /\ Change([disk EXCEPT !.out = Absent, !.backup[w] = disk.out])
     \/ disk.out = Absent /\ At(w, "set aside", "clean") /\ Throws(w) /\ Leave
  /\ Constant /\ UNCHANGED seen

Publish(w) ==
  /\ \/ /\ disk.out = Absent /\ At(w, "publish", "sync swap") /\ UNCHANGED fine
        /\ Change([disk EXCEPT !.out = disk.staging[w], !.staging[w] = Absent])
     \/ /\ disk.out # Absent /\ Throws(w) /\ Leave
        /\ At(w, "publish", IF seen[w] THEN "restore" ELSE "clean")
  /\ Constant /\ UNCHANGED <<seen, backed>>

(* What cannot be put back stays in its backup.                            *)
Restore(w) ==
  /\ At(w, "restore", "clean") /\ backed' = Set(backed, w, FALSE)
  /\ IF disk.out = Absent
     THEN Change([disk EXCEPT !.out = disk.backup[w], !.backup[w] = Absent])
     ELSE Leave
  /\ Constant /\ UNCHANGED <<seen, fine>>

(* Mutant: the backup goes before the new output is durable.               *)
SyncSwapSkipped(w) ==
  /\ At(w, "sync swap", IF backed[w] THEN "drop" ELSE "clean")
  /\ Leave /\ Constant /\ UNCHANGED <<seen, backed, fine>>

SyncSwap(w) ==
  /\ At(w, "sync swap", IF backed[w] THEN "drop" ELSE "clean") /\ SyncParent
  /\ Constant /\ UNCHANGED <<seen, backed, fine>>

(* A directory is removed file by file.                                    *)
Shrink(copy) == IF copy.state = "synced" THEN Copy(copy.of, "partial") ELSE Absent

DropBackup(w) ==
  LET left == Shrink(disk.backup[w]) IN
  /\ At(w, "drop", IF left = Absent THEN "sync drop" ELSE "drop")
  /\ Change([disk EXCEPT !.backup[w] = left])
  /\ backed' = Set(backed, w, left # Absent)
  /\ Constant /\ UNCHANGED <<seen, fine>>

SyncDrop(w) ==
  /\ At(w, "sync drop", "clean") /\ SyncParent
  /\ Constant /\ UNCHANGED <<seen, backed, fine>>

(* The finally block: the staging area, and a backup that is still owned.  *)
Clean(w) ==
  /\ \/ /\ disk.staging[w] # Absent /\ UNCHANGED <<at, backed>>
        /\ Change([disk EXCEPT !.staging[w] = Absent])
     \/ /\ disk.staging[w] = Absent /\ backed[w] /\ UNCHANGED at
        /\ Change([disk EXCEPT !.backup[w] = Shrink(@)])
        /\ backed' = Set(backed, w, Shrink(disk.backup[w]) # Absent)
     \/ /\ disk.staging[w] = Absent /\ ~backed[w] /\ Leave /\ UNCHANGED backed
        /\ at' = Set(at, w, IF fine[w] THEN "written" ELSE "failed")
  /\ at[w] = "clean" /\ Constant /\ UNCHANGED <<seen, fine>>

-----------------------------------------------------------------------------
(* A call fails.  Before the staging area is made nothing is cleaned, and  *)
(* a failure while cleaning ends the cleaning.                             *)
AfterFailure(w) ==
  CASE at[w] \in {"inspect", "recognize", "stage", "clean"} -> "failed"
    [] at[w] = "publish" /\ seen[w] -> "restore"
    [] OTHER -> "clean"

Failure(w) ==
  /\ Running(w) /\ troubles < MaxTroubles /\ troubles' = troubles + 1
  /\ at' = Set(at, w, AfterFailure(w)) /\ Throws(w) /\ Leave
  /\ backed' = Set(backed, w, backed[w] /\ at[w] # "restore")
  /\ UNCHANGED <<before, replace, seen>>

Die(w) ==
  /\ Running(w) /\ troubles < MaxTroubles /\ troubles' = troubles + 1
  /\ at' = Set(at, w, "dead") /\ Leave
  /\ UNCHANGED <<before, replace, seen, backed, fine>>

PowerFails ==
  /\ \E w \in Writer : Running(w)
  /\ troubles < MaxTroubles /\ troubles' = troubles + 1
  /\ \E durable \in possible : disk' = Settled(durable) /\ possible' = {Settled(durable)}
  /\ at' = [w \in Writer |-> IF Running(w) THEN "dead" ELSE at[w]]
  /\ UNCHANGED <<before, replace, seen, backed, fine>>

(* One step of a writer given the paths of its files.                      *)
Write(w, paths) ==
  \/ InspectExistingOutput(w) \/ AssertReplaceableAssembly(w) \/ MakeStaging(w)
  \/ WriteStaging(w, paths) \/ SyncStaging(w) \/ SetAside(w) \/ Publish(w)
  \/ Restore(w) \/ SyncSwap(w) \/ DropBackup(w) \/ SyncDrop(w) \/ Clean(w)
  \/ Failure(w) \/ Die(w)

-----------------------------------------------------------------------------
Holds(d) == d.out.state = "synced" \/ \E w \in Writer : d.backup[w].state = "synced"

(* Whatever fails, dies or loses power, and whoever else writes to the     *)
(* same output: the output is never a part of an assembly, a directory of  *)
(* somebody else is never touched, an assembly that was there, or whose    *)
(* command reported success, is only ever given up for another whole one,  *)
(* and no loss of power undoes a reported replacement, nor does the other  *)
(* of two writers; one of three may, and bring the old assembly back       *)
(* (writer.ts: writeAssemblyAtomically).                                   *)
AssemblyIsKept ==
  LET published == \E w \in Writer : at[w] = "written" IN
  \A d \in {Settled(e) : e \in possible \cup {disk}} :
    /\ d.out.state # "partial"
    /\ d.out = Foreign <=> before = Foreign
    /\ before = Old \/ published => Holds(d)
    /\ published => d.out # Old
=============================================================================
