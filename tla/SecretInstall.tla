---------------------------- MODULE SecretInstall ----------------------------
(***************************************************************************)
(* The user-secret installer                                               *)
(* (packages/runner/src/steps/install-user-secret): it copies a bootstrap  *)
(* secret into the account's home, verifies the copy, removes the source,  *)
(* and records in the checkpoint how far it came, so that an attempt       *)
(* interrupted anywhere can be resumed.                                    *)
(*                                                                         *)
(* Every directory entry is a pair: what a reader sees now, and what a     *)
(* power loss is sure to keep.  Syncing a directory makes the two equal    *)
(* for its entries; a power loss keeps either.  A directory's own sync     *)
(* does not keep its name in its parent (atomic-file.ts:154).              *)
(***************************************************************************)
EXTENDS Integers

CONSTANTS
  Secrets,          (* contents of bootstrap secrets                            *)
  Old,              (* contents a destination file may have had before          *)
  Nothing,          (* no contents: the entry does not exist                    *)
  Disturbances,     (* what may happen: among "kill", "power", "fault",
                       "replace"                                                *)
  MaxDisturbances   (* bound on disturbances, all together                      *)

ASSUME BoundAssumption == MaxDisturbances \in Nat
ASSUME ContentsAssumption == Old \notin Secrets /\ Nothing \notin Secrets \cup {Old}

VARIABLES
  phase,    (* the phase of the secret transaction in the checkpoint      *)
  source,   (* the bootstrap secret: an entry of its directory            *)
  parent,   (* the destination directory: an entry of the account's home  *)
  dest,     (* the destination file: an entry of the destination directory *)
  temps,    (* how many temporary files lie beside it                      *)
  held,     (* the source file as this attempt read it                    *)
  pc,       (* where the attempt is; "off" between attempts               *)
  budget    (* disturbances left                                          *)

vars == <<phase, source, parent, dest, temps, held, pc, budget>>
files == <<source, parent, dest, temps>>

Phases == {"none", "prepared", "installed", "source-removed", "committed"}
Absent == [contents |-> Nothing, inode |-> 0]
File == [contents : Secrets, inode : 0 .. MaxDisturbances]

Stable(value) == [seen |-> value, kept |-> value]
Change(entry, value) == [entry EXCEPT !.seen = value]
Sync(entry) == Stable(entry.seen)

Init ==
  /\ phase = "none"
  /\ \E contents \in Secrets : source = Stable([contents |-> contents, inode |-> 0])
  /\ \E exists \in BOOLEAN :
       /\ parent = Stable(exists)
       /\ \E contents \in {Nothing} \cup {Old : e \in {exists} \cap {TRUE}} :
            dest = Stable(contents)
  /\ temps = Stable(0)
  /\ held = Absent
  /\ pc = "off"
  /\ budget = MaxDisturbances

Disturb(kind) == kind \in Disturbances /\ budget > 0 /\ budget' = budget - 1
Goto(label) == pc' = label /\ UNCHANGED budget
Fail == pc' = "off" /\ UNCHANGED budget

(* The phase is recorded (module CheckpointStore); a write that fails may  *)
(* have taken effect.                                                      *)
Checkpoint(target, next) ==
  /\ \/ phase' = target /\ Goto(next)
     \/ phase' \in {phase, target} /\ Disturb("fault") /\ pc' = "off"
  /\ UNCHANGED <<files, held>>

DestinationIsPresent == parent.seen /\ dest.seen # Nothing

-----------------------------------------------------------------------------
(* An attempt: it resumes at the recorded phase.                           *)

Begin ==
  /\ pc = "off"
  /\ Goto(CASE phase = "none" -> "prepare"
            [] phase = "prepared" -> "directory"
            [] phase = "installed" -> "check"
            [] phase = "source-removed" -> "commit"
            [] phase = "committed" -> "final")
  /\ UNCHANGED <<phase, files, held>>

Prepare ==
  /\ pc = "prepare"
  /\ IF source.seen = Absent THEN Fail /\ UNCHANGED <<phase, files, held>>
     ELSE Checkpoint("prepared", "directory")

(* The destination directory is created, unless it exists.                 *)
MakeDirectory ==
  /\ pc = "directory"
  /\ held' = source.seen
  /\ IF source.seen = Absent THEN Fail /\ UNCHANGED parent
     ELSE /\ Goto(IF parent.seen THEN "open" ELSE "syncHome")
          /\ parent' = Change(parent, TRUE)
  /\ UNCHANGED <<phase, source, dest, temps>>

(* Mutant: the parent of a created directory is not synced.                *)
SkipSyncHome ==
  /\ pc = "syncHome"
  /\ Goto("open")
  /\ UNCHANGED <<phase, files, held>>

SyncHome ==
  /\ pc = "syncHome"
  /\ Goto("open")
  /\ parent' = Sync(parent)
  /\ UNCHANGED <<phase, source, dest, temps, held>>

SyncDestination == dest' = Sync(dest) /\ temps' = Sync(temps)

(* The directory is opened, given its owner and mode, and synced.          *)
OpenDirectory ==
  /\ pc = "open"
  /\ Goto("clean")
  /\ SyncDestination
  /\ UNCHANGED <<phase, source, parent, held>>

(* Mutant: temporary files of earlier attempts are left behind.            *)
SkipCleanupTemps ==
  /\ pc = "clean"
  /\ Goto("write")
  /\ UNCHANGED <<phase, files, held>>

(* Temporary files of earlier attempts are removed.                        *)
CleanupTemps ==
  /\ pc = "clean"
  /\ Goto(IF temps.seen > 0 THEN "cleaned" ELSE "write")
  /\ temps' = Change(temps, 0)
  /\ UNCHANGED <<phase, source, parent, dest, held>>

SyncCleanup ==
  /\ pc = "cleaned"
  /\ Goto("write")
  /\ SyncDestination
  /\ UNCHANGED <<phase, source, parent, held>>

(* The secret is written to a temporary file, synced and renamed.          *)
WriteTemp ==
  /\ pc = "write"
  /\ temps' = Change(temps, temps.seen + 1)
  /\ Goto("rename")
  /\ UNCHANGED <<phase, source, parent, dest, held>>

Rename ==
  /\ pc = "rename"
  /\ temps' = Change(temps, temps.seen - 1)
  /\ dest' = Change(dest, held.contents)
  /\ Goto("syncDestination")
  /\ UNCHANGED <<phase, source, parent, held>>

SyncRename ==
  /\ pc = "syncDestination"
  /\ SyncDestination
  /\ Goto("installed")
  /\ UNCHANGED <<phase, source, parent, held>>

RecordInstalled ==
  /\ pc = "installed"
  /\ IF DestinationIsPresent /\ dest.seen = held.contents
     THEN Checkpoint("installed", "check")
     ELSE Fail /\ UNCHANGED <<phase, files, held>>

(* Mutants: the contents are not compared; a source removed by an earlier  *)
(* attempt is an error.                                                    *)
CheckSourceExists ==
  /\ pc = "check"
  /\ held' = source.seen
  /\ IF DestinationIsPresent
     THEN Goto(IF source.seen = Absent THEN "removed" ELSE "unlink")
     ELSE Fail
  /\ UNCHANGED <<phase, files>>

CheckSourceRequired ==
  /\ pc = "check"
  /\ held' = source.seen
  /\ IF DestinationIsPresent /\ source.seen.contents = dest.seen THEN Goto("unlink") ELSE Fail
  /\ UNCHANGED <<phase, files>>

(* The source, if it is still there, must be what was installed.           *)
CheckSource ==
  /\ pc = "check"
  /\ held' = source.seen
  /\ IF DestinationIsPresent /\ source.seen.contents \in {Nothing, dest.seen}
     THEN Goto(IF source.seen = Absent THEN "removed" ELSE "unlink")
     ELSE Fail
  /\ UNCHANGED <<phase, files>>

RemoveSource ==
  /\ pc = "unlink"
  /\ IF source.seen = held
     THEN source' = Change(source, Absent) /\ Goto("syncSource")
     ELSE Fail /\ UNCHANGED source
  /\ UNCHANGED <<phase, parent, dest, temps, held>>

(* Mutant: the directory of the source is not synced.                      *)
SkipSyncSource ==
  /\ pc = "syncSource"
  /\ Goto("removed")
  /\ UNCHANGED <<phase, files, held>>

SyncSource ==
  /\ pc = "syncSource"
  /\ source' = Sync(source)
  /\ Goto("removed")
  /\ UNCHANGED <<phase, parent, dest, temps, held>>

RecordRemoved ==
  /\ pc = "removed"
  /\ Checkpoint("source-removed", "commit")

Settled == source.seen = Absent /\ DestinationIsPresent

Commit ==
  /\ pc = "commit"
  /\ IF Settled THEN Checkpoint("committed", "final")
     ELSE Fail /\ UNCHANGED <<phase, files, held>>

Final ==
  /\ pc = "final"
  /\ IF Settled THEN Goto("done") ELSE Fail
  /\ UNCHANGED <<phase, files, held>>

-----------------------------------------------------------------------------
(* The environment *)

(* An operation fails; before the rename, the temporary file is unlinked,  *)
(* which may fail too.                                                     *)
Fault ==
  /\ pc \notin {"off", "done"}
  /\ Disturb("fault")
  /\ pc' = "off"
  /\ temps' \in CASE pc = "write" -> {temps, Change(temps, temps.seen + 1)}
                 [] pc = "rename" -> {temps, Change(temps, temps.seen - 1)}
                 [] OTHER -> {temps}
  /\ UNCHANGED <<phase, source, parent, dest, held>>

(* The runner dies.                                                        *)
Kill ==
  /\ pc # "off"
  /\ Disturb("kill")
  /\ pc' = "off"
  /\ UNCHANGED <<phase, files, held>>

Outcomes(entry) == {Stable(entry.seen), Stable(entry.kept)}

PowerLoss ==
  /\ Disturb("power")
  /\ pc' = "off"
  /\ source' \in Outcomes(source)
  /\ parent' \in Outcomes(parent)
  /\ IF parent'.seen THEN dest' \in Outcomes(dest) /\ temps' \in Outcomes(temps)
     ELSE dest' = Stable(Nothing) /\ temps' = Stable(0)
  /\ UNCHANGED <<phase, held>>

(* Between attempts, a new secret is put in the place of the source.       *)
Replace ==
  /\ pc = "off"
  /\ Disturb("replace")
  /\ \E contents \in Secrets :
       source' = Stable([contents |-> contents, inode |-> MaxDisturbances - budget'])
  /\ UNCHANGED <<phase, parent, dest, temps, held, pc>>

Attempt ==
  \/ Begin \/ Prepare \/ MakeDirectory \/ SyncHome \/ OpenDirectory
  \/ CleanupTemps \/ SyncCleanup \/ WriteTemp \/ Rename \/ SyncRename
  \/ RecordInstalled \/ CheckSource \/ RemoveSource \/ SyncSource
  \/ RecordRemoved \/ Commit \/ Final

Next == Attempt \/ Fault \/ Kill \/ PowerLoss \/ Replace

Spec == Init /\ [][Next]_vars

-----------------------------------------------------------------------------
Entry(values) == [seen : values, kept : values]

TypeOK ==
  /\ phase \in Phases
  /\ source \in Entry(File \cup {Absent})
  /\ parent \in Entry(BOOLEAN)
  /\ dest \in Entry(Secrets \cup {Old, Nothing})
  /\ temps \in Entry(0 .. MaxDisturbances + 1)
  /\ held \in File \cup {Absent}
  /\ budget \in 0 .. MaxDisturbances

(* Whatever a power loss keeps, a copy of the secret is left: the source,  *)
(* or the destination with its whole path (installer.ts, the phases).      *)
SecretSurvivesPowerLoss ==
  \/ source.seen # Absent /\ source.kept # Absent
  \/ parent.kept /\ dest.kept \in Secrets

(* Once the transaction is committed, no power loss brings the source      *)
(* back.                                                                   *)
CommittedRemovalIsDurable == phase = "committed" => source.kept = Absent

(* A source file is only ever removed while the destination holds the very *)
(* same contents: a source replaced after the installation is left alone.  *)
RemovesOnlyInstalled ==
  [][source.seen # Absent /\ source'.seen = Absent => dest.seen = source.seen.contents]_vars

(* When the executor reports success, the installation is complete: a      *)
(* secret is in place, the source is gone, and no temporary file with      *)
(* secret contents is left behind by this or any earlier attempt.          *)
DoneMeansInstalled ==
  pc = "done" =>
    /\ phase = "committed"
    /\ source.seen = Absent
    /\ parent.seen /\ dest.seen \in Secrets
    /\ temps = Stable(0)
=============================================================================
