------------------------ MODULE SecretInstall_proofs ------------------------
(***************************************************************************)
(* What the user-secret installer does to the source, the destination and  *)
(* temporary files, what its success means and what a power loss leaves,   *)
(* for any set of secrets and any number of kills, power losses, failures  *)
(* and replaced sources.                                                   *)
(***************************************************************************)
EXTENDS MCSecretInstall, TLAPS

(* A source that is durably gone is gone: it is only put back durably.     *)
GoneIsSeenGone == source.kept = Absent => source.seen = Absent

(* An attempt about to unlink the source read it, and it was installed.    *)
UnlinksInstalled ==
  pc = "unlink" => held # Absent /\ held.contents = dest.seen

(* A temporary file is left behind by a disturbance, never by an attempt   *)
(* that goes on; the one being written is renamed by the attempt.          *)
TempsAreLeftOver ==
  /\ temps.kept <= MaxDisturbances - budget
  /\ pc # "rename" => temps.seen <= MaxDisturbances - budget
  /\ pc = "rename" => temps.seen \in 1 .. MaxDisturbances - budget + 1

(* What is renamed is a secret that was read.                              *)
HeldIsSecret == pc \in {"syncHome", "open", "clean", "cleaned", "write", "rename"} => held # Absent

Labels ==
  {"off", "prepare", "directory", "syncHome", "open", "clean", "cleaned", "write", "rename",
   "syncDestination", "installed", "check", "unlink", "syncSource", "removed", "commit",
   "final", "done"}

Entries ==
  /\ source \in Entry(File \cup {Absent})
  /\ parent \in Entry(BOOLEAN)
  /\ dest \in Entry(Secrets \cup {Old, Nothing})
  /\ temps \in Entry(Nat)
  /\ held \in File \cup {Absent}
  /\ phase \in Phases /\ pc \in Labels
  /\ budget \in 0 .. MaxDisturbances

InstallInvariant ==
  /\ Entries
  /\ GoneIsSeenGone
  /\ UnlinksInstalled
  /\ TempsAreLeftOver
  /\ HeldIsSecret

-----------------------------------------------------------------------------
(* Changing and syncing entries *)

LEMMA EntryFacts ==
  ASSUME NEW V, NEW e \in Entry(V), NEW v \in V
  PROVE  /\ Stable(v) \in Entry(V) /\ Stable(v).seen = v /\ Stable(v).kept = v
         /\ Change(e, v) \in Entry(V) /\ Change(e, v).seen = v /\ Change(e, v).kept = e.kept
         /\ Sync(e) \in Entry(V) /\ Sync(e).seen = e.seen /\ Sync(e).kept = e.seen
         /\ e.seen \in V /\ e.kept \in V
BY DEF Entry, Stable, Change, Sync

(* What the operators on entries do to each of the entries.                *)
LEMMA StableFacts ==
  \A value : Stable(value).seen = value /\ Stable(value).kept = value
BY DEF Stable

LEMMA TempsFacts ==
  ASSUME Entries, NEW n \in Nat
  PROVE  /\ Stable(n) \in Entry(Nat)
         /\ Change(temps, n) \in Entry(Nat)
         /\ Change(temps, n).seen = n /\ Change(temps, n).kept = temps.kept
         /\ Sync(temps) \in Entry(Nat)
         /\ Sync(temps).seen = temps.seen /\ Sync(temps).kept = temps.seen
BY EntryFacts DEF Entries

LEMMA BudgetFacts ==
  ASSUME Entries
  PROVE  /\ budget \in Nat /\ budget <= MaxDisturbances /\ MaxDisturbances \in Nat
         /\ \A kind : Disturb(kind) => budget' \in 0 .. MaxDisturbances /\ budget' = budget - 1
BY BoundAssumption DEF Entries, Disturb

LEMMA ValueFacts ==
  ASSUME Entries
  PROVE  /\ source.seen \in File \cup {Absent} /\ source.kept \in File \cup {Absent}
         /\ parent.seen \in BOOLEAN /\ parent.kept \in BOOLEAN
         /\ dest.seen \in Secrets \cup {Old, Nothing} /\ dest.kept \in Secrets \cup {Old, Nothing}
         /\ temps.seen \in Nat /\ temps.kept \in Nat
         /\ \A file \in File : file # Absent /\ file.contents \in Secrets /\ file.contents # Nothing
BY ContentsAssumption DEF Entries, Entry, File, Absent

LEMMA InvariantInit == Init => InstallInvariant
<1> SUFFICES ASSUME Init PROVE InstallInvariant
  OBVIOUS
<1>1. Entries
  BY BoundAssumption DEF Init, Entries, Entry, Stable, File, Absent, Phases, Labels
<1>2. temps.seen = 0 /\ temps.kept = 0 /\ source.kept = source.seen
  BY DEF Init, Stable
<1> QED
  BY <1>1, <1>2, BoundAssumption
  DEF Init, InstallInvariant, GoneIsSeenGone, UnlinksInstalled, TempsAreLeftOver, HeldIsSecret

-----------------------------------------------------------------------------
(* Steps that change no file: whatever budget they take, the attempt goes  *)
(* on only where it may.                                                   *)
LEMMA QuietPreserves ==
  ASSUME InstallInvariant, UNCHANGED <<source, dest, temps>>,
         parent' \in Entry(BOOLEAN), held' \in File \cup {Absent},
         phase' \in Phases, pc' \in Labels,
         budget' = budget \/ (budget' = budget - 1 /\ budget > 0),
         pc # "rename" \/ (pc' = "off" /\ budget' = budget - 1),
         pc' # "rename",
         pc' = "unlink" => held' # Absent /\ held'.contents = dest.seen,
         pc' \in {"syncHome", "open", "clean", "cleaned", "write"} => held' # Absent
  PROVE  InstallInvariant'
<1>1. Entries'
  BY BudgetFacts DEF InstallInvariant, Entries
<1>2. GoneIsSeenGone' /\ UnlinksInstalled' /\ HeldIsSecret'
  BY DEF InstallInvariant, GoneIsSeenGone, UnlinksInstalled, HeldIsSecret
<1>3. TempsAreLeftOver'
  BY BudgetFacts, ValueFacts DEF InstallInvariant, TempsAreLeftOver
<1> QED
  BY <1>1, <1>2, <1>3 DEF InstallInvariant

(* An attempt reads the checkpoint and the files, or records a phase.      *)
LEMMA ReadingPreserves ==
  ASSUME InstallInvariant,
         Begin \/ Prepare \/ RecordInstalled \/ CheckSource \/ RecordRemoved \/ Commit \/ Final
  PROVE  InstallInvariant'
<1>1. Entries
  BY DEF InstallInvariant
<1>2. CASE Begin \/ Final
  <2>1. /\ UNCHANGED <<phase, source, parent, dest, temps, held, budget>>
        /\ pc \in {"off", "final"}
        /\ pc' \in {"prepare", "directory", "check", "commit", "final", "done", "off"}
    BY <1>1, <1>2 DEF Begin, Final, Goto, Fail, files, Entries, Phases
  <2>2. /\ parent' \in Entry(BOOLEAN) /\ held' \in File \cup {Absent}
        /\ phase' \in Phases /\ pc' \in Labels /\ pc # "rename" /\ pc' # "rename"
        /\ pc' = "unlink" => held' # Absent /\ held'.contents = dest.seen
        /\ pc' \in {"syncHome", "open", "clean", "cleaned", "write"} => held' # Absent
    BY <1>1, <2>1 DEF Entries, Labels
  <2> QED
    BY <2>1, <2>2, QuietPreserves
<1>3. CASE Prepare \/ RecordInstalled \/ RecordRemoved \/ Commit
  <2>1. /\ UNCHANGED <<source, parent, dest, temps, held>>
        /\ phase' \in Phases
        /\ budget' = budget \/ (budget' = budget - 1 /\ budget > 0)
        /\ pc \in {"prepare", "installed", "removed", "commit"}
        /\ pc' \in {"directory", "check", "commit", "final", "off"}
        /\ pc' = "directory" => pc = "prepare"
    BY <1>1, <1>3
    DEF Prepare, RecordInstalled, RecordRemoved, Commit, Checkpoint, Disturb, Goto, Fail, files,
        Entries, Phases
  <2>2. /\ parent' \in Entry(BOOLEAN) /\ held' \in File \cup {Absent}
        /\ phase' \in Phases /\ pc' \in Labels /\ pc # "rename" /\ pc' # "rename"
        /\ pc' = "unlink" => held' # Absent /\ held'.contents = dest.seen
        /\ pc' \in {"syncHome", "open", "clean", "cleaned", "write"} => held' # Absent
    BY <1>1, <2>1 DEF Entries, Labels
  <2> QED
    BY <2>1, <2>2, QuietPreserves
<1>4. CASE CheckSource
  <2>1. /\ held' \in File \cup {Absent}
        /\ pc' = "unlink" => held' # Absent /\ held'.contents = dest.seen
    BY <1>1, <1>4, ValueFacts DEF CheckSource, Goto, Fail
  <2>2. /\ UNCHANGED <<phase, source, parent, dest, temps, budget>>
        /\ pc = "check" /\ pc' \in {"removed", "unlink", "off"}
    BY <1>4 DEF CheckSource, Goto, Fail, files
  <2>3. /\ parent' \in Entry(BOOLEAN) /\ held' \in File \cup {Absent}
        /\ phase' \in Phases /\ pc' \in Labels /\ pc # "rename" /\ pc' # "rename"
        /\ pc' = "unlink" => held' # Absent /\ held'.contents = dest.seen
        /\ pc' \in {"syncHome", "open", "clean", "cleaned", "write"} => held' # Absent
    BY <1>1, <2>1, <2>2 DEF Entries, Labels
  <2> QED
    BY <2>1, <2>2, <2>3, QuietPreserves
<1> QED
  BY <1>2, <1>3, <1>4

-----------------------------------------------------------------------------
(* Steps that change a directory                                           *)

LEMMA DirectoryPreserves ==
  ASSUME InstallInvariant, MakeDirectory \/ SyncHome
  PROVE  InstallInvariant'
<1>1. Entries
  BY DEF InstallInvariant
<1>2. Change(parent, TRUE) \in Entry(BOOLEAN) /\ Sync(parent) \in Entry(BOOLEAN)
  BY <1>1, EntryFacts DEF Entries
<1>3. parent' \in Entry(BOOLEAN)
  BY <1>1, <1>2 DEF MakeDirectory, SyncHome, Entries
<1>4. CASE MakeDirectory
  <2>1. /\ UNCHANGED <<phase, source, dest, temps, budget>>
        /\ held' \in File \cup {Absent}
        /\ pc = "directory" /\ pc' \in {"syncHome", "open", "off"}
        /\ pc' # "off" => held' # Absent
    BY <1>1, <1>4, ValueFacts DEF MakeDirectory, Goto, Fail
  <2>2. /\ parent' \in Entry(BOOLEAN) /\ held' \in File \cup {Absent}
        /\ phase' \in Phases /\ pc' \in Labels /\ pc # "rename" /\ pc' # "rename"
        /\ pc' = "unlink" => held' # Absent /\ held'.contents = dest.seen
        /\ pc' \in {"syncHome", "open", "clean", "cleaned", "write"} => held' # Absent
    BY <1>1, <1>3, <2>1 DEF Entries, Labels
  <2> QED
    BY <2>1, <2>2, QuietPreserves
<1>5. CASE SyncHome
  <2>1. /\ UNCHANGED <<phase, source, dest, temps, held, budget>>
        /\ pc = "syncHome" /\ pc' = "open" /\ held # Absent
    BY <1>5 DEF SyncHome, Goto, InstallInvariant, HeldIsSecret
  <2>2. /\ parent' \in Entry(BOOLEAN) /\ held' \in File \cup {Absent}
        /\ phase' \in Phases /\ pc' \in Labels /\ pc # "rename" /\ pc' # "rename"
        /\ pc' = "unlink" => held' # Absent /\ held'.contents = dest.seen
        /\ pc' \in {"syncHome", "open", "clean", "cleaned", "write"} => held' # Absent
    BY <1>1, <1>3, <2>1 DEF Entries, Labels
  <2> QED
    BY <2>1, <2>2, QuietPreserves
<1> QED
  BY <1>4, <1>5

LEMMA DestinationPreserves ==
  ASSUME InstallInvariant,
         OpenDirectory \/ CleanupTemps \/ SyncCleanup \/ WriteTemp \/ Rename \/ SyncRename
  PROVE  InstallInvariant'
<1>1. Entries
  BY DEF InstallInvariant
<1>2. /\ UNCHANGED <<phase, source, parent, held, budget>>
      /\ pc' \in Labels
      /\ pc \notin {"unlink", "syncHome"} /\ pc' \notin {"unlink", "syncHome"}
      /\ pc' = "rename" <=> pc = "write"
  BY DEF OpenDirectory, CleanupTemps, SyncCleanup, WriteTemp, Rename, SyncRename, Goto, Labels
<1>3. HeldIsSecret'
  BY <1>2 DEF OpenDirectory, CleanupTemps, SyncCleanup, WriteTemp, Rename, SyncRename, Goto,
     InstallInvariant, HeldIsSecret
<1>4. dest' \in Entry(Secrets \cup {Old, Nothing})
  <2>1. Sync(dest) \in Entry(Secrets \cup {Old, Nothing})
    BY <1>1, EntryFacts DEF Entries
  <2>2. pc = "rename" => Change(dest, held.contents) \in Entry(Secrets \cup {Old, Nothing})
    <3>1. pc = "rename" => held.contents \in Secrets \cup {Old, Nothing}
      BY <1>1, ValueFacts DEF Entries, InstallInvariant, HeldIsSecret
    <3> QED
      BY <1>1, <3>1, EntryFacts DEF Entries
  <2> QED
    BY <1>1, <2>1, <2>2
    DEF OpenDirectory, CleanupTemps, SyncCleanup, WriteTemp, Rename, SyncRename,
        SyncDestination, Entries
<1>5. temps' \in Entry(Nat) /\ TempsAreLeftOver'
  <2>1. CASE OpenDirectory \/ SyncCleanup \/ SyncRename
    <3>1. temps' = Sync(temps) /\ pc # "rename" /\ pc' # "rename"
      BY <2>1 DEF OpenDirectory, SyncCleanup, SyncRename, SyncDestination, Goto
    <3> QED
      BY <1>1, <1>2, <3>1, TempsFacts, ValueFacts, BudgetFacts
      DEF InstallInvariant, TempsAreLeftOver
  <2>2. CASE CleanupTemps
    <3>1. temps' = Change(temps, 0) /\ pc # "rename" /\ pc' # "rename"
      BY <2>2 DEF CleanupTemps, Goto
    <3> QED
      BY <1>1, <1>2, <3>1, TempsFacts, ValueFacts, BudgetFacts
      DEF InstallInvariant, TempsAreLeftOver
  <2>3. CASE WriteTemp
    <3>1. temps' = Change(temps, temps.seen + 1) /\ pc = "write" /\ pc' = "rename"
      BY <2>3 DEF WriteTemp, Goto
    <3> QED
      BY <1>1, <1>2, <3>1, TempsFacts, ValueFacts, BudgetFacts
      DEF InstallInvariant, TempsAreLeftOver
  <2>4. CASE Rename
    <3>1. temps' = Change(temps, temps.seen - 1) /\ pc = "rename" /\ pc' # "rename"
      BY <2>4 DEF Rename, Goto
    <3>2. temps.seen - 1 \in Nat
      BY <1>1, <3>1, ValueFacts, BudgetFacts DEF InstallInvariant, TempsAreLeftOver
    <3> QED
      BY <1>1, <1>2, <3>1, <3>2, TempsFacts, ValueFacts, BudgetFacts
      DEF InstallInvariant, TempsAreLeftOver
  <2> QED
    BY <2>1, <2>2, <2>3, <2>4
<1> QED
  BY <1>1, <1>2, <1>3, <1>4, <1>5
  DEF InstallInvariant, Entries, GoneIsSeenGone, UnlinksInstalled

-----------------------------------------------------------------------------
(* Steps that change the source                                            *)

LEMMA SourcePreserves ==
  ASSUME InstallInvariant, RemoveSource \/ SyncSource \/ Replace
  PROVE  InstallInvariant'
<1>1. Entries
  BY DEF InstallInvariant
<1>2. /\ UNCHANGED <<phase, parent, dest, temps, held>>
      /\ pc \in {"unlink", "syncSource", "off"}
      /\ pc' \in {"off", "syncSource", "removed"}
      /\ budget' = budget \/ (budget' = budget - 1 /\ budget > 0)
  <2>1. CASE RemoveSource
    BY <2>1 DEF RemoveSource, Goto, Fail
  <2>2. CASE SyncSource
    BY <2>2 DEF SyncSource, Goto
  <2>3. CASE Replace
    BY <2>3 DEF Replace, Disturb
  <2> QED
    BY <2>1, <2>2, <2>3
<1>3. source' \in Entry(File \cup {Absent}) /\ GoneIsSeenGone'
  <2>1. CASE RemoveSource
    <3>1. Change(source, Absent) \in Entry(File \cup {Absent}) /\ Change(source, Absent).seen = Absent
      <4>1. source \in Entry(File \cup {Absent}) /\ Absent \in File \cup {Absent}
        BY <1>1 DEF Entries
      <4> QED
        BY <4>1, EntryFacts
    <3>2. source' = source \/ source' = Change(source, Absent)
      BY <2>1 DEF RemoveSource
    <3>3. source \in Entry(File \cup {Absent})
      BY <1>1 DEF Entries
    <3> QED
      BY <3>1, <3>2, <3>3 DEF InstallInvariant, GoneIsSeenGone
  <2>2. CASE SyncSource
    <3>1. Sync(source) \in Entry(File \cup {Absent}) /\ Sync(source).seen = Sync(source).kept
      BY <1>1, EntryFacts DEF Entries
    <3> QED
      BY <2>2, <3>1 DEF SyncSource, GoneIsSeenGone
  <2>3. CASE Replace
    <3>1. PICK contents \in Secrets :
            source' = Stable([contents |-> contents, inode |-> MaxDisturbances - budget'])
      BY <2>3 DEF Replace
    <3>2. [contents |-> contents, inode |-> MaxDisturbances - budget'] \in File
      BY <1>1, <2>3, BudgetFacts DEF File, Replace
    <3> QED
      BY <1>1, <3>1, <3>2 DEF Stable, Entry, GoneIsSeenGone
  <2> QED
    BY <2>1, <2>2, <2>3
<1>4. Entries' /\ TempsAreLeftOver'
  BY <1>1, <1>2, <1>3, BudgetFacts, ValueFacts
  DEF Entries, InstallInvariant, TempsAreLeftOver, Labels
<1> QED
  BY <1>2, <1>3, <1>4 DEF InstallInvariant, UnlinksInstalled, HeldIsSecret

-----------------------------------------------------------------------------
(* The environment                                                         *)

LEMMA FaultPreserves ==
  ASSUME InstallInvariant, Fault
  PROVE  InstallInvariant'
<1>1. Entries
  BY DEF InstallInvariant
<1>2. /\ UNCHANGED <<phase, source, parent, dest, held>>
      /\ pc' = "off" /\ budget' = budget - 1 /\ budget > 0
  BY DEF Fault, Disturb
<1>3. \/ temps' = temps
      \/ pc = "write" /\ temps' = Change(temps, temps.seen + 1)
      \/ pc = "rename" /\ temps' = Change(temps, temps.seen - 1)
  BY DEF Fault
<1>4. pc = "rename" => temps.seen - 1 \in Nat
  BY <1>1, ValueFacts, BudgetFacts DEF InstallInvariant, TempsAreLeftOver
<1>5. temps' \in Entry(Nat) /\ TempsAreLeftOver'
  <2>1. CASE temps' = temps
    BY <1>1, <1>2, <2>1, ValueFacts, BudgetFacts DEF Entries, InstallInvariant, TempsAreLeftOver
  <2>2. CASE pc = "write" /\ temps' = Change(temps, temps.seen + 1)
    BY <1>1, <1>2, <2>2, TempsFacts, ValueFacts, BudgetFacts DEF InstallInvariant, TempsAreLeftOver
  <2>3. CASE pc = "rename" /\ temps' = Change(temps, temps.seen - 1)
    BY <1>1, <1>2, <1>4, <2>3, TempsFacts, ValueFacts, BudgetFacts
    DEF InstallInvariant, TempsAreLeftOver
  <2> QED
    BY <1>3, <2>1, <2>2, <2>3
<1> QED
  BY <1>1, <1>2, <1>5, BudgetFacts
  DEF InstallInvariant, Entries, GoneIsSeenGone, UnlinksInstalled, HeldIsSecret, Labels

LEMMA KillPreserves ==
  ASSUME InstallInvariant, Kill
  PROVE  InstallInvariant'
BY QuietPreserves DEF Kill, Disturb, files, InstallInvariant, Entries, Labels

LEMMA PowerLossPreserves ==
  ASSUME InstallInvariant, PowerLoss
  PROVE  InstallInvariant'
<1>1. Entries
  BY DEF InstallInvariant
<1>2. UNCHANGED <<phase, held>> /\ pc' = "off" /\ budget' = budget - 1 /\ budget > 0
  BY DEF PowerLoss, Disturb
<1>3. source' \in Entry(File \cup {Absent}) /\ GoneIsSeenGone'
  <2>1. PICK file \in File \cup {Absent} : source' = Stable(file)
    BY <1>1, ValueFacts DEF PowerLoss, Outcomes
  <2>2. Stable(file) \in Entry(File \cup {Absent})
    BY DEF Stable, Entry
  <2> QED
    BY <2>1, <2>2, StableFacts DEF GoneIsSeenGone
<1>4. parent' \in Entry(BOOLEAN) /\ dest' \in Entry(Secrets \cup {Old, Nothing})
  BY <1>1, ValueFacts DEF PowerLoss, Outcomes, Stable, Entry
<1>5. temps' \in Entry(Nat) /\ TempsAreLeftOver'
  <2>1. temps' \in {Stable(temps.seen), Stable(temps.kept), Stable(0)}
    BY DEF PowerLoss, Outcomes
  <2> QED
    BY <1>1, <1>2, <2>1, ValueFacts, TempsFacts, StableFacts, BudgetFacts
    DEF InstallInvariant, TempsAreLeftOver
<1> QED
  BY <1>1, <1>2, <1>3, <1>4, <1>5, BudgetFacts
  DEF InstallInvariant, Entries, UnlinksInstalled, HeldIsSecret, Labels

LEMMA NextPreserves == InstallInvariant /\ [Next]_vars => InstallInvariant'
<1> SUFFICES ASSUME InstallInvariant, [Next]_vars PROVE InstallInvariant'
  OBVIOUS
<1>1. CASE Attempt
  BY <1>1, ReadingPreserves, DirectoryPreserves, DestinationPreserves, SourcePreserves DEF Attempt
<1>2. CASE Fault \/ Kill \/ PowerLoss \/ Replace
  BY <1>2, FaultPreserves, KillPreserves, PowerLossPreserves, SourcePreserves
<1>3. CASE UNCHANGED vars
  BY <1>3
  DEF vars, InstallInvariant, Entries, GoneIsSeenGone, UnlinksInstalled, TempsAreLeftOver,
      HeldIsSecret
<1> QED
  BY <1>1, <1>2, <1>3 DEF Next

THEOREM InstallInvariance == Spec => []InstallInvariant
BY InvariantInit, NextPreserves, PTL DEF Spec

(* Every entry has its type; no more temporary files pile up than there    *)
(* were disturbances.                                                      *)
THEOREM TypeCorrectness == Spec => []TypeOK
<1>1. InstallInvariant => TypeOK
  <2> SUFFICES ASSUME InstallInvariant PROVE TypeOK
    OBVIOUS
  <2>1. Entries
    BY DEF InstallInvariant
  <2>2. temps.seen \in 0 .. MaxDisturbances + 1 /\ temps.kept \in 0 .. MaxDisturbances + 1
    BY <2>1, ValueFacts, BudgetFacts DEF InstallInvariant, TempsAreLeftOver
  <2>3. temps \in Entry(0 .. MaxDisturbances + 1)
    BY <2>1, <2>2 DEF Entries, Entry
  <2> QED
    BY <2>1, <2>3 DEF TypeOK, Entries
<1> QED
  BY InstallInvariance, <1>1, PTL

(* No attempt, and no power loss, makes a source disappear whose contents  *)
(* are not in the destination.                                             *)
THEOREM RemovalIsSafe == Spec => RemovesOnlyInstalled
<1> DEFINE Removal == source.seen # Absent /\ source'.seen = Absent
                        => dest.seen = source.seen.contents
<1>1. InstallInvariant /\ [Next]_vars => [Removal]_vars
  <2> SUFFICES ASSUME InstallInvariant, Next, source.seen # Absent, source'.seen = Absent
               PROVE  dest.seen = source.seen.contents
    OBVIOUS
  <2>1. Entries
    BY DEF InstallInvariant
  <2>2. CASE RemoveSource
    BY <2>2 DEF RemoveSource, InstallInvariant, UnlinksInstalled
  <2>3. CASE SyncSource
    BY <2>3 DEF SyncSource, Sync, Stable
  <2>4. CASE PowerLoss
    BY <2>4 DEF PowerLoss, Outcomes, Stable, InstallInvariant, GoneIsSeenGone
  <2>5. CASE Replace
    BY <2>5, <2>1, ContentsAssumption DEF Replace, Stable, Absent
  <2>6. CASE UNCHANGED source
    BY <2>6
  <2> QED
    BY <2>2, <2>3, <2>4, <2>5, <2>6
    DEF Next, Attempt, Begin, Prepare, MakeDirectory, SyncHome, OpenDirectory, CleanupTemps,
        SyncCleanup, WriteTemp, Rename, SyncRename, RecordInstalled, CheckSource, RecordRemoved,
        Commit, Final, Fault, Kill, Checkpoint, files
<1> QED
  BY <1>1, InstallInvariance, PTL DEF Spec, RemovesOnlyInstalled

-----------------------------------------------------------------------------
(* What a success rests on                                                 *)

Recorded == {"installed", "source-removed", "committed"}

(* Which recorded phase an attempt is in at each of its steps.             *)
PhaseIsRecorded ==
  /\ pc = "prepare" => phase = "none"
  /\ pc \in {"directory", "syncHome", "open", "clean", "cleaned", "write", "rename",
             "syncDestination", "installed"} => phase = "prepared"
  /\ pc \in {"check", "unlink", "syncSource", "removed"} => phase = "installed"
  /\ pc = "commit" => phase = "source-removed"
  /\ pc \in {"final", "done"} => phase = "committed"

NoTemps == temps.seen = 0 /\ temps.kept = 0

(* The destination directory was cleaned, durably, before the attempt      *)
(* wrote to it; its own temporary file becomes the destination.            *)
CleansUp ==
  /\ pc = "clean" => temps.seen = temps.kept
  /\ pc = "cleaned" => temps.seen = 0
  /\ pc = "rename" => temps.seen = 1 /\ temps.kept = 0
  /\ pc \in {"write", "syncDestination", "installed"} => NoTemps
  /\ phase \in Recorded => NoTemps

(* What is installed is a secret; a power loss may undo the directory, and *)
(* never brings back what was there before.                                *)
InstallsSecret ==
  /\ pc \in {"syncDestination", "installed"} => dest.seen \in Secrets
  /\ pc = "installed" => dest.kept \in Secrets
  /\ phase \in Recorded => /\ dest.seen \in Secrets \cup {Nothing}
                           /\ dest.kept \in Secrets \cup {Nothing}

SuccessInvariant ==
  /\ PhaseIsRecorded
  /\ CleansUp
  /\ InstallsSecret
  /\ pc = "done" => Settled

(* A step that leaves the destination directory alone.                     *)
LEMMA ElsewhereKeepsSuccess ==
  ASSUME InstallInvariant, SuccessInvariant,
         \/ Begin \/ Prepare \/ RecordInstalled \/ CheckSource \/ RecordRemoved \/ Commit \/ Final
         \/ MakeDirectory \/ SyncHome \/ RemoveSource \/ SyncSource \/ Kill \/ Replace
  PROVE  SuccessInvariant'
<1>1. UNCHANGED <<dest, temps>> \/ Kill
  BY DEF Begin, Prepare, RecordInstalled, CheckSource, RecordRemoved, Commit, Final, MakeDirectory,
     SyncHome, RemoveSource, SyncSource, Replace, Checkpoint, files
<1>2. UNCHANGED <<dest, temps>>
  BY <1>1 DEF Kill, files
<1>3. phase \in Phases
  BY DEF InstallInvariant, Entries
<1>4. CASE Begin \/ Final
  <2>1. PhaseIsRecorded' /\ phase' = phase /\ (pc' = "done" => Settled')
    BY <1>3, <1>4 DEF Begin, Final, Goto, Fail, files, Phases, SuccessInvariant, PhaseIsRecorded,
       Settled, DestinationIsPresent
  <2>2. pc' \in {"prepare", "directory", "check", "commit", "final", "done", "off"}
    BY <1>3, <1>4 DEF Begin, Final, Goto, Fail, Phases
  <2> QED BY <1>2, <2>1, <2>2 DEF SuccessInvariant, CleansUp, InstallsSecret, NoTemps
<1>5. CASE Prepare \/ RecordRemoved \/ Commit
  <2>1. PhaseIsRecorded' /\ pc' \in {"directory", "commit", "final", "off"}
    BY <1>5 DEF Prepare, RecordRemoved, Commit, Checkpoint, Goto, Fail, files, Disturb,
       SuccessInvariant, PhaseIsRecorded
  <2>2. phase' \in Recorded => phase \in Recorded
    BY <1>5 DEF Prepare, RecordRemoved, Commit, Checkpoint, Goto, Fail, files, Disturb, Recorded,
       SuccessInvariant, PhaseIsRecorded
  <2> QED BY <1>2, <2>1, <2>2 DEF SuccessInvariant, CleansUp, InstallsSecret, NoTemps
<1>6. CASE RecordInstalled
  <2>1. PhaseIsRecorded' /\ pc' \in {"check", "off"} /\ pc = "installed"
    BY <1>6 DEF RecordInstalled, Checkpoint, Goto, Fail, files, Disturb, SuccessInvariant,
       PhaseIsRecorded
  <2> QED BY <1>2, <2>1 DEF SuccessInvariant, CleansUp, InstallsSecret, NoTemps
<1>7. CASE CheckSource \/ MakeDirectory \/ SyncHome \/ RemoveSource \/ SyncSource \/ Kill \/ Replace
  <2>1. phase' = phase /\ PhaseIsRecorded'
        /\ pc' \in {"off", "removed", "unlink", "syncHome", "open", "syncSource"}
    BY <1>7 DEF CheckSource, MakeDirectory, SyncHome, RemoveSource, SyncSource, Kill, Replace,
       Goto, Fail, files, SuccessInvariant, PhaseIsRecorded
  <2> QED BY <1>2, <2>1 DEF SuccessInvariant, CleansUp, InstallsSecret, NoTemps
<1> QED BY <1>4, <1>5, <1>6, <1>7

LEMMA DestinationKeepsSuccess ==
  ASSUME InstallInvariant, SuccessInvariant,
         OpenDirectory \/ CleanupTemps \/ SyncCleanup \/ WriteTemp \/ Rename \/ SyncRename
  PROVE  SuccessInvariant'
<1>1. Entries /\ dest \in Entry(Secrets \cup {Old, Nothing}) /\ temps \in Entry(Nat)
  BY DEF InstallInvariant, Entries
<1>2. /\ phase' = phase /\ phase = "prepared" /\ PhaseIsRecorded'
      /\ pc' \in {"clean", "cleaned", "write", "rename", "syncDestination", "installed"}
  BY DEF OpenDirectory, CleanupTemps, SyncCleanup, WriteTemp, Rename, SyncRename, Goto,
     SuccessInvariant, PhaseIsRecorded
<1>3. CleansUp'
  <2>1. CASE OpenDirectory \/ SyncCleanup \/ SyncRename
    <3>1. temps'.seen = temps.seen /\ temps'.kept = temps.seen
      BY <1>1, <2>1, TempsFacts DEF OpenDirectory, SyncCleanup, SyncRename, SyncDestination
    <3>2. \/ pc' = "clean"
          \/ pc = "cleaned" /\ pc' = "write"
          \/ pc = "syncDestination" /\ pc' = "installed"
      BY <2>1 DEF OpenDirectory, SyncCleanup, SyncRename, Goto
    <3> QED BY <1>2, <3>1, <3>2 DEF SuccessInvariant, CleansUp, NoTemps, Recorded
  <2>2. CASE CleanupTemps
    <3>1. /\ temps'.seen = 0 /\ temps'.kept = temps.kept
          /\ pc = "clean" /\ pc' = IF temps.seen > 0 THEN "cleaned" ELSE "write"
      BY <1>1, <2>2, TempsFacts DEF CleanupTemps, Goto
    <3> QED BY <1>1, <1>2, <3>1, ValueFacts DEF SuccessInvariant, CleansUp, NoTemps, Recorded
  <2>3. CASE WriteTemp
    <3>1. temps'.seen = temps.seen + 1 /\ temps'.kept = temps.kept /\ pc = "write" /\ pc' = "rename"
      BY <1>1, <2>3, TempsFacts, ValueFacts DEF WriteTemp, Goto
    <3> QED BY <1>2, <3>1 DEF SuccessInvariant, CleansUp, NoTemps, Recorded
  <2>4. CASE Rename
    <3>1. temps.seen = 1 /\ temps.kept = 0 /\ pc' = "syncDestination"
      BY <2>4 DEF SuccessInvariant, CleansUp, Rename, Goto
    <3>2. temps' = Change(temps, 0)
      BY <2>4, <3>1 DEF Rename
    <3> QED BY <1>1, <1>2, <3>1, <3>2, TempsFacts DEF CleansUp, NoTemps, Recorded
  <2> QED BY <2>1, <2>2, <2>3, <2>4
<1>4. InstallsSecret'
  <2>1. CASE OpenDirectory \/ CleanupTemps \/ SyncCleanup \/ WriteTemp
    <3>1. pc' \notin {"syncDestination", "installed"}
      BY <2>1 DEF OpenDirectory, CleanupTemps, SyncCleanup, WriteTemp, Goto
    <3> QED BY <1>2, <3>1 DEF InstallsSecret, Recorded
  <2>2. CASE Rename
    <3>1. held.contents \in Secrets /\ pc' = "syncDestination"
      BY <1>1, <2>2, ValueFacts DEF Rename, Goto, InstallInvariant, HeldIsSecret, Entries
    <3>2. dest' = Change(dest, held.contents) /\ held.contents \in Secrets \cup {Old, Nothing}
      BY <2>2, <3>1 DEF Rename
    <3>3. dest'.seen = held.contents
      BY <1>1, <3>2 DEF Entry, Change
    <3> QED BY <1>2, <3>1, <3>3 DEF InstallsSecret, Recorded
  <2>3. CASE SyncRename
    <3>1. dest.seen \in Secrets /\ pc' = "installed"
      BY <2>3 DEF SyncRename, Goto, SuccessInvariant, InstallsSecret
    <3>2. dest'.seen = dest.seen /\ dest'.kept = dest.seen
      BY <2>3 DEF SyncRename, SyncDestination, Sync, Stable
    <3> QED BY <1>2, <3>1, <3>2 DEF InstallsSecret, Recorded
  <2> QED BY <2>1, <2>2, <2>3
<1> QED BY <1>2, <1>3, <1>4 DEF SuccessInvariant

LEMMA DisturbancesKeepSuccess ==
  ASSUME InstallInvariant, SuccessInvariant, Fault \/ PowerLoss
  PROVE  SuccessInvariant'
<1>1. phase' = phase /\ pc' = "off" /\ PhaseIsRecorded'
  BY DEF Fault, PowerLoss, PhaseIsRecorded
<1>2. phase \in Recorded => NoTemps'
  <2>1. CASE Fault
    BY <2>1 DEF Fault, SuccessInvariant, CleansUp, PhaseIsRecorded, Recorded, NoTemps
  <2>2. CASE PowerLoss
    BY <2>2 DEF PowerLoss, Outcomes, Stable, SuccessInvariant, CleansUp, NoTemps
  <2> QED BY <2>1, <2>2
<1>3. phase \in Recorded => dest'.seen \in Secrets \cup {Nothing} /\ dest'.kept \in Secrets \cup {Nothing}
  BY DEF Fault, PowerLoss, Outcomes, Stable, SuccessInvariant, InstallsSecret
<1> QED BY <1>1, <1>2, <1>3 DEF SuccessInvariant, CleansUp, InstallsSecret

LEMMA SuccessInit == Init => SuccessInvariant
BY DEF Init, SuccessInvariant, PhaseIsRecorded, CleansUp, InstallsSecret, Recorded

LEMMA SuccessStep == InstallInvariant /\ SuccessInvariant /\ [Next]_vars => SuccessInvariant'
<1> SUFFICES ASSUME InstallInvariant, SuccessInvariant, [Next]_vars PROVE SuccessInvariant'
  OBVIOUS
<1>1. CASE UNCHANGED vars
  BY <1>1 DEF vars, SuccessInvariant, PhaseIsRecorded, CleansUp, InstallsSecret, NoTemps, Settled,
     DestinationIsPresent
<1> QED BY <1>1, ElsewhereKeepsSuccess, DestinationKeepsSuccess, DisturbancesKeepSuccess
        DEF Next, Attempt

(* What an attempt has done by the time it is at each of its steps, and    *)
(* what the recorded phase says of the files.                              *)
THEOREM SuccessInvariance == Spec => [](InstallInvariant /\ SuccessInvariant)
BY SuccessInit, SuccessStep, InstallInvariance, PTL DEF Spec

(* An attempt that reports success has committed: a secret is in place,    *)
(* the source is gone, and no temporary file with secret contents is left  *)
(* by this or any earlier attempt, whatever cut those short                *)
(* (installer.ts: execute, destination-store.ts: #cleanupTemps).           *)
THEOREM SuccessIsInstalled == Spec => []DoneMeansInstalled
<1>1. InstallInvariant /\ SuccessInvariant => DoneMeansInstalled
  <2> SUFFICES ASSUME InstallInvariant, SuccessInvariant, pc = "done"
               PROVE  /\ phase = "committed" /\ source.seen = Absent
                      /\ parent.seen /\ dest.seen \in Secrets /\ temps = Stable(0)
    BY DEF DoneMeansInstalled
  <2>1. phase = "committed" /\ Settled
    BY DEF SuccessInvariant, PhaseIsRecorded
  <2>2. temps = Stable(0)
    <3>1. temps.seen = 0 /\ temps.kept = 0 /\ temps \in Entry(Nat)
      BY <2>1 DEF SuccessInvariant, CleansUp, NoTemps, Recorded, InstallInvariant, Entries
    <3> QED BY <3>1 DEF Entry, Stable
  <2> QED BY <2>1, <2>2 DEF SuccessInvariant, InstallsSecret, Recorded, Settled, DestinationIsPresent
<1> QED BY <1>1, SuccessInvariance, PTL

-----------------------------------------------------------------------------
(* What a power loss keeps                                                 *)

(* As long as no attempt was cut short: nothing is unsynced but what the   *)
(* next step syncs; the source is there until its copy is durable, and     *)
(* gone when its removal was recorded, unless it was replaced.             *)
PowerLossIsHarmless ==
  /\ pc # "syncHome" => parent.seen = parent.kept
  /\ pc \in {"syncHome", "open", "clean", "cleaned", "write", "rename", "syncDestination",
             "installed"} => parent.seen
  /\ pc # "syncSource" => source.seen = source.kept
  /\ phase \notin Recorded => source.seen # Absent
  /\ phase \in Recorded => parent.seen /\ dest.seen \in Secrets /\ dest.kept \in Secrets
  /\ pc = "syncSource" => source.seen = Absent
  /\ pc = "removed" \/ phase \in {"source-removed", "committed"} =>
       replaced \/ source.seen = Absent

HistoryInvariant ==
  /\ InstallInvariant
  /\ SuccessInvariant
  /\ ~interrupted => PowerLossIsHarmless

LEMMA HarmlessAttempt ==
  ASSUME InstallInvariant, SuccessInvariant, PowerLossIsHarmless, Attempt, budget' = budget,
         replaced' = replaced
  PROVE  PowerLossIsHarmless'
<1>1. /\ Entries /\ phase \in Phases
      /\ source \in Entry(File \cup {Absent}) /\ parent \in Entry(BOOLEAN)
      /\ PhaseIsRecorded
      /\ budget \in Int /\ budget - 1 # budget
  BY BudgetFacts DEF InstallInvariant, Entries, SuccessInvariant
<1>2. CASE Begin \/ Final
  <2>1. /\ UNCHANGED <<phase, source, parent, dest>>
        /\ pc \notin {"syncHome", "syncSource"}
        /\ pc' \in {"prepare", "directory", "check", "commit", "final", "done", "off"}
    BY <1>1, <1>2 DEF Begin, Final, Goto, Fail, files, Phases
  <2> QED BY <2>1 DEF PowerLossIsHarmless
<1>3. CASE Prepare
  <2>1. /\ UNCHANGED <<source, parent, dest>> /\ pc = "prepare" /\ phase = "none"
        /\ phase' \in {"none", "prepared"} /\ pc' \in {"directory", "off"}
    BY <1>1, <1>3 DEF Prepare, Checkpoint, Goto, Fail, files, PhaseIsRecorded
  <2> QED BY <2>1 DEF PowerLossIsHarmless, Recorded
<1>4. CASE MakeDirectory
  <2>1. /\ UNCHANGED <<phase, source, dest>> /\ pc = "directory"
        /\ \/ pc' = "off" /\ parent' = parent
           \/ pc' = "open" /\ parent' = Change(parent, TRUE) /\ parent.seen
           \/ pc' = "syncHome" /\ parent' = Change(parent, TRUE)
    BY <1>4 DEF MakeDirectory, Goto, Fail
  <2>2. Change(parent, TRUE).seen = TRUE /\ Change(parent, TRUE).kept = parent.kept
    BY <1>1, EntryFacts
  <2>3. phase = "prepared"
    BY <1>1, <2>1 DEF PhaseIsRecorded
  <2> QED BY <1>1, <2>1, <2>2, <2>3, ValueFacts DEF PowerLossIsHarmless, Recorded
<1>5. CASE SyncHome
  <2>1. /\ UNCHANGED <<phase, source, dest>> /\ pc = "syncHome" /\ pc' = "open"
        /\ parent'.seen = parent.seen /\ parent'.kept = parent.seen
    BY <1>5 DEF SyncHome, Goto, Sync, Stable
  <2> QED BY <1>1, <2>1 DEF PowerLossIsHarmless, PhaseIsRecorded, Recorded
<1>6. CASE OpenDirectory \/ CleanupTemps \/ SyncCleanup \/ WriteTemp \/ Rename \/ SyncRename
  <2>1. /\ UNCHANGED <<phase, source, parent>>
        /\ pc \in {"open", "clean", "cleaned", "write", "rename", "syncDestination"}
        /\ pc' \in {"clean", "cleaned", "write", "rename", "syncDestination", "installed"}
    BY <1>6 DEF OpenDirectory, CleanupTemps, SyncCleanup, WriteTemp, Rename, SyncRename, Goto
  <2> QED BY <1>1, <2>1 DEF PowerLossIsHarmless, PhaseIsRecorded, Recorded
<1>7. CASE RecordInstalled
  <2>1. /\ UNCHANGED <<source, parent, dest>> /\ pc = "installed"
        /\ pc' \in {"check", "off"} /\ phase' \in {phase, "installed"} /\ phase = "prepared"
    BY <1>1, <1>7 DEF RecordInstalled, Checkpoint, Goto, Fail, files, PhaseIsRecorded
  <2>2. parent.seen /\ dest.seen \in Secrets /\ dest.kept \in Secrets
    BY <2>1 DEF PowerLossIsHarmless, SuccessInvariant, InstallsSecret
  <2> QED BY <2>1, <2>2 DEF PowerLossIsHarmless, Recorded
<1>8. CASE CheckSource
  <2>1. /\ UNCHANGED <<phase, source, parent, dest>> /\ pc = "check" /\ phase = "installed"
        /\ pc' \in {"off", "unlink"} \/ (pc' = "removed" /\ source.seen = Absent)
    BY <1>1, <1>8 DEF CheckSource, Goto, Fail, files, PhaseIsRecorded
  <2> QED BY <2>1 DEF PowerLossIsHarmless, Recorded
<1>9. CASE RemoveSource
  <2>1. /\ UNCHANGED <<phase, parent, dest>> /\ pc = "unlink" /\ phase = "installed"
        /\ \/ pc' = "off" /\ source' = source
           \/ pc' = "syncSource" /\ source' = Change(source, Absent)
    BY <1>1, <1>9 DEF RemoveSource, Goto, Fail, PhaseIsRecorded
  <2>2. Change(source, Absent).seen = Absent
    BY <1>1 DEF Entry, Change
  <2> QED BY <2>1, <2>2 DEF PowerLossIsHarmless, Recorded
<1>10. CASE SyncSource
  <2>1. /\ UNCHANGED <<phase, parent, dest>> /\ pc = "syncSource" /\ pc' = "removed"
        /\ phase = "installed" /\ source'.seen = source.seen /\ source'.kept = source.seen
    BY <1>1, <1>10 DEF SyncSource, Goto, Sync, Stable, PhaseIsRecorded
  <2> QED BY <2>1 DEF PowerLossIsHarmless, Recorded
<1>11. CASE RecordRemoved \/ Commit
  <2>1. /\ UNCHANGED <<source, parent, dest>> /\ pc \in {"removed", "commit"}
        /\ phase \in {"installed", "source-removed"}
        /\ phase' \in {phase, "source-removed", "committed"} /\ pc' \in {"commit", "final", "off"}
        /\ phase = "source-removed" \/ pc = "removed"
    BY <1>1, <1>11 DEF RecordRemoved, Commit, Checkpoint, Goto, Fail, files, PhaseIsRecorded
  <2> QED BY <2>1 DEF PowerLossIsHarmless, Recorded
<1> QED BY <1>2, <1>3, <1>4, <1>5, <1>6, <1>7, <1>8, <1>9, <1>10, <1>11 DEF Attempt

LEMMA HarmlessLossAndReplacement ==
  ASSUME InstallInvariant, SuccessInvariant, PowerLossIsHarmless,
         \/ PowerLoss /\ replaced' = replaced
         \/ Replace /\ replaced' = TRUE
  PROVE  PowerLossIsHarmless'
<1>1. /\ phase' = phase /\ pc' = "off"
      /\ phase \in Recorded \/ pc # "syncSource"
  BY DEF PowerLoss, Replace, SuccessInvariant, PhaseIsRecorded, Recorded
<1>2. CASE PowerLoss /\ replaced' = replaced
  <2>1. /\ source'.seen = source'.kept /\ source'.seen \in {source.seen, source.kept}
        /\ parent'.seen = parent'.kept /\ parent'.seen \in {parent.seen, parent.kept}
    BY <1>2 DEF PowerLoss, Outcomes, Stable
  <2>2. phase \in Recorded =>
          parent'.seen /\ dest'.seen \in {dest.seen, dest.kept} /\ dest'.kept \in {dest.seen, dest.kept}
    <3>1. phase \in Recorded => pc # "syncHome" /\ parent.seen /\ parent.kept
      BY DEF SuccessInvariant, PhaseIsRecorded, Recorded, PowerLossIsHarmless
    <3>2. phase \in Recorded => parent'.seen
      BY <2>1, <3>1
    <3>3. parent'.seen => dest' \in Outcomes(dest)
      BY <1>2 DEF PowerLoss
    <3> QED BY <3>2, <3>3 DEF Outcomes, Stable
  <2>3. phase \in {"source-removed", "committed"} => pc # "syncSource"
    BY DEF SuccessInvariant, PhaseIsRecorded
  <2> QED BY <1>1, <1>2, <2>1, <2>2, <2>3 DEF PowerLossIsHarmless
<1>3. CASE Replace /\ replaced' = TRUE
  <2>1. UNCHANGED <<parent, dest>> /\ pc = "off"
    BY <1>3 DEF Replace
  <2>2. source'.seen = source'.kept /\ source'.seen # Absent
    <3>1. PICK contents \in Secrets :
            source' = Stable([contents |-> contents, inode |-> MaxDisturbances - budget'])
      BY <1>3 DEF Replace
    <3>2. [contents |-> contents, inode |-> MaxDisturbances - budget'] # Absent
      BY ContentsAssumption DEF Absent
    <3> QED BY <3>1, <3>2 DEF Stable
  <2> QED BY <1>1, <1>3, <2>1, <2>2 DEF PowerLossIsHarmless
<1> QED BY <1>2, <1>3

(* The installer with its history, started again until it has succeeded.   *)
THEOREM HistoryInvariance == MCSpec => []HistoryInvariant
<1>1. MCInit => HistoryInvariant
  <2> SUFFICES ASSUME MCInit PROVE HistoryInvariant
    OBVIOUS
  <2>1. InstallInvariant
    BY InvariantInit DEF MCInit
  <2>2. SuccessInvariant
    BY SuccessInit DEF MCInit
  <2>3. PowerLossIsHarmless
    <3>1. PICK contents \in Secrets : source = Stable([contents |-> contents, inode |-> 0])
      BY DEF MCInit, Init
    <3>2. [contents |-> contents, inode |-> 0] # Absent
      BY ContentsAssumption DEF Absent
    <3>3. source.seen = source.kept /\ source.seen # Absent /\ parent.seen = parent.kept
      BY <3>1, <3>2 DEF Stable, MCInit, Init
    <3> QED BY <3>3 DEF MCInit, Init, PowerLossIsHarmless, Recorded
  <2> QED BY <2>1, <2>2, <2>3 DEF HistoryInvariant
<1>2. HistoryInvariant /\ [MCNext]_<<vars, history>> => HistoryInvariant'
  <2> SUFFICES ASSUME HistoryInvariant, [MCNext]_<<vars, history>> PROVE HistoryInvariant'
    OBVIOUS
  <2>1. [Next]_vars
    BY DEF MCNext, Next
  <2>2. InstallInvariant' /\ SuccessInvariant'
    BY <2>1, NextPreserves, SuccessStep DEF HistoryInvariant
  <2>3. ASSUME ~interrupted'
        PROVE  PowerLossIsHarmless'
    <3>1. CASE (Attempt \/ Fault \/ Kill) /\ interrupted' = (interrupted \/ budget' # budget)
               /\ UNCHANGED <<lost, replaced>>
      <4>1. ~interrupted /\ budget' = budget
        BY <2>3, <3>1
      <4>2. budget \in Nat /\ budget - 1 # budget
        BY BudgetFacts DEF HistoryInvariant, InstallInvariant
      <4>3. ~Fault /\ ~Kill
        BY <4>1, <4>2 DEF Fault, Kill, Disturb
      <4> QED BY <3>1, <4>1, <4>3, HarmlessAttempt DEF HistoryInvariant
    <3>2. CASE PowerLoss /\ lost' = TRUE /\ UNCHANGED <<interrupted, replaced>>
      BY <2>3, <3>2, HarmlessLossAndReplacement DEF HistoryInvariant
    <3>3. CASE Replace /\ replaced' = TRUE /\ UNCHANGED <<interrupted, lost>>
      BY <2>3, <3>3, HarmlessLossAndReplacement DEF HistoryInvariant
    <3>4. CASE UNCHANGED <<vars, history>>
      BY <2>3, <3>4 DEF vars, history, HistoryInvariant, PowerLossIsHarmless
    <3> QED BY <3>1, <3>2, <3>3, <3>4 DEF MCNext
  <2> QED BY <2>2, <2>3 DEF HistoryInvariant
<1>3. MCSpec => MCInit /\ [][MCNext]_<<vars, history>>
  BY DEF MCSpec
<1> QED BY <1>1, <1>2, <1>3, PTL

(* Unless an attempt was cut short, a copy of the secret survives any      *)
(* power loss: the source, or the destination with its whole path          *)
(* (installer.ts: the order of the phases, each after the sync it names).  *)
THEOREM SecretSurvival == MCSpec => []SecretSurvives
<1>1. HistoryInvariant => SecretSurvives
  <2> SUFFICES ASSUME HistoryInvariant, ~interrupted PROVE SecretSurvivesPowerLoss
    BY DEF SecretSurvives
  <2>1. PowerLossIsHarmless /\ PhaseIsRecorded
    BY DEF HistoryInvariant, SuccessInvariant
  <2>2. CASE phase \in Recorded
    BY <2>1, <2>2 DEF PowerLossIsHarmless, PhaseIsRecorded, Recorded, SecretSurvivesPowerLoss
  <2>3. CASE phase \notin Recorded
    BY <2>1, <2>3 DEF PowerLossIsHarmless, PhaseIsRecorded, Recorded, SecretSurvivesPowerLoss
  <2> QED BY <2>2, <2>3
<1> QED BY <1>1, HistoryInvariance, PTL

(* Unless an attempt was cut short or the source replaced, no power loss   *)
(* brings the source back once its removal is committed (installer.ts:     *)
(* the source's directory is synced before the phase is recorded).         *)
THEOREM RemovalDurability == MCSpec => []RemovalIsDurable
<1>1. HistoryInvariant => RemovalIsDurable
  BY DEF HistoryInvariant, PowerLossIsHarmless, SuccessInvariant, PhaseIsRecorded,
     RemovalIsDurable, CommittedRemovalIsDurable
<1> QED BY <1>1, HistoryInvariance, PTL
=============================================================================
