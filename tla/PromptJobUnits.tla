--------------------------- MODULE PromptJobUnits ---------------------------
(***************************************************************************)
(* Installing and uninstalling scheduled prompt jobs (lifecycle.ts,        *)
(* unit-store.ts, systemd-control.ts of packages/scheduled-prompt-jobs):   *)
(* the unit files of the previous installation are moved aside, the new    *)
(* ones renamed into place, timers and registry follow, and a failure on   *)
(* the way undoes what was done.                                           *)
(*                                                                         *)
(* A job stands for its service and timer unit, and a version for what its *)
(* manifest rendered.  The order in which a loop takes the jobs is left    *)
(* open.  One administrator runs one command at a time: nothing in the     *)
(* code keeps two apart.                                                   *)
(***************************************************************************)
EXTENDS PromptJobManifest

CONSTANTS NoUnit, MaxCommands, MaxFaults

ASSUME UnitAssumption == NoUnit \notin Nat
ASSUME BoundAssumption == MaxCommands \in Nat /\ MaxFaults \in Nat

VARIABLES
  registry,    (* what the registry says is installed *)
  files,       (* the units in /etc/systemd/system *)
  loaded,      (* the units systemd knows, as of the last daemon-reload *)
  enabled,     (* the timers that start at boot *)
  active,      (* the timers that are armed *)
  orphaned,    (* backups of operations that ended without removing them *)
  command,     (* the command that runs, or ran last *)
  pc,          (* where it is *)
  todo,        (* the jobs its current loop has left *)
  moved, published, backup,    (* publish's sets, and its backup directory *)
  incomplete,  (* what the rollback could not do *)
  commands, faults

world == <<registry, files, loaded, enabled, active>>
progress == <<moved, published, backup, incomplete>>
unitVars == <<world, orphaned, command, pc, todo, progress, commands, faults>>

NoRegistry == [names |-> {}, on |-> FALSE, exists |-> FALSE]
NoFiles == [j \in Job |-> NoUnit]
Versions == (0 .. MaxCommands) \cup {NoUnit}

Outcomes == {"none", "done", "failed", "recovery", "killed"}
Places == {"idle", "moving", "publishing", "stale", "timers", "close",
           "unpublish", "restore", "unarm", "rearm"}
Registries == [names : SUBSET Job, on : BOOLEAN, exists : BOOLEAN]
Units == [Job -> Versions]

UnitsTypeOK ==
  /\ registry \in Registries /\ files \in Units /\ loaded \in Units /\ backup \in Units
  /\ {enabled, active, moved, published, todo} \subseteq SUBSET Job
  /\ orphaned \subseteq Units /\ pc \in Places
  /\ command \in [kind : {"none", "install", "uninstall"}, names : SUBSET Job, on : BOOLEAN,
                   previous : Registries, outcome : Outcomes]
  /\ incomplete \subseteq {"cleanup", "restoration", "hook"}
  /\ commands \in 0 .. MaxCommands /\ faults \in 0 .. MaxFaults

(* A boot media's first installation, or an earlier one that is in order.  *)
UnitsInit ==
  /\ \E names \in SUBSET Job, on \in BOOLEAN :
       /\ registry = IF names = {} THEN NoRegistry
                     ELSE [names |-> names, on |-> on, exists |-> TRUE]
       /\ files = [j \in Job |-> IF j \in names THEN 0 ELSE NoUnit]
       /\ enabled = IF on THEN names ELSE {}
  /\ loaded = files /\ active = enabled
  /\ orphaned = {} /\ pc = "idle" /\ todo = {}
  /\ command = [kind |-> "none", names |-> {}, on |-> FALSE, previous |-> NoRegistry,
                outcome |-> "none"]
  /\ moved = {} /\ published = {} /\ backup = NoFiles /\ incomplete = {}
  /\ commands = 0 /\ faults = 0

Fault == faults < MaxFaults /\ faults' = faults + 1
Go(place, jobs) == pc' = place /\ todo' = jobs
At(place, j) == pc = place /\ j \in todo
Leave(j) == pc' = pc /\ todo' = todo \ {j}
Finished(place) == pc = place /\ todo = {}

(* What a command calls its outcome.                                       *)
Conclude(outcome) ==
  /\ Go("idle", {})
  /\ command' = [command EXCEPT !.outcome = outcome]

-----------------------------------------------------------------------------
(* installPromptJobs, uninstallPromptJobs *)

Begin(kind, names, on, outcome) ==
  /\ commands' = commands + 1
  /\ command' = [kind |-> kind, names |-> names, on |-> on, previous |-> registry,
                 outcome |-> outcome]
  /\ IF outcome = "none" THEN Go("moving", registry.names \cup names)
     ELSE UNCHANGED <<pc, todo>>
  /\ moved' = {} /\ published' = {} /\ backup' = NoFiles /\ incomplete' = {}
  /\ UNCHANGED <<world, orphaned>>

(* The manifest is loaded, its units are verified in a directory of their  *)
(* own, the registry is read and the new units are staged, before a file   *)
(* of the installation moves.                                              *)
Install(m, on) ==
  \/ Loads(m) /\ Begin("install", Jobs(m), on, "none") /\ UNCHANGED faults
  \/ ~Loads(m) /\ Begin("install", Jobs(m), on, "failed") /\ UNCHANGED faults
  \/ Loads(m) /\ Begin("install", Jobs(m), on, "failed") /\ Fault

Uninstall ==
  \/ registry.exists /\ Begin("uninstall", {}, FALSE, "none") /\ UNCHANGED faults
  \/ ~registry.exists /\ Begin("uninstall", {}, FALSE, "done") /\ UNCHANGED faults
  \/ registry.exists /\ Begin("uninstall", {}, FALSE, "failed") /\ Fault

(* publish, and its undoing.                                               *)
RollBack == Go("unpublish", published)

Same == UNCHANGED <<commands, orphaned, command>>

MoveAside(j) ==
  /\ At("moving", j) /\ Leave(j)
  /\ \/ files[j] = NoUnit /\ UNCHANGED <<files, moved, backup>>
     \/ /\ files[j] # NoUnit /\ j \in command.previous.names
        /\ backup' = [backup EXCEPT ![j] = files[j]]
        /\ files' = [files EXCEPT ![j] = NoUnit]
        /\ moved' = moved \cup {j}
  /\ UNCHANGED <<registry, loaded, enabled, active, published, incomplete, faults>> /\ Same

(* A file that the registry does not list is not touched.                  *)
RefuseUnowned(j) ==
  /\ At("moving", j) /\ files[j] # NoUnit /\ j \notin command.previous.names
  /\ RollBack
  /\ UNCHANGED <<world, progress, faults>> /\ Same

Publish(j) ==
  /\ At("publishing", j) /\ Leave(j)
  /\ files' = [files EXCEPT ![j] = commands]
  /\ published' = published \cup {j}
  /\ UNCHANGED <<registry, loaded, enabled, active, moved, backup, incomplete, faults>> /\ Same

RenameFails ==
  /\ pc \in {"moving", "publishing"} /\ todo # {}
  /\ Fault /\ RollBack
  /\ UNCHANGED <<world, progress>> /\ Same

-----------------------------------------------------------------------------
(* systemctl.  A call that fails, or succeeds without telling, has done a  *)
(* part of its work or all of it.                                          *)

TimersMayBecome(on, j) ==
  \/ UNCHANGED <<enabled, active>>
  \/ on /\ enabled' = enabled \cup {j} /\ active' \in {active, active \cup {j}}
  \/ ~on /\ enabled' \in {enabled, enabled \ {j}} /\ active' \in {active, active \ {j}}

(* disableAndAssertTimer; or enableTimer, restartTimer, assertTimerReady.  *)
SetTimer(on, j) ==
  /\ enabled' = IF on THEN enabled \cup {j} ELSE enabled \ {j}
  /\ active' = IF on THEN active \cup {j} ELSE active \ {j}

(* afterPublish and afterRollback wait for each call in turn.              *)
TimerLoop(place, on, j) ==
  /\ At(place, j) /\ Leave(j)
  /\ SetTimer(on, j)
  /\ UNCHANGED <<registry, files, loaded, progress, faults>> /\ Same

TimerFails(place, on, j) ==
  /\ At(place, j) /\ Fault
  /\ TimersMayBecome(on, j)
  /\ UNCHANGED <<registry, files, loaded>> /\ Same

Reload(place, next, jobs) ==
  /\ pc = place /\ Go(next, jobs)
  /\ loaded' = files
  /\ UNCHANGED <<registry, files, enabled, active, progress, faults>> /\ Same

ReloadFails(place) ==
  /\ pc = place /\ Fault
  /\ loaded' \in {loaded, files}
  /\ UNCHANGED <<registry, files, enabled, active>> /\ Same

-----------------------------------------------------------------------------
(* afterPublish *)

(* Mutant: the timers of jobs that are no longer in the manifest stay.     *)
StaleKept == {}

Stale == command.previous.names \ command.names

DisableStale(j) == TimerLoop("stale", FALSE, j)
ReloadPublished == Finished("stale") /\ Reload("stale", "timers", command.names)
ApplyTimer(j) == TimerLoop("timers", command.on, j)

HookFails ==
  /\ \/ \E j \in Job : TimerFails("stale", FALSE, j)
     \/ \E j \in Job : TimerFails("timers", command.on, j)
     \/ Finished("stale") /\ ReloadFails("stale")
  /\ RollBack
  /\ UNCHANGED progress

(* writeRegistry replaces the registry by a rename; an uninstallation      *)
(* removes it.                                                             *)
NewRegistry ==
  IF command.kind = "install"
  THEN [names |-> command.names, on |-> command.on, exists |-> TRUE]
  ELSE NoRegistry

Record ==
  /\ Finished("timers") /\ Go("close", {})
  /\ registry' = NewRegistry
  /\ UNCHANGED <<files, loaded, enabled, active, progress, faults>> /\ Same

(* The directory the registry was written in is removed after the rename:  *)
(* a failure of that comes when the new registry is in place.              *)
RecordFails ==
  /\ Finished("timers") /\ Fault /\ RollBack
  /\ registry' \in {registry} \cup (IF command.kind = "install" THEN {NewRegistry} ELSE {})
  /\ UNCHANGED <<files, loaded, enabled, active, progress>> /\ Same

(* The operation's directory is removed last, and what fails then fails a  *)
(* command that did everything.                                            *)
Close ==
  /\ pc = "close"
  /\ \/ Conclude("done") /\ UNCHANGED <<faults, orphaned>>
     \/ Fault /\ Conclude("failed") /\ orphaned' \in {orphaned, orphaned \cup {backup}}
  /\ backup' = NoFiles
  /\ UNCHANGED <<world, moved, published, incomplete, commands>>

-----------------------------------------------------------------------------
(* The rollback *)

Unpublish(j) ==
  /\ At("unpublish", j) /\ Leave(j)
  /\ \/ files' = [files EXCEPT ![j] = NoUnit] /\ UNCHANGED <<incomplete, faults>>
     \/ Fault /\ incomplete' = incomplete \cup {"cleanup"} /\ UNCHANGED files
  /\ UNCHANGED <<registry, loaded, enabled, active, moved, published, backup>> /\ Same

Unpublished ==
  /\ Finished("unpublish") /\ Go("restore", moved)
  /\ UNCHANGED <<world, progress, faults>> /\ Same

Restore(j) ==
  /\ At("restore", j) /\ Leave(j)
  /\ \/ /\ files' = [files EXCEPT ![j] = backup[j]]
        /\ backup' = [backup EXCEPT ![j] = NoUnit]
        /\ UNCHANGED <<incomplete, faults>>
     \/ Fault /\ incomplete' = incomplete \cup {"restoration"} /\ UNCHANGED <<files, backup>>
  /\ UNCHANGED <<registry, loaded, enabled, active, moved, published>> /\ Same

(* The timers follow the files, when the files are back.                   *)
Restored ==
  /\ Finished("restore") /\ "restoration" \notin incomplete /\ moved \cup published # {}
  /\ Go("unarm", command.names)
  /\ UNCHANGED <<world, progress, faults>> /\ Same

Unarm(j) == TimerLoop("unarm", FALSE, j)
ReloadRestored ==
  Finished("unarm") /\ Reload("unarm", "rearm", command.previous.names)

(* Mutant: the timers come back as the failed command wanted them.         *)
RearmAsAsked(j) == TimerLoop("rearm", command.on, j)

Rearm(j) == TimerLoop("rearm", command.previous.on, j)

(* Mutant: the operation's directory is removed after every failure.       *)
GiveBackNothing(left) ==
  /\ Conclude(IF left # {} THEN "recovery" ELSE "failed")
  /\ backup' = NoFiles /\ incomplete' = left
  /\ UNCHANGED <<moved, published, commands, orphaned>>

(* PromptJobUnitRecoveryError names the operation's directory and leaves   *)
(* it; every other failure removes it.                                     *)
GiveBack(left) ==
  /\ IF left # {}
     THEN Conclude("recovery") /\ orphaned' = orphaned \cup {backup}
     ELSE Conclude("failed") /\ UNCHANGED orphaned
  /\ backup' = NoFiles /\ incomplete' = left
  /\ UNCHANGED <<moved, published, commands>>

RolledBack ==
  /\ \/ Finished("rearm")
     \/ Finished("restore") /\ ("restoration" \in incomplete \/ moved \cup published = {})
  /\ GiveBack(incomplete)
  /\ UNCHANGED <<world, faults>>

RollbackHookFails ==
  /\ Fault
  /\ \/ /\ \/ \E j \in todo : pc = "unarm" /\ TimersMayBecome(FALSE, j)
           \/ \E j \in todo : pc = "rearm" /\ TimersMayBecome(command.previous.on, j)
        /\ UNCHANGED loaded
     \/ /\ Finished("unarm") /\ loaded' \in {loaded, files}
        /\ UNCHANGED <<enabled, active>>
  /\ GiveBack(incomplete \cup {"hook"})
  /\ UNCHANGED <<registry, files>>

-----------------------------------------------------------------------------
(* The process dies, and its directory stays.                              *)
Die ==
  /\ pc # "idle" /\ Fault
  /\ Conclude("killed")
  /\ orphaned' = orphaned \cup {backup} /\ backup' = NoFiles
  /\ UNCHANGED <<world, moved, published, incomplete, commands>>

Moved ==
  /\ Finished("moving") /\ Go("publishing", command.names)
  /\ UNCHANGED <<world, progress, faults>> /\ Same

Published ==
  /\ Finished("publishing") /\ Go("stale", Stale)
  /\ UNCHANGED <<world, progress, faults>> /\ Same

Administer ==
  /\ pc = "idle" /\ commands < MaxCommands
  /\ \/ \E m \in Manifests(MaxJobs), on \in BOOLEAN : Install(m, on)
     \/ Uninstall

UnitsStep ==
  \/ \E j \in Job :
       MoveAside(j) \/ RefuseUnowned(j) \/ Publish(j) \/ DisableStale(j) \/ ApplyTimer(j)
       \/ Unpublish(j) \/ Restore(j) \/ Unarm(j) \/ Rearm(j)
  \/ RenameFails \/ Moved \/ Published \/ ReloadPublished \/ HookFails \/ Record \/ RecordFails
  \/ Close \/ Unpublished \/ Restored \/ ReloadRestored \/ RolledBack \/ RollbackHookFails
  \/ Die
=============================================================================
