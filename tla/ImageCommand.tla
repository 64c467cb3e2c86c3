---------------------------- MODULE ImageCommand ----------------------------
(***************************************************************************)
(* One run of `create-agent image` (packages/cli/src/image/orchestrator.ts)*)
(* with the transaction that writes the target (imaging/transaction.ts,    *)
(* raw-writer.ts, read-back-verifier.ts), the one that customizes the      *)
(* written image (customize/transaction.ts), and the operating system they *)
(* act on: the disk the target path leads to, its mounts, and the          *)
(* resources the command must give back.  The device lock is that of       *)
(* module FileLock.                                                        *)
(*                                                                         *)
(* The signals SIGHUP, SIGINT and SIGTERM abort the controllers of all     *)
(* three at once: `canceled`.  A step is what happens between two awaits;  *)
(* operations that fail may have had their effect.                         *)
(***************************************************************************)
EXTENDS ImageFailure, Sequences, SequencesExt

CONSTANTS
  Mountpoints,   (* where something else mounts descendants of the target *)
  MaxSwaps       (* bound on changes of the disk behind the target path   *)

ASSUME SwapAssumption == MaxSwaps \in Nat

VARIABLES
  run,        (* the command: where it is, and what it remembers            *)
  target,     (* the disk the target path leads to, or "gone"               *)
  disk,       (* the contents of each disk                                  *)
  foreign,    (* descendants of the target mounted by something else        *)
  private,    (* partitions mounted below the private mount root            *)
  held,       (* what the command has taken and not given back              *)
  lookalike,  (* the other disk has partitions like those of the image      *)
  canceled,   (* a signal arrived                                           *)
  swaps       (* swaps so far                                               *)

vars == <<run, target, disk, foreign, private, held, lookalike, canceled, swaps>>
world == <<target, disk, foreign, private, lookalike, canceled, swaps>>

Disks == {"confirmed", "other"}
Contents == {"original", "partial", "image", "modified", "customized"}
Resources == {"secrets", "workspace", "lock", "root"}
Partitions == <<"boot", "root">>

-----------------------------------------------------------------------------
(* What the command remembers:                                             *)
(*   pc         where it is                                                *)
(*   dry        --dry-run                                                  *)
(*   step       the preparation it is at                                   *)
(*   phase      activePhase                                                *)
(*   recovery   the recovery state                                         *)
(*   error      the write transaction's operationError, or what it threw   *)
(*   verified   the write transaction's completedPhase is set              *)
(*   unclean    the write transaction collected a cleanup error            *)
(*   attempted  mountpoints unmounted in this loop; mount, the one at hand *)
(*   opened     the disk opened, or the disks that have partitions mounted *)
(*   tracked    mountsRequiringCleanup                                     *)
(*   queue      what unmountAll has still to try; why, what it is for      *)
(*   retried    capacity was provisioned                                   *)
(*   inner      the customization's operationError                         *)
(*   failures   the customization's cleanupErrorCount is not zero          *)
(*   checked    filesystems checked                                        *)
(*   report     the error that ended the command                           *)
InitialRun(dry) ==
  [pc |-> "prepare", dry |-> dry, step |-> 1, phase |-> "validation",
   recovery |-> "target-unchanged", error |-> NoError, verified |-> FALSE,
   unclean |-> FALSE, attempted |-> {}, mount |-> "none", opened |-> {},
   tracked |-> <<>>, queue |-> <<>>, why |-> "final", retried |-> FALSE,
   inner |-> NoError, failures |-> FALSE, checked |-> 0,
   report |-> Report("validation", "target-unchanged", FALSE, FALSE)]

Init ==
  /\ run \in {InitialRun(dry) : dry \in BOOLEAN}
  /\ target = "confirmed"
  /\ disk = [d \in Disks |-> "original"]
  /\ foreign \in SUBSET Mountpoints
  /\ private = {}
  /\ held = {}
  /\ lookalike \in BOOLEAN
  /\ canceled = FALSE
  /\ swaps = 0

At(pc) == run.pc = pc
Goto(pc) == [run EXCEPT !.pc = pc]
During(next, phase) == [next EXCEPT !.phase = phase]

(* The write transaction fails: to its cleanup, if it holds the lock.      *)
Fail(error) == [run EXCEPT !.pc = IF "lock" \in held THEN "cleanup" ELSE "conclude",
                           !.error = error, !.attempted = {}]
CanceledWrite == WriteError("write")

(* unmountAll; and the customization fails, with its final unmountAll.     *)
UnmountAll(next, why) ==
  [next EXCEPT !.pc = "unmount all", !.why = why, !.queue = Reverse(next.tracked)]
Refuse(next, error) == UnmountAll([next EXCEPT !.inner = error], "final")
Failed == CustomizationError("customize")

Descendants == foreign \cup private
Reachable == target \in run.opened
Writes(contents) == disk' = [disk EXCEPT ![target] = contents]

(* The target path leads to a disk with partitions like those of the image.*)
Verified == {"image", "modified", "customized"}
HasLayout == \/ target # "gone" /\ disk[target] \in Verified
             \/ target = "other" /\ disk[target] = "original" /\ lookalike

-----------------------------------------------------------------------------
(* Preparation (runImageWorkflow)                                          *)

Preparation(phase, takes) == [phase |-> phase, takes |-> takes]
Preparations ==
  <<Preparation("validation", {}), Preparation("os-resolution", {}),
    Preparation("validation", {}), Preparation("synthesis", {}),
    Preparation("validation", {"secrets"}), Preparation("artifact-acquisition", {}),
    Preparation("preparation", {"workspace"}), Preparation("preparation", {}),
    Preparation("preflight", {}), Preparation("confirmation", {})>>
LastDryStep == 4

(* Preflight refuses a target that is missing, mounted or not as expected. *)
PreflightPasses == target = "confirmed" /\ foreign = {}

(* One preparation fails, or is made.  A cancellation is seen after each,  *)
(* but for the creation of the workspace, which publishing follows at once.*)
Prepare ==
  LET preparation == Preparations[run.step]
      next == During(run, preparation.phase)
      failing(error) == [next EXCEPT !.pc = "conclude", !.error = error]
  IN  /\ At("prepare")
      /\ \/ /\ \/ run' = failing(Other)
               \/ preparation.phase = "preflight" /\ run' = failing(Guardrail)
               \/ preparation.phase = "confirmation" /\ run' = failing(Rejected)
            /\ UNCHANGED held
         \/ /\ preparation.phase = "preflight" => PreflightPasses
            /\ held' = held \cup preparation.takes
            /\ run' = IF canceled /\ "workspace" \notin preparation.takes THEN failing(Other)
                      ELSE IF run.dry /\ run.step = LastDryStep
                      THEN [next EXCEPT !.pc = "conclude"]
                      ELSE IF run.step = Len(Preparations)
                      THEN [next EXCEPT !.pc = "lock", !.phase = "lock"]
                      ELSE [next EXCEPT !.step = @ + 1]
      /\ UNCHANGED world

-----------------------------------------------------------------------------
(* The write transaction (writeImageTransaction)                           *)

(* The image is too large for the target, the lock is another's, or taken. *)
Lock ==
  /\ At("lock")
  /\ \/ run' \in {Fail(WriteError("write")), Fail(WriteError("lock"))} /\ UNCHANGED held
     \/ /\ ~canceled
        /\ held' = held \cup {"lock"}
        /\ run' = Goto("recheck")
  /\ UNCHANGED world

(* unmountDescendants: the target is rechecked, and a mount of one of its  *)
(* descendants unmounted, until there is none.                             *)
Attempt(m, pc) == [run EXCEPT !.pc = pc, !.attempted = @ \cup {m}, !.mount = m]

(* Mutant: a mount that came back is unmounted again.                      *)
RecheckAgain ==
  /\ At("recheck")
  /\ \/ run' = Fail(Other)
     \/ ~canceled /\ target # "confirmed" /\ run' = Fail(Guardrail)
     \/ ~canceled /\ target = "confirmed" /\ Descendants = {} /\ run' = Goto("open")
     \/ ~canceled /\ target = "confirmed" /\ \E m \in Descendants : run' = Attempt(m, "umount")
  /\ UNCHANGED <<world, held>>

Recheck ==
  /\ At("recheck")
  /\ \/ canceled /\ run' = Fail(CanceledWrite)
     \/ ~canceled /\ run' = Fail(Other)
     \/ ~canceled /\ target # "confirmed" /\ run' = Fail(Guardrail)
     \/ ~canceled /\ target = "confirmed" /\ Descendants = {} /\ run' = Goto("open")
     \/ /\ ~canceled /\ target = "confirmed"
        /\ \E m \in Descendants :
             run' = IF m \in run.attempted THEN Fail(WriteError("recheck"))
                    ELSE Attempt(m, "umount")
  /\ UNCHANGED <<world, held>>

(* umount(8) succeeds; or fails, or is killed, perhaps having succeeded.   *)
MayUnmount(m) ==
  \/ foreign' = foreign \ {m} /\ private' = private \ {m}
  \/ UNCHANGED <<foreign, private>>

Umount ==
  /\ At("umount")
  /\ MayUnmount(run.mount)
  /\ \/ canceled /\ run' = Fail(CanceledWrite)
     \/ ~canceled /\ run' = Fail(WriteError("recheck"))
     \/ /\ ~canceled /\ run.mount \notin foreign' \cup private'
        /\ run' = During(Goto("recheck"), "recheck")
  /\ UNCHANGED <<target, disk, lookalike, canceled, swaps, held>>

(* ExactRawImageWriter: the target path is opened; chunks are written and  *)
(* reported; the file is synced and closed.  An error may come with        *)
(* another, from closing the file or the source.                           *)
OpenWrite ==
  /\ At("open")
  /\ \/ run' = Fail(WriteError("write"))
     \/ ~canceled /\ target # "gone" /\ run' = [Goto("write") EXCEPT !.opened = {target}]
  /\ UNCHANGED <<world, held>>

WriteFails(error) == run' \in {Fail(error), Fail(CleanupFailure(error, "nothing"))}

Write ==
  /\ At("write")
  /\ \/ WriteFails(WriteError("write")) /\ UNCHANGED disk
     \/ /\ ~canceled /\ Reachable
        /\ \/ WriteFails(WriteError("write")) /\ Writes("partial")
           \/ run' = During(run, "write") /\ Writes("partial")
           \/ /\ run' = During(Goto("verify"), "write")
              /\ Writes("partial") \/ Writes("image")
  /\ UNCHANGED <<target, foreign, private, lookalike, canceled, swaps, held>>

(* FullReadBackVerifier opens the target path again.                       *)
Verify ==
  /\ At("verify")
  /\ \/ WriteFails(WriteError("write"))
     \/ /\ ~canceled /\ target # "gone" /\ disk[target] # "image"
        /\ \/ run' = Fail(WriteError("verify"))
           \/ run' = During(Fail(WriteError("verify")), "verify")
     \/ /\ ~canceled /\ target # "gone" /\ disk[target] = "image"
        /\ run' = During(Goto("authorize"), "verify")
  /\ UNCHANGED <<world, held>>

(* The target is rechecked once more before it is customized.              *)
Customizing == [During(Goto("discover"), "customize") EXCEPT
                  !.verified = TRUE, !.recovery = "target-verified-needs-customization"]

(* Mutant: the target is not rechecked.                                    *)
AuthorizeUnchecked ==
  /\ At("authorize")
  /\ run' = IF canceled THEN Fail(CanceledWrite) ELSE Customizing
  /\ UNCHANGED <<world, held>>

Authorize ==
  /\ At("authorize")
  /\ \/ canceled /\ run' = Fail(CanceledWrite)
     \/ ~canceled /\ run' = Fail(Other)
     \/ ~canceled /\ target # "confirmed" /\ run' = Fail(Guardrail)
     \/ ~canceled /\ target = "confirmed" /\ run' = Customizing
  /\ UNCHANGED <<world, held>>

-----------------------------------------------------------------------------
(* The customization (customizeWrittenImage)                               *)

(* The partitions appear within the deadline, in the layout of the lock.   *)
Discover ==
  /\ At("discover")
  /\ \/ run' = Refuse(run, Failed)
     \/ ~canceled /\ HasLayout /\ run' = [Goto("mount") EXCEPT !.opened = {}]
  /\ UNCHANGED <<world, held>>

CreateRoot ==
  /\ At("mount") /\ "root" \notin held
  /\ \/ run' = Refuse(run, Failed) /\ UNCHANGED held
     \/ held' = held \cup {"root"} /\ UNCHANGED run
  /\ UNCHANGED world

(* A partition is tracked before it is mounted: mount(8) may fail, or be   *)
(* killed, having succeeded.                                               *)
NextPartition == Partitions[Len(run.tracked) + 1]
Tracking == [run EXCEPT !.tracked = Append(@, NextPartition), !.opened = @ \cup ({target} \cap Disks)]
Mounted(next) == IF Len(next.tracked) = Len(Partitions) THEN [next EXCEPT !.pc = "adapt"] ELSE next

(* Mutant: a partition is tracked once it is mounted.                      *)
MountThenTrack ==
  /\ At("mount") /\ "root" \in held
  /\ \/ run' = Refuse(run, Failed) /\ UNCHANGED private
     \/ /\ HasLayout
        /\ private' = private \cup {NextPartition}
        /\ \/ run' = Refuse(run, Failed)
           \/ ~canceled /\ run' = Mounted(Tracking)
  /\ UNCHANGED <<target, disk, foreign, lookalike, canceled, swaps, held>>

Mount ==
  /\ At("mount") /\ "root" \in held
  /\ \/ run' \in {Refuse(run, Failed), Refuse(Tracking, Failed)} /\ UNCHANGED private
     \/ /\ HasLayout
        /\ private' = private \cup {NextPartition}
        /\ \/ run' = Refuse(Tracking, Failed)
           \/ ~canceled /\ run' = Mounted(Tracking)
  /\ UNCHANGED <<target, disk, foreign, lookalike, canceled, swaps, held>>

Adapt ==
  /\ At("adapt")
  /\ run' = IF canceled THEN Refuse(run, Failed) ELSE Goto("adapting")
  /\ UNCHANGED <<world, held>>

(* The adapter fails; or finds too little room, before it writes; or       *)
(* completes, with its postconditions.                                     *)
Adapted ==
  /\ At("adapting")
  /\ \/ run' = Refuse(run, Failed) /\ UNCHANGED disk
     \/ ~run.retried /\ run' = UnmountAll(run, "capacity") /\ UNCHANGED disk
     \/ Reachable /\ run' = Refuse(run, Failed) /\ Writes("modified")
     \/ /\ run.opened = {target} /\ Writes("customized")
        /\ run' = IF canceled THEN Refuse(run, Failed) ELSE UnmountAll(run, "finish")
  /\ UNCHANGED <<target, foreign, private, lookalike, canceled, swaps, held>>

UnmountPrivate ==
  LET partition == Head(run.queue)
      rest == [run EXCEPT !.queue = Tail(@)]
  IN  /\ At("unmount all") /\ run.queue # <<>>
      /\ \/ /\ partition \in private
            /\ private' = private \ {partition}
            /\ \E i \in 1 .. Len(run.tracked) :
                 /\ run.tracked[i] = partition
                 /\ run' = [rest EXCEPT !.tracked = RemoveAt(@, i)]
         \/ /\ private' \in {private, private \ {partition}}
            /\ run' = [rest EXCEPT !.failures = TRUE]
      /\ UNCHANGED <<target, disk, foreign, lookalike, canceled, swaps, held>>

(* unmountAll returns: to the capacity provisioner, to the filesystem      *)
(* checks, or to the end of the finally block.                             *)
(* Mutant: the filesystems are checked although an unmount failed.         *)
UnmountedAnyway ==
  /\ At("unmount all") /\ run.queue = <<>>
  /\ run' = IF run.why = "final" THEN Goto("remove root")
            ELSE IF canceled THEN Refuse(run, Failed)
            ELSE Goto(IF run.why = "capacity" THEN "provision" ELSE "check")
  /\ UNCHANGED <<world, held>>

Unmounted ==
  /\ At("unmount all") /\ run.queue = <<>>
  /\ run' = IF run.why = "final" THEN Goto("remove root")
            ELSE IF run.failures THEN Refuse(run, CleanupFailure(NoError, "nothing"))
            ELSE IF canceled THEN Refuse(run, Failed)
            ELSE Goto(IF run.why = "capacity" THEN "provision" ELSE "check")
  /\ UNCHANGED <<world, held>>

(* CommandImageCapacityProvisioner grows the root partition.               *)
Provision ==
  /\ At("provision")
  /\ \/ run' = Refuse(run, Failed) /\ UNCHANGED disk
     \/ ~canceled /\ HasLayout /\ Writes("modified") /\ run' = Refuse(run, Failed)
     \/ /\ ~canceled /\ HasLayout /\ Writes("modified")
        /\ run' = [Goto("discover") EXCEPT !.retried = TRUE]
  /\ UNCHANGED <<target, foreign, private, lookalike, canceled, swaps, held>>

Check ==
  /\ At("check")
  /\ \/ run' = Refuse(run, IF canceled THEN Failed ELSE CustomizationError("check"))
     \/ /\ ~canceled /\ HasLayout
        /\ run' = LET next == [run EXCEPT !.checked = @ + 1]
                  IN  IF next.checked = Len(Partitions) THEN UnmountAll(next, "final") ELSE next
  /\ UNCHANGED <<world, held>>

(* The mount root is removed, recursively, unless a mount is still tracked.*)
RemoveRoot ==
  /\ At("remove root")
  /\ \/ /\ "root" \in held /\ run.tracked = <<>>
        /\ \/ held' = held \ {"root"} /\ run' = Goto("customized")
           \/ run' = [Goto("customized") EXCEPT !.failures = TRUE] /\ UNCHANGED held
     \/ /\ "root" \notin held \/ run.tracked # <<>>
        /\ run' = Goto("customized")
        /\ UNCHANGED held
  /\ UNCHANGED world

Customized ==
  LET error == IF canceled /\ run.inner = NoError THEN Failed ELSE run.inner
      completed == IF run.checked = Len(Partitions) THEN "check" ELSE "nothing"
      thrown == IF run.failures THEN CleanupFailure(error, completed) ELSE error
  IN  /\ At("customized")
      /\ run' = IF thrown # NoError THEN Fail(thrown)
                ELSE [Fail(NoError) EXCEPT !.recovery = "complete"]
      /\ UNCHANGED <<world, held>>

-----------------------------------------------------------------------------
(* The end of the transaction, and of the command                          *)

(* unmountDescendants again, whatever was canceled; a guardrail error does *)
(* not count if the transaction failed with one.                           *)
Unclean == [run EXCEPT !.unclean = TRUE, !.pc = "release"]

CleanupRecheck ==
  /\ At("cleanup")
  /\ \/ run' = Unclean
     \/ /\ target # "confirmed"
        /\ run' = IF run.error.source = "guardrail" /\ ~run.error.cleanup
                  THEN Goto("release") ELSE Unclean
     \/ target = "confirmed" /\ Descendants = {} /\ run' = Goto("release")
     \/ /\ target = "confirmed"
        /\ \E m \in Descendants :
             run' = IF m \in run.attempted THEN Unclean ELSE Attempt(m, "cleanup umount")
  /\ UNCHANGED <<world, held>>

CleanupUmount ==
  /\ At("cleanup umount")
  /\ MayUnmount(run.mount)
  /\ \/ run' = Unclean
     \/ run.mount \notin foreign' \cup private' /\ run' = Goto("cleanup")
  /\ UNCHANGED <<target, disk, lookalike, canceled, swaps, held>>

(* The lock is released, and the transaction throws what it collected.     *)
(* Mutant: a failing release is not an error of cleanup.                   *)
Ending(unclean) ==
  [run EXCEPT !.pc = "conclude",
              !.error = IF unclean
                        THEN CleanupFailure(@, IF run.verified THEN "verify" ELSE "nothing")
                        ELSE @]

ReleaseQuietly ==
  /\ At("release")
  /\ held' \in {held, held \ {"lock"}}
  /\ run' = Ending(run.unclean)
  /\ UNCHANGED world

Release ==
  /\ At("release")
  /\ \/ held' = held \ {"lock"} /\ run' = Ending(run.unclean)
     \/ run' = Ending(TRUE) /\ UNCHANGED held
  /\ UNCHANGED world

(* runImageWorkflow catches the error, wipes the secrets, and removes the  *)
(* workspace.                                                              *)
Conclude ==
  LET error == IF run.error = NoError /\ canceled /\ ~run.dry THEN Other ELSE run.error
      phase == PhaseForFailure(error, run.phase)
      failure == Report(phase, RecoveryFor(run.recovery, error, phase), canceled, error.cleanup)
      leftover == IF error = NoError THEN Report("cleanup", run.recovery, FALSE, TRUE)
                  ELSE [failure EXCEPT !.cleanupFailed = TRUE]
  IN  /\ At("conclude")
      /\ \/ /\ held' = held \ {"secrets", "workspace"}
            /\ run' = IF error = NoError THEN Goto("succeeded")
                      ELSE [Goto("failed") EXCEPT !.report = failure]
         \/ /\ "workspace" \in held
            /\ held' = held \ {"secrets"}
            /\ run' = [Goto("failed") EXCEPT !.report = leftover]
      /\ UNCHANGED world

Ended == run.pc \in {"succeeded", "failed"}

-----------------------------------------------------------------------------
(* The environment                                                         *)

Cancel ==
  /\ ~Ended /\ ~canceled
  /\ canceled' = TRUE
  /\ UNCHANGED <<run, target, disk, foreign, private, held, lookalike, swaps>>

(* An automounter mounts a descendant of the target.                       *)
Automount(m) ==
  /\ ~Ended /\ target = "confirmed"
  /\ foreign' = foreign \cup {m}
  /\ UNCHANGED <<run, target, disk, private, held, lookalike, canceled, swaps>>

(* The disk is unplugged; another one may take its path.                   *)
Swap ==
  /\ ~Ended /\ swaps < MaxSwaps
  /\ swaps' = swaps + 1
  /\ target' \in (Disks \cup {"gone"}) \ {target}
  /\ foreign' = {}
  /\ UNCHANGED <<run, disk, private, held, lookalike, canceled>>

Command ==
  \/ Prepare
  \/ Lock \/ Recheck \/ Umount \/ OpenWrite \/ Write \/ Verify \/ Authorize
  \/ Discover \/ CreateRoot \/ Mount \/ Adapt \/ Adapted \/ UnmountPrivate \/ Unmounted
  \/ Provision \/ Check \/ RemoveRoot \/ Customized
  \/ CleanupRecheck \/ CleanupUmount \/ Release \/ Conclude

Next == Command \/ Cancel \/ Swap \/ \E m \in Mountpoints : Automount(m)

Spec == Init /\ [][Next]_vars

(* Every operation the command waits for ends, and so does the question    *)
(* to the operator.                                                        *)
FairSpec == Spec /\ WF_vars(Command)

-----------------------------------------------------------------------------
Programs == {"prepare", "lock", "recheck", "umount", "open", "write", "verify", "authorize",
             "discover", "mount", "adapt", "adapting", "unmount all", "provision", "check",
             "remove root", "customized", "cleanup", "cleanup umount", "release",
             "conclude", "succeeded", "failed"}

Runs ==
  [pc : Programs, dry : BOOLEAN, step : 1 .. Len(Preparations), phase : Phases,
   recovery : RecoveryStates, error : Errors, verified : BOOLEAN, unclean : BOOLEAN,
   attempted : SUBSET (Mountpoints \cup {"boot", "root"}),
   mount : Mountpoints \cup {"boot", "root", "none"}, opened : SUBSET Disks,
   tracked : {<<>>, <<"boot">>, <<"root">>, <<"boot", "root">>},
   queue : {<<>>, <<"boot">>, <<"root">>, <<"root", "boot">>},
   why : {"capacity", "finish", "final"}, retried : BOOLEAN, inner : Errors,
   failures : BOOLEAN, checked : 0 .. Len(Partitions), report : Reports]

TypeOK ==
  /\ run \in Runs
  /\ target \in Disks \cup {"gone"}
  /\ disk \in [Disks -> Contents]
  /\ foreign \subseteq Mountpoints
  /\ private \subseteq {"boot", "root"}
  /\ held \subseteq Resources
  /\ {lookalike, canceled} \subseteq BOOLEAN
  /\ swaps \in 0 .. MaxSwaps

(* The disk behind the path was swapped once at most, so not away and back.*)
(* Between two rechecks the command goes by the path alone: of a disk that *)
(* came back it cannot tell what was written to the other one meanwhile.   *)
NeverSwappedBack == swaps <= 1

(* A failure never reports a target in a better state than it is: one that *)
(* is said to be unchanged has not been written, nor has any other disk;   *)
(* one said to be verified was read back; one said to be complete is       *)
(* customized, if it is still there (phaseForFailure, completedRecoveryFor *)
(* and the cleanup errors that wrap others).                               *)
ReportIsHonest ==
  At("failed") =>
    /\ run.report.recovery = "target-unchanged" => \A d \in Disks : disk[d] = "original"
    /\ NeverSwappedBack /\ run.report.recovery = "target-verified-needs-customization" =>
         disk["confirmed"] \in Verified
    /\ NeverSwappedBack /\ run.report.recovery = "complete" /\ target = "confirmed" =>
         disk["confirmed"] = "customized"

(* The command succeeds only with the confirmed disk verified, customized, *)
(* checked and unmounted, no other disk touched, and everything given back;*)
(* a dry run, only without having touched anything.                        *)
SuccessIsComplete ==
  At("succeeded") =>
    /\ held = {} /\ private = {}
    /\ run.dry => \A d \in Disks : disk[d] = "original"
    /\ ~run.dry => run.checked = Len(Partitions)
    /\ ~run.dry /\ NeverSwappedBack =>
         disk["confirmed"] = "customized" /\ disk["other"] = "original"

(* A failure that leaves a partition mounted, or a lock, a workspace or a  *)
(* mount root behind, ends with the exit code for cleanup; the secrets are *)
(* always wiped.                                                           *)
LeftoversAreReported ==
  Ended => /\ "secrets" \notin held
           /\ held # {} \/ private # {} => At("failed") /\ ExitCode(run.report) = 13

(* Nothing is done to a partition's filesystem, or to the directory it is  *)
(* mounted in, while the command has it mounted: no check or resize runs,  *)
(* and the mount root is not removed, which would erase the partition.     *)
MountsAreSpared ==
  [][At("check") \/ At("provision") \/ held \ held' = {"root"} => private = {}]_vars

(* Nothing is customized before the confirmed disk was read back and found *)
(* behind the target path again; a disk that is customized has the image's *)
(* partitions, and is that disk unless it was swapped since.               *)
OnlyVerifiedIsCustomized ==
  [][\A d \in Disks :
       disk'[d] # disk[d] /\ disk'[d] \in {"modified", "customized"} =>
         /\ run.verified /\ HasLayout
         /\ NeverSwappedBack => disk["confirmed"] \in Verified]_vars

(* The command ends, whatever fails and however often an automounter       *)
(* mounts the target again.                                                *)
Ends == <>Ended
=============================================================================
