------------------------- MODULE ImageCommand_proofs -------------------------
(***************************************************************************)
(* Proofs about one run of `create-agent image`, for any mountpoints and   *)
(* any number of swaps of the disk behind the target path.                 *)
(***************************************************************************)
EXTENDS ImageCommand, SequenceTheorems, TLAPS

(* Where the command is: before it has the lock, before it writes, writing,*)
(* at work in the customization, in its unmountAll and what follows it, at *)
(* the end of the write transaction.                                       *)
Preparing == {"prepare", "lock"}
Opening == {"recheck", "umount", "open"}
Writing == {"write", "verify", "authorize"}
Mounting == {"mount", "adapt", "adapting"}
Working == Mounting \cup {"discover", "provision", "check"}
Closing == {"unmount all", "remove root", "customized"}
Cleaning == {"cleanup", "cleanup umount", "release"}
Customization == Working \cup Closing
Over == {"succeeded", "failed"}

(* The last unmountAll was begun.                                          *)
Finally == \/ run.pc \in {"remove root", "customized"}
           \/ At("unmount all") /\ run.why = "final"

Untouched == \A d \in Disks : disk[d] = "original"
AllChecked == run.checked = Len(Partitions)

(* The lock is held from the moment it is taken to the release, and the    *)
(* mount root within the customization, unless cleanup failed.             *)
HoldsItsResources ==
  /\ run.pc \in Preparing => held \subseteq {"secrets", "workspace"}
  /\ run.pc \in Opening \cup Writing => "root" \notin held
  /\ run.pc \in Opening \cup Writing \cup Customization \cup Cleaning => "lock" \in held
  /\ At("customized") /\ ~run.failures => "root" \notin held
  /\ run.pc \in Cleaning \cup {"conclude"} /\ "root" \in held => run.error.cleanup
  /\ At("conclude") /\ "lock" \in held => run.error.cleanup

(* Every mounted partition is tracked, and those tracked are what          *)
(* unmountAll has still to unmount, unless an unmount failed.              *)
TracksMounts ==
  /\ private \subseteq ToSet(run.tracked)
  /\ run.pc \in Preparing \cup Opening \cup Writing \cup {"discover", "provision", "check"} =>
       run.tracked = <<>>
  /\ run.pc \in Preparing \cup Opening \cup Writing \cup Working => ~run.failures
  /\ At("mount") => run.tracked \in {<<>>, <<"boot">>}
  /\ At("unmount all") /\ ~run.failures => run.queue = Reverse(run.tracked)
  /\ run.pc \in {"remove root", "customized"} /\ ~run.failures => run.tracked = <<>>
  /\ run.pc \in Cleaning \cup {"conclude"} /\ run.tracked # <<>> => run.error.cleanup

(* A dry run ends with the last preparation that changes nothing.          *)
DryTouchesNothing ==
  run.dry => /\ run.pc \in {"prepare", "conclude"} \cup Over
             /\ At("prepare") => run.step <= LastDryStep
             /\ Untouched

(* A write is remembered: by the phase of a failure, or by the recovery.   *)
WritesAreRemembered ==
  \/ Untouched
  \/ /\ run.pc \notin Preparing \cup Opening
     /\ run.pc \in Writing => run.phase \in {"write", "verify"}
     /\ run.pc \in Cleaning \cup {"conclude"} =>
          \/ run.recovery # "target-unchanged"
          \/ PhaseForFailure(run.error, run.phase) \in {"write", "verify"}

(* The path leads to the confirmed disk until the first swap, and          *)
(* elsewhere after it.                                                     *)
FirstSwapLeaves ==
  /\ swaps = 0 => target = "confirmed"
  /\ swaps = 1 => target # "confirmed"

(* The recovery state, and the completed phases that errors carry, follow  *)
(* what was verified and checked.                                          *)
ProgressIsReal ==
  /\ run.recovery \in {"target-unchanged", "target-verified-needs-customization", "complete"}
  /\ run.verified <=> run.recovery # "target-unchanged"
  /\ run.pc \in Preparing \cup Opening \cup Writing => ~run.verified /\ run.error = NoError
  /\ run.pc \in Customization => run.verified
  /\ run.checked > 0 => /\ run.verified
                        /\ Finally \/ run.pc \in {"check", "conclude"} \cup Cleaning \cup Over
  /\ At("check") => run.checked < Len(Partitions)
  /\ run.recovery = "complete" => AllChecked
  /\ run.error.completed = "check" => AllChecked
  /\ run.error.completed = "verify" => run.verified
  /\ run.pc \notin {"conclude"} \cup Cleaning \cup Over => run.error.completed = "nothing"
  /\ run.inner.completed = "nothing"
  /\ run.inner # NoError => Finally \/ run.pc \in {"conclude"} \cup Cleaning \cup Over
  /\ Finally /\ run.inner = NoError => AllChecked
  /\ run.pc \in Cleaning /\ run.error = NoError => run.recovery = "complete"
  /\ At("conclude") /\ run.error = NoError => run.dry \/ run.recovery = "complete"

(* What a disk opened by the customization looks like.                     *)
HasPartitions(d) ==
  \/ disk[d] \in Verified
  \/ d = "other" /\ disk[d] = "original" /\ lookalike
OpenedHavePartitions == run.pc \in Mounting => \A d \in run.opened : HasPartitions(d)

(* What the disks hold, as long as the path still leads to the confirmed   *)
(* one; and what remains of that when it does not any more.                *)
ConfirmedIsWritten ==
  /\ run.verified /\ NeverSwappedBack => disk["confirmed"] \in Verified
  /\ swaps = 0 =>
       /\ disk["other"] = "original"
       /\ At("authorize") => disk["confirmed"] = "image"
       /\ At("check") \/ run.checked > 0 \/ (At("unmount all") /\ run.why = "finish") =>
            disk["confirmed"] = "customized"
  /\ NeverSwappedBack /\ ~run.dry /\ run.error = NoError /\
       ((At("release") /\ ~run.unclean) \/ At("conclude")) =>
       disk["confirmed"] = "customized" /\ disk["other"] = "original"

CommandInvariant ==
  /\ TypeOK
  /\ HoldsItsResources
  /\ TracksMounts
  /\ DryTouchesNothing
  /\ WritesAreRemembered
  /\ FirstSwapLeaves
  /\ ProgressIsReal
  /\ OpenedHavePartitions
  /\ ConfirmedIsWritten
  /\ ReportIsHonest /\ SuccessIsComplete /\ LeftoversAreReported

-----------------------------------------------------------------------------
(* Changes of the record `run` *)

Fields == {"pc", "dry", "step", "phase", "recovery", "error", "verified", "unclean", "attempted",
           "mount", "opened", "tracked", "queue", "why", "retried", "inner", "failures",
           "checked", "report"}

ChangesOnly(fields) ==
  run' \in Runs /\ \A f \in Fields \ fields : run'[f] = run[f]

FailsWith(error) ==
  /\ ChangesOnly({"pc", "error", "attempted", "phase"})
  /\ run'.pc = (IF "lock" \in held THEN "cleanup" ELSE "conclude")
  /\ run'.error = error

LEMMA TypeOfRun == ASSUME CommandInvariant PROVE run \in Runs
BY DEF CommandInvariant, TypeOK

LEMMA FailFields ==
  ASSUME run \in Runs, NEW error \in Errors, run' = Fail(error)
  PROVE  FailsWith(error) /\ run'.phase = run.phase
BY DEF Runs, Fail, FailsWith, Programs, ChangesOnly, Fields

LEMMA FailDuringFields ==
  ASSUME run \in Runs, NEW error \in Errors, NEW phase \in Phases, run' = During(Fail(error), phase)
  PROVE  FailsWith(error) /\ run'.phase = phase
BY DEF Runs, Fail, FailsWith, Programs, ChangesOnly, Fields, During

LEMMA GotoFields ==
  ASSUME run \in Runs, NEW pc \in Programs, run' = Goto(pc)
  PROVE  ChangesOnly({"pc"}) /\ run'.pc = pc
BY DEF Runs, Goto, ChangesOnly, Fields

LEMMA DuringFields ==
  ASSUME run \in Runs, NEW pc \in Programs, NEW phase \in Phases
  PROVE  /\ run' = During(run, phase) => ChangesOnly({"phase"}) /\ run'.phase = phase
         /\ run' = During(Goto(pc), phase) =>
              ChangesOnly({"pc", "phase"}) /\ run'.pc = pc /\ run'.phase = phase
<1>1. ASSUME run' = During(run, phase)
      PROVE  ChangesOnly({"phase"}) /\ run'.phase = phase
  BY <1>1 DEF Runs, During, ChangesOnly, Fields
<1>2. ASSUME run' = During(Goto(pc), phase)
      PROVE  ChangesOnly({"pc", "phase"}) /\ run'.pc = pc /\ run'.phase = phase
  BY <1>2 DEF Runs, Goto, During, ChangesOnly, Fields
<1> QED BY <1>1, <1>2

LEMMA AttemptFields ==
  ASSUME run \in Runs, NEW pc \in Programs, NEW m \in Mountpoints \cup {"boot", "root"},
         run' = Attempt(m, pc)
  PROVE  ChangesOnly({"pc", "attempted", "mount"}) /\ run'.pc = pc /\ run'.mount = m
BY DEF Runs, Attempt, ChangesOnly, Fields

LEMMA OpenFields ==
  ASSUME run \in Runs, NEW disks \in SUBSET Disks, NEW pc \in Programs,
         run' = [Goto(pc) EXCEPT !.opened = disks]
  PROVE  ChangesOnly({"pc", "opened"}) /\ run'.pc = pc /\ run'.opened = disks
BY DEF Runs, Goto, ChangesOnly, Fields

LEMMA CustomizingFields ==
  ASSUME run \in Runs, run' = Customizing
  PROVE  /\ ChangesOnly({"pc", "phase", "verified", "recovery"})
         /\ run'.pc = "discover" /\ run'.verified
         /\ run'.recovery = "target-verified-needs-customization"
BY DEF Runs, Goto, During, Customizing, ChangesOnly, Fields, Programs, Phases, RecoveryStates

(* Sequences of at most two partitions.                                    *)
Trackings == {<<>>, <<"boot">>, <<"root">>, <<"boot", "root">>}

LEMMA Reversed ==
  /\ Reverse(<<>>) = <<>>
  /\ Reverse(<<"boot">>) = <<"boot">>
  /\ Reverse(<<"root">>) = <<"root">>
  /\ Reverse(<<"boot", "root">>) = <<"root", "boot">>
<1>1. Reverse(<<>>) = <<>> BY DEF Reverse
<1>2. Reverse(<<"boot">>) = <<"boot">> BY DEF Reverse
<1>3. Reverse(<<"root">>) = <<"root">> BY DEF Reverse
<1>4. Reverse(<<"boot", "root">>) = <<"root", "boot">> BY DEF Reverse
<1> QED BY <1>1, <1>2, <1>3, <1>4

LEMMA Elements ==
  /\ ToSet(<<>>) = {} /\ ToSet(<<"boot">>) = {"boot"} /\ ToSet(<<"root">>) = {"root"}
  /\ ToSet(<<"boot", "root">>) = {"boot", "root"}
<1>1. ToSet(<<>>) = {} BY DEF ToSet
<1>2. ToSet(<<"boot">>) = {"boot"} BY DEF ToSet
<1>3. ToSet(<<"root">>) = {"root"} BY DEF ToSet
<1>4. ToSet(<<"boot", "root">>) = {"boot", "root"} BY DEF ToSet
<1> QED BY <1>1, <1>2, <1>3, <1>4

LEMMA BoxedAreNotEmpty == <<"boot">> # <<>> /\ <<"root">> # <<>> /\ <<"root", "boot">> # <<>>
OBVIOUS

LEMMA ReversedType ==
  ASSUME NEW s \in Trackings
  PROVE  Reverse(s) \in {<<>>, <<"boot">>, <<"root">>, <<"root", "boot">>}
BY Reversed DEF Trackings

LEMMA AppendedToOne ==
  ASSUME NEW S, NEW s \in Seq(S), NEW e \in S, Len(s) = 1,
         NEW t \in Seq(S), Len(t) = 2, t[1] = s[1], t[2] = e
  PROVE  Append(s, e) = t
OBVIOUS

LEMMA NextTracked ==
  /\ Append(<<>>, "boot") = <<"boot">> /\ Append(<<"boot">>, "root") = <<"boot", "root">>
  /\ Partitions[Len(<<>>) + 1] = "boot" /\ Partitions[Len(<<"boot">>) + 1] = "root"
<1>1. Append(<<>>, "boot") = <<"boot">> OBVIOUS
<1>2. Append(<<"boot">>, "root") = <<"boot", "root">>
  <2> DEFINE S == {"boot", "root"}
             s == <<"boot">>
             t == <<"boot", "root">>
  <2>1. s \in Seq(S) /\ Len(s) = 1 /\ s[1] = "boot"
    OBVIOUS
  <2>2. t \in Seq(S) /\ Len(t) = 2 /\ t[1] = "boot" /\ t[2] = "root"
    OBVIOUS
  <2>3. "root" \in S
    OBVIOUS
  <2> HIDE DEF s, t, S
  <2>4. Append(s, "root") = t
    BY <2>1, <2>2, <2>3, AppendedToOne
  <2> QED BY <2>4 DEF s, t
<1>3. Partitions[Len(<<>>) + 1] = "boot" BY DEF Partitions
<1>4. Partitions[Len(<<"boot">>) + 1] = "root" BY DEF Partitions
<1> QED BY <1>1, <1>2, <1>3, <1>4

LEMMA UnmountAllFields ==
  ASSUME NEW next \in Runs, NEW why \in {"capacity", "finish", "final"}
  PROVE  LET last == UnmountAll(next, why)
         IN  /\ last \in Runs /\ \A f \in Fields \ {"pc", "why", "queue"} : last[f] = next[f]
             /\ last.pc = "unmount all" /\ last.why = why /\ last.queue = Reverse(next.tracked)
<1>1. Reverse(next.tracked) \in {<<>>, <<"boot">>, <<"root">>, <<"root", "boot">>}
  BY ReversedType DEF Runs, Trackings
<1> QED BY <1>1 DEF Runs, UnmountAll, Fields, Programs

LEMMA RefuseFields ==
  ASSUME NEW next \in Runs, NEW error \in Errors
  PROVE  LET last == Refuse(next, error)
         IN  /\ last \in Runs
             /\ \A f \in Fields \ {"pc", "why", "queue", "inner"} : last[f] = next[f]
             /\ last.pc = "unmount all" /\ last.why = "final" /\ last.inner = error
             /\ last.queue = Reverse(next.tracked)
<1> DEFINE failed == [next EXCEPT !.inner = error]
<1>1. failed \in Runs /\ failed.inner = error
      /\ \A f \in Fields \ {"inner"} : failed[f] = next[f]
  BY DEF Runs, Fields
<1>2. Refuse(next, error) = UnmountAll(failed, "final")
  BY DEF Refuse
<1> HIDE DEF failed
<1>3. LET last == UnmountAll(failed, "final")
      IN  /\ last \in Runs /\ \A f \in Fields \ {"pc", "why", "queue"} : last[f] = failed[f]
          /\ last.pc = "unmount all" /\ last.why = "final"
          /\ last.queue = Reverse(failed.tracked)
  BY <1>1, UnmountAllFields
<1>4. failed.tracked = next.tracked
  BY <1>1 DEF Fields
<1>5. "inner" \in Fields \ {"pc", "why", "queue"}
  BY DEF Fields
<1> QED BY <1>1, <1>2, <1>3, <1>4, <1>5

LEMMA TrackingFields ==
  ASSUME run \in Runs, run.tracked \in {<<>>, <<"boot">>}
  PROVE  /\ Tracking \in Runs
         /\ \A f \in Fields \ {"tracked", "opened"} : Tracking[f] = run[f]
         /\ Tracking.opened = run.opened \cup ({target} \cap Disks)
         /\ Tracking.tracked = IF run.tracked = <<>> THEN <<"boot">> ELSE <<"boot", "root">>
         /\ NextPartition = IF run.tracked = <<>> THEN "boot" ELSE "root"
<1>1. /\ NextPartition = IF run.tracked = <<>> THEN "boot" ELSE "root"
      /\ Append(run.tracked, NextPartition) = IF run.tracked = <<>> THEN <<"boot">> ELSE <<"boot", "root">>
  BY NextTracked DEF NextPartition
<1> DEFINE t == Append(run.tracked, NextPartition)
<1>2. t \in {<<>>, <<"boot">>, <<"root">>, <<"boot", "root">>}
  BY <1>1
<1> HIDE DEF t
<1>3. Tracking = [run EXCEPT !.tracked = t, !.opened = @ \cup ({target} \cap Disks)]
  BY DEF Tracking, t
<1>4. t = IF run.tracked = <<>> THEN <<"boot">> ELSE <<"boot", "root">>
  BY <1>1 DEF t
<1>5. Tracking \in Runs
  BY <1>2, <1>3 DEF Runs
<1>6. \A f \in Fields \ {"tracked", "opened"} : Tracking[f] = run[f]
  BY <1>3 DEF Runs, Fields
<1>7. Tracking.opened = run.opened \cup ({target} \cap Disks) /\ Tracking.tracked = t
  BY <1>3 DEF Runs
<1> QED BY <1>1, <1>4, <1>5, <1>6, <1>7

LEMMA GrownFields ==
  ASSUME run \in Runs, run' = [Goto("discover") EXCEPT !.retried = TRUE]
  PROVE  run' \in Runs /\ run'.pc = "discover" /\ \A f \in Fields \ {"pc", "retried"} : run'[f] = run[f]
BY DEF Runs, Goto, Fields, Programs

LEMMA CheckedFields ==
  ASSUME run \in Runs, run.checked \in {0, 1}
  PROVE  LET next == [run EXCEPT !.checked = @ + 1]
         IN  /\ next \in Runs /\ \A f \in Fields \ {"checked"} : next[f] = run[f]
             /\ next.checked = run.checked + 1
<1>1. run.checked + 1 \in 0 .. Len(Partitions)
  BY DEF Partitions
<1> QED BY <1>1 DEF Runs, Fields

(* The errors of the transactions.                                         *)
LEMMA ErrorFacts ==
  /\ NoError \in Errors /\ NoError.completed = "nothing" /\ ~NoError.cleanup
  /\ \A e \in {Other, Guardrail, Rejected, CanceledWrite, Failed, CustomizationError("check"),
               WriteError("lock"), WriteError("recheck"), WriteError("write"), WriteError("verify")} :
       e \in Errors /\ e # NoError /\ e.completed = "nothing"
BY DEF NoError, Errors, Other, Guardrail, Rejected, CanceledWrite, Failed, CustomizationError,
       WriteError, Error, Sources, Phases, Destructive, CompletedPhases

LEMMA CleanupFailureFacts ==
  ASSUME NEW error \in Errors, NEW completed \in CompletedPhases
  PROVE  LET failure == CleanupFailure(error, completed)
         IN  /\ failure \in Errors /\ failure # NoError /\ failure.cleanup
             /\ failure.completed \in {error.completed, completed}
             /\ \A phase : PhaseForFailure(failure, phase) = PhaseForFailure(error, phase)
BY DEF CleanupFailure, Errors, CompletedPhases, NoError, Error, PhaseForFailure

-----------------------------------------------------------------------------
(* The write transaction *)

USE DEF At, Preparing, Opening, Writing, Mounting, Working, Closing, Cleaning,
        Customization, Over, Partitions, Disks

LEMMA NothingTracked ==
  ASSUME TracksMounts, run.tracked = <<>>
  PROVE  private = {}
BY Elements DEF TracksMounts

(* A failure before the customization.                                     *)
LEMMA FailPreserves ==
  ASSUME CommandInvariant, NEW error \in Errors, FailsWith(error),
         run.pc \in {"lock"} \cup Opening \cup Writing,
         error # NoError, error.completed = "nothing",
         disk' = disk \/ (At("write") /\ \E v \in Contents : Writes(v) /\ target # "gone"),
         Untouched' \/ PhaseForFailure(error, run'.phase) \in {"write", "verify"},
         private' \subseteq private, foreign' \subseteq Mountpoints,
         UNCHANGED <<held, target, lookalike, canceled, swaps>>
  PROVE  CommandInvariant'
<1> USE DEF FailsWith, ChangesOnly, Fields
<1>1. run.pc = "lock" <=> "lock" \notin held
  BY TypeOfRun DEF CommandInvariant, HoldsItsResources
<1>2. TypeOK'
  BY DEF CommandInvariant, TypeOK, Writes, Contents
<1>3. HoldsItsResources'
  BY <1>1 DEF CommandInvariant, HoldsItsResources
<1>4. TracksMounts'
  <2>1. run'.tracked = run.tracked /\ run.tracked = <<>>
    BY DEF CommandInvariant, TracksMounts
  <2>2. private' = {}
    BY <2>1, NothingTracked DEF CommandInvariant
  <2> QED BY <2>1, <2>2, <1>1 DEF TracksMounts
<1>5. DryTouchesNothing'
  BY DEF CommandInvariant, DryTouchesNothing
<1>6. WritesAreRemembered'
  BY DEF CommandInvariant, WritesAreRemembered
<1>7. FirstSwapLeaves' /\ OpenedHavePartitions'
  BY DEF CommandInvariant, FirstSwapLeaves, OpenedHavePartitions
<1>8. ProgressIsReal'
  BY DEF CommandInvariant, ProgressIsReal, Finally, AllChecked
<1>9. ConfirmedIsWritten'
  BY DEF CommandInvariant, ConfirmedIsWritten, ProgressIsReal, Writes, FirstSwapLeaves,
         TypeOK, NeverSwappedBack
<1>10. ReportIsHonest' /\ SuccessIsComplete' /\ LeftoversAreReported'
  BY DEF ReportIsHonest, SuccessIsComplete, LeftoversAreReported, Ended
<1> QED BY <1>2, <1>3, <1>4, <1>5, <1>6, <1>7, <1>8, <1>9, <1>10 DEF CommandInvariant

(* A step towards the first write.                                         *)
LEMMA OpeningPreserves ==
  ASSUME CommandInvariant, ChangesOnly({"pc", "attempted", "mount", "phase", "opened"}),
         run.pc \in Opening, run'.pc \in Opening \cup {"write"},
         private' \subseteq private, foreign' \subseteq Mountpoints,
         UNCHANGED <<held, disk, target, lookalike, canceled, swaps>>
  PROVE  CommandInvariant'
<1> USE DEF ChangesOnly, Fields
<1>2. TypeOK'
  BY DEF CommandInvariant, TypeOK
<1>3. HoldsItsResources'
  BY DEF CommandInvariant, HoldsItsResources
<1>4. TracksMounts'
  <2>1. run'.tracked = run.tracked /\ run.tracked = <<>>
    BY DEF CommandInvariant, TracksMounts
  <2>2. private' = {}
    BY <2>1, NothingTracked DEF CommandInvariant
  <2>3. ~run'.failures
    BY DEF CommandInvariant, TracksMounts
  <2> QED BY <2>1, <2>2, <2>3 DEF TracksMounts
<1>5. DryTouchesNothing'
  BY DEF CommandInvariant, DryTouchesNothing
<1>6. WritesAreRemembered'
  BY DEF CommandInvariant, WritesAreRemembered, Untouched
<1>7. FirstSwapLeaves' /\ OpenedHavePartitions'
  BY DEF CommandInvariant, FirstSwapLeaves, OpenedHavePartitions
<1>8. ProgressIsReal'
  BY DEF CommandInvariant, ProgressIsReal, Finally, AllChecked
<1>9. ConfirmedIsWritten'
  BY DEF CommandInvariant, ConfirmedIsWritten, ProgressIsReal, NeverSwappedBack
<1>10. ReportIsHonest' /\ SuccessIsComplete' /\ LeftoversAreReported'
  BY DEF ReportIsHonest, SuccessIsComplete, LeftoversAreReported, Ended
<1> QED BY <1>2, <1>3, <1>4, <1>5, <1>6, <1>7, <1>8, <1>9, <1>10 DEF CommandInvariant

(* The image is too large, or the lock cannot be had, or it is taken.      *)
LEMMA LockPreserves ==
  ASSUME CommandInvariant, Lock
  PROVE  CommandInvariant'
<1>1. CASE run' \in {Fail(WriteError("write")), Fail(WriteError("lock"))} /\ UNCHANGED held
  <2>1. PICK error \in {WriteError("write"), WriteError("lock")} : run' = Fail(error)
    BY <1>1
  <2>2. Untouched'
    BY DEF CommandInvariant, WritesAreRemembered, Lock, world, Untouched
  <2> QED
    BY <1>1, <2>1, <2>2, FailPreserves, FailFields, TypeOfRun, ErrorFacts
    DEF Lock, world, CommandInvariant, TypeOK
<1>2. CASE ~canceled /\ held' = held \cup {"lock"} /\ run' = Goto("recheck")
  <2> USE DEF ChangesOnly, Fields
  <2>1. ChangesOnly({"pc"}) /\ run'.pc = "recheck" /\ run.pc = "lock"
    BY <1>2, TypeOfRun, GotoFields DEF Lock, Programs
  <2>2. TypeOK'
    BY <1>2, <2>1 DEF CommandInvariant, TypeOK, Lock, world, Resources
  <2>3. HoldsItsResources'
    BY <1>2, <2>1 DEF CommandInvariant, HoldsItsResources
  <2>4. TracksMounts'
    <3>1. private' = private /\ run'.tracked = run.tracked /\ run.tracked = <<>> /\ ~run'.failures
      BY <1>2, <2>1 DEF CommandInvariant, TracksMounts, Lock, world
    <3>2. private = {}
      BY <3>1, NothingTracked DEF CommandInvariant
    <3> QED BY <2>1, <3>1, <3>2 DEF TracksMounts
  <2>5. DryTouchesNothing'
    BY <2>1 DEF CommandInvariant, DryTouchesNothing
  <2>6. WritesAreRemembered'
    BY <2>1 DEF CommandInvariant, WritesAreRemembered, Untouched, Lock, world
  <2>7. FirstSwapLeaves' /\ OpenedHavePartitions'
    BY <2>1 DEF CommandInvariant, FirstSwapLeaves, OpenedHavePartitions, Lock, world
  <2>8. ProgressIsReal'
    BY <2>1 DEF CommandInvariant, ProgressIsReal, Finally, AllChecked
  <2>9. ConfirmedIsWritten'
    BY <2>1 DEF CommandInvariant, ConfirmedIsWritten, ProgressIsReal, NeverSwappedBack, Lock, world
  <2>10. ReportIsHonest' /\ SuccessIsComplete' /\ LeftoversAreReported'
    BY <2>1 DEF ReportIsHonest, SuccessIsComplete, LeftoversAreReported, Ended
  <2> QED BY <2>2, <2>3, <2>4, <2>5, <2>6, <2>7, <2>8, <2>9, <2>10 DEF CommandInvariant
<1> QED BY <1>1, <1>2 DEF Lock

LEMMA RecheckPreserves ==
  ASSUME CommandInvariant, Recheck
  PROVE  CommandInvariant'
<1>1. /\ run \in Runs /\ run.pc = "recheck" /\ Untouched' /\ foreign' \subseteq Mountpoints
      /\ UNCHANGED <<target, disk, foreign, private, lookalike, canceled, swaps, held>>
  BY TypeOfRun DEF CommandInvariant, WritesAreRemembered, Recheck, world, Untouched, TypeOK
<1>2. ASSUME NEW error \in {CanceledWrite, Other, Guardrail, WriteError("recheck")}, run' = Fail(error)
      PROVE  CommandInvariant'
  BY <1>1, <1>2, FailPreserves, FailFields, ErrorFacts
<1>3. CASE run' = Goto("open")
  <2>1. ChangesOnly({"pc"}) /\ run'.pc = "open"
    BY <1>1, <1>3, GotoFields DEF Programs
  <2> QED BY <1>1, <2>1, OpeningPreserves DEF ChangesOnly
<1>4. ASSUME NEW m \in Descendants, run' = Attempt(m, "umount")
      PROVE  CommandInvariant'
  <2>1. m \in Mountpoints \cup {"boot", "root"}
    BY DEF Descendants, CommandInvariant, TypeOK
  <2>2. ChangesOnly({"pc", "attempted", "mount"}) /\ run'.pc = "umount"
    BY <1>1, <1>4, <2>1, AttemptFields DEF Programs
  <2> QED BY <1>1, <2>2, OpeningPreserves DEF ChangesOnly
<1> QED BY <1>2, <1>3, <1>4 DEF Recheck

LEMMA UmountPreserves ==
  ASSUME CommandInvariant, Umount
  PROVE  CommandInvariant'
<1>1. /\ run \in Runs /\ run.pc = "umount" /\ Untouched'
      /\ foreign' \subseteq Mountpoints /\ private' \subseteq private
      /\ UNCHANGED <<target, disk, lookalike, canceled, swaps, held>>
  BY TypeOfRun DEF CommandInvariant, WritesAreRemembered, Umount, MayUnmount, Untouched, TypeOK
<1>2. ASSUME NEW error \in {CanceledWrite, WriteError("recheck")}, run' = Fail(error)
      PROVE  CommandInvariant'
  BY <1>1, <1>2, FailPreserves, FailFields, ErrorFacts
<1>3. CASE run' = During(Goto("recheck"), "recheck")
  <2>1. ChangesOnly({"pc", "phase"}) /\ run'.pc = "recheck"
    BY <1>1, <1>3, DuringFields DEF Programs, Phases, Destructive
  <2> QED BY <1>1, <2>1, OpeningPreserves DEF ChangesOnly
<1> QED BY <1>2, <1>3 DEF Umount

LEMMA OpenWritePreserves ==
  ASSUME CommandInvariant, OpenWrite
  PROVE  CommandInvariant'
<1>1. /\ run \in Runs /\ run.pc = "open" /\ Untouched' /\ foreign' \subseteq Mountpoints
      /\ UNCHANGED <<target, disk, foreign, private, lookalike, canceled, swaps, held>>
  BY TypeOfRun DEF CommandInvariant, WritesAreRemembered, OpenWrite, world, Untouched, TypeOK
<1>2. CASE run' = Fail(WriteError("write"))
  BY <1>1, <1>2, FailPreserves, FailFields, ErrorFacts
<1>3. CASE target # "gone" /\ run' = [Goto("write") EXCEPT !.opened = {target}]
  <2>1. ChangesOnly({"pc", "opened"}) /\ run'.pc = "write"
    BY <1>1, <1>3, OpenFields DEF Programs, CommandInvariant, TypeOK
  <2> QED BY <1>1, <2>1, OpeningPreserves DEF ChangesOnly
<1> QED BY <1>2, <1>3 DEF OpenWrite

(* A step from the first write to the authorization of the customization.  *)
LEMMA WritingPreserves ==
  ASSUME CommandInvariant, ChangesOnly({"pc", "phase"}),
         run.pc \in Writing, run'.pc \in Writing, run'.phase \in {"write", "verify"},
         disk' = disk \/ (At("write") /\ \E v \in Contents : Writes(v) /\ target # "gone"),
         run'.pc = "authorize" /\ swaps = 0 => disk'["confirmed"] = "image",
         UNCHANGED <<held, private, foreign, target, lookalike, canceled, swaps>>
  PROVE  CommandInvariant'
<1> USE DEF ChangesOnly, Fields
<1>2. TypeOK'
  BY DEF CommandInvariant, TypeOK, Writes, Contents
<1>3. HoldsItsResources'
  BY DEF CommandInvariant, HoldsItsResources
<1>4. TracksMounts'
  <2>1. run'.tracked = run.tracked /\ run.tracked = <<>> /\ ~run'.failures
    BY DEF CommandInvariant, TracksMounts
  <2>2. private' = {}
    BY <2>1, NothingTracked DEF CommandInvariant
  <2> QED BY <2>1, <2>2 DEF TracksMounts
<1>5. DryTouchesNothing'
  BY DEF CommandInvariant, DryTouchesNothing
<1>6. WritesAreRemembered'
  BY DEF WritesAreRemembered
<1>7. FirstSwapLeaves' /\ OpenedHavePartitions'
  BY DEF CommandInvariant, FirstSwapLeaves, OpenedHavePartitions
<1>8. ProgressIsReal'
  BY DEF CommandInvariant, ProgressIsReal, Finally, AllChecked
<1>9. ConfirmedIsWritten'
  BY DEF CommandInvariant, ConfirmedIsWritten, ProgressIsReal, FirstSwapLeaves, NeverSwappedBack,
         Writes, TypeOK
<1>10. ReportIsHonest' /\ SuccessIsComplete' /\ LeftoversAreReported'
  BY DEF ReportIsHonest, SuccessIsComplete, LeftoversAreReported, Ended
<1> QED BY <1>2, <1>3, <1>4, <1>5, <1>6, <1>7, <1>8, <1>9, <1>10 DEF CommandInvariant

(* An error of the writer, alone or with one from closing a file.          *)
LEMMA WriteFailsWith ==
  ASSUME run \in Runs, WriteFails(WriteError("write"))
  PROVE  \E error \in Errors :
           /\ FailsWith(error) /\ run'.phase = run.phase
           /\ error # NoError /\ error.completed = "nothing"
           /\ \A phase : PhaseForFailure(error, phase) = "write"
<1> DEFINE e == WriteError("write")
           c == CleanupFailure(e, "nothing")
<1>1. e \in Errors /\ e # NoError /\ e.completed = "nothing"
  BY ErrorFacts
<1>2. \A phase : PhaseForFailure(e, phase) = "write"
  BY DEF PhaseForFailure, WriteError, Error
<1>3. c \in Errors /\ c # NoError /\ c.completed = "nothing"
      /\ \A phase : PhaseForFailure(c, phase) = PhaseForFailure(e, phase)
  BY <1>1, CleanupFailureFacts DEF CompletedPhases
<1>4. run' = Fail(e) \/ run' = Fail(c)
  BY DEF WriteFails
<1> HIDE DEF e, c
<1> QED BY <1>1, <1>2, <1>3, <1>4, FailFields

LEMMA WritePreserves ==
  ASSUME CommandInvariant, Write
  PROVE  CommandInvariant'
<1>1. /\ run \in Runs /\ run.pc = "write" /\ foreign' \subseteq Mountpoints
      /\ UNCHANGED <<target, foreign, private, lookalike, canceled, swaps, held>>
      /\ target \in run.opened => target # "gone"
  BY TypeOfRun DEF CommandInvariant, Write, TypeOK, Runs
<1>2. ASSUME WriteFails(WriteError("write")), disk' = disk \/ (Reachable /\ Writes("partial"))
      PROVE  CommandInvariant'
  <2>1. disk' = disk \/ \E v \in Contents : Writes(v) /\ target # "gone"
    BY <1>1, <1>2 DEF Reachable, Contents
  <2> QED BY <1>1, <1>2, <2>1, WriteFailsWith, FailPreserves
<1>3. ASSUME NEW v \in {"partial", "image"}, Reachable, Writes(v),
             run' = During(run, "write") \/ run' = During(Goto("verify"), "write")
      PROVE  CommandInvariant'
  <2>1. ChangesOnly({"pc", "phase"}) /\ run'.pc \in {"write", "verify"} /\ run'.phase = "write"
    BY <1>1, <1>3, DuringFields DEF Programs, Phases, Destructive, ChangesOnly, Fields
  <2>2. \E w \in Contents : Writes(w) /\ target # "gone"
    BY <1>1, <1>3 DEF Reachable, Contents
  <2> QED BY <1>1, <2>1, <2>2, WritingPreserves
<1> QED BY <1>2, <1>3 DEF Write

LEMMA VerifyPreserves ==
  ASSUME CommandInvariant, Verify
  PROVE  CommandInvariant'
<1>1. /\ run \in Runs /\ run.pc = "verify" /\ foreign' \subseteq Mountpoints
      /\ UNCHANGED <<target, disk, foreign, private, lookalike, canceled, swaps, held>>
  BY TypeOfRun DEF CommandInvariant, Verify, TypeOK, world
<1>2. CASE WriteFails(WriteError("write"))
  BY <1>1, <1>2, WriteFailsWith, FailPreserves
<1>3. CASE run' = Fail(WriteError("verify")) \/ run' = During(Fail(WriteError("verify")), "verify")
  <2>1. FailsWith(WriteError("verify"))
    BY <1>1, <1>3, FailFields, FailDuringFields, ErrorFacts DEF Phases, Destructive
  <2>2. \A phase : PhaseForFailure(WriteError("verify"), phase) = "verify"
    BY DEF PhaseForFailure, WriteError, Error
  <2> QED BY <1>1, <2>1, <2>2, ErrorFacts, FailPreserves
<1>4. CASE /\ target # "gone" /\ disk[target] = "image"
           /\ run' = During(Goto("authorize"), "verify")
  <2>1. ChangesOnly({"pc", "phase"}) /\ run'.pc = "authorize" /\ run'.phase = "verify"
    BY <1>1, <1>4, DuringFields DEF Programs, Phases, Destructive
  <2>2. swaps = 0 => disk'["confirmed"] = "image"
    BY <1>1, <1>4 DEF CommandInvariant, FirstSwapLeaves
  <2> QED BY <1>1, <2>1, <2>2, WritingPreserves
<1> QED BY <1>2, <1>3, <1>4 DEF Verify

LEMMA AuthorizePreserves ==
  ASSUME CommandInvariant, Authorize
  PROVE  CommandInvariant'
<1>1. /\ run \in Runs /\ run.pc = "authorize" /\ foreign' \subseteq Mountpoints
      /\ UNCHANGED <<target, disk, foreign, private, lookalike, canceled, swaps, held>>
  BY TypeOfRun DEF CommandInvariant, Authorize, TypeOK, world
<1>2. ASSUME NEW error \in {CanceledWrite, Other, Guardrail}, run' = Fail(error)
      PROVE  CommandInvariant'
  <2>1. FailsWith(error) /\ run'.phase = run.phase
    BY <1>1, <1>2, FailFields, ErrorFacts
  <2>2. Untouched' \/ run.phase \in {"write", "verify"}
    BY <1>1 DEF CommandInvariant, WritesAreRemembered, Untouched
  <2>3. run.phase \in {"write", "verify"} => PhaseForFailure(error, run.phase) \in {"write", "verify"}
    BY <1>2 DEF PhaseForFailure, CanceledWrite, WriteError, Other, Guardrail, Error, Destructive
  <2> QED BY <1>1, <2>1, <2>2, <2>3, FailPreserves, ErrorFacts
<1>3. CASE target = "confirmed" /\ run' = Customizing
  <2> USE DEF ChangesOnly, Fields
  <2>1. /\ ChangesOnly({"pc", "phase", "verified", "recovery"})
        /\ run'.pc = "discover" /\ run'.verified
        /\ run'.recovery = "target-verified-needs-customization"
    BY <1>1, <1>3, CustomizingFields
  <2>2. TypeOK'
    BY <1>1, <2>1 DEF CommandInvariant, TypeOK
  <2>3. HoldsItsResources'
    BY <1>1, <2>1 DEF CommandInvariant, HoldsItsResources
  <2>4. TracksMounts'
    <3>1. private' = private /\ run'.tracked = run.tracked /\ run.tracked = <<>> /\ ~run'.failures
      BY <1>1, <2>1 DEF CommandInvariant, TracksMounts
    <3>2. private = {}
      BY <3>1, NothingTracked DEF CommandInvariant
    <3> QED BY <2>1, <3>1, <3>2 DEF TracksMounts
  <2>5. DryTouchesNothing'
    BY <1>1, <2>1 DEF CommandInvariant, DryTouchesNothing
  <2>6. WritesAreRemembered'
    BY <2>1 DEF WritesAreRemembered
  <2>7. FirstSwapLeaves' /\ OpenedHavePartitions'
    BY <1>1, <2>1 DEF CommandInvariant, FirstSwapLeaves, OpenedHavePartitions
  <2>8. ProgressIsReal'
    BY <1>1, <2>1 DEF CommandInvariant, ProgressIsReal, Finally, AllChecked
  <2>9. ConfirmedIsWritten'
    BY <1>1, <1>3, <2>1 DEF CommandInvariant, ConfirmedIsWritten, ProgressIsReal, FirstSwapLeaves,
           NeverSwappedBack, Verified, TypeOK
  <2>10. ReportIsHonest' /\ SuccessIsComplete' /\ LeftoversAreReported'
    BY <2>1 DEF ReportIsHonest, SuccessIsComplete, LeftoversAreReported, Ended
  <2> QED BY <2>2, <2>3, <2>4, <2>5, <2>6, <2>7, <2>8, <2>9, <2>10 DEF CommandInvariant
<1> QED BY <1>2, <1>3 DEF Authorize

-----------------------------------------------------------------------------
(* The customization *)

(* Whatever fails, it goes to its last unmountAll.                         *)
LEMMA RefusePreserves ==
  ASSUME CommandInvariant, ChangesOnly({"pc", "inner", "why", "queue", "tracked", "opened"}),
         run.pc \in Working \cup {"unmount all"}, run'.pc = "unmount all", run'.why = "final",
         run'.inner # NoError, run'.inner.completed = "nothing",
         run'.queue = Reverse(run'.tracked),
         private' \subseteq {"boot", "root"}, private' \subseteq ToSet(run'.tracked),
         \/ disk' = disk
         \/ /\ run.pc \in {"adapting", "provision"} /\ target # "gone"
            /\ \E v \in {"modified", "customized"} : Writes(v),
         UNCHANGED <<held, foreign, target, lookalike, canceled, swaps>>
  PROVE  CommandInvariant'
<1> USE DEF ChangesOnly, Fields
<1>2. TypeOK'
  BY DEF CommandInvariant, TypeOK, Writes, Contents
<1>3. HoldsItsResources'
  BY DEF CommandInvariant, HoldsItsResources
<1>4. TracksMounts'
  BY DEF TracksMounts
<1>5. DryTouchesNothing'
  BY DEF CommandInvariant, DryTouchesNothing
<1>6. WritesAreRemembered'
  BY DEF WritesAreRemembered
<1>7. FirstSwapLeaves' /\ OpenedHavePartitions'
  BY DEF CommandInvariant, FirstSwapLeaves, OpenedHavePartitions
<1>8. ProgressIsReal'
  <2>1. /\ run'.recovery = run.recovery /\ run'.verified = run.verified
        /\ run'.error = run.error /\ run'.checked = run.checked
    OBVIOUS
  <2>2. Finally'
    BY DEF Finally
  <2>3. run.verified /\ run.error.completed = "nothing"
    BY DEF CommandInvariant, ProgressIsReal
  <2> QED BY <2>1, <2>2, <2>3 DEF CommandInvariant, ProgressIsReal, AllChecked
<1>9. ConfirmedIsWritten'
  BY DEF CommandInvariant, ConfirmedIsWritten, ProgressIsReal, FirstSwapLeaves, NeverSwappedBack,
         Writes, TypeOK, Verified, Finally
<1>10. ReportIsHonest' /\ SuccessIsComplete' /\ LeftoversAreReported'
  BY DEF ReportIsHonest, SuccessIsComplete, LeftoversAreReported, Ended
<1> QED BY <1>2, <1>3, <1>4, <1>5, <1>6, <1>7, <1>8, <1>9, <1>10 DEF CommandInvariant

(* A step of the work between two calls of unmountAll.                     *)
LEMMA WorkingPreserves ==
  ASSUME CommandInvariant, ChangesOnly({"pc", "opened", "tracked", "retried", "checked"}),
         run.pc \in Working, run'.pc \in Working,
         held' = held \/ held' = held \cup {"root"},
         run'.pc \in {"discover", "provision", "check"} => run'.tracked = <<>>,
         run'.pc = "mount" => run'.tracked \in {<<>>, <<"boot">>},
         private' \subseteq {"boot", "root"}, private' \subseteq ToSet(run'.tracked),
         run'.pc \in Mounting => disk' = disk /\ \A d \in run'.opened : HasPartitions(d),
         run'.checked # run.checked => run'.pc = "check" /\ run'.checked < Len(Partitions),
         run'.pc = "check" <=> run.pc = "check",
         disk' = disk \/ (At("provision") /\ Writes("modified") /\ target # "gone"),
         UNCHANGED <<foreign, target, lookalike, canceled, swaps>>
  PROVE  CommandInvariant'
<1> USE DEF ChangesOnly, Fields
<1>2. TypeOK'
  BY DEF CommandInvariant, TypeOK, Writes, Contents, Resources
<1>3. HoldsItsResources'
  BY DEF CommandInvariant, HoldsItsResources
<1>4. TracksMounts'
  BY DEF CommandInvariant, TracksMounts
<1>5. DryTouchesNothing'
  BY DEF CommandInvariant, DryTouchesNothing
<1>6. WritesAreRemembered'
  BY DEF WritesAreRemembered
<1>7. FirstSwapLeaves'
  BY DEF CommandInvariant, FirstSwapLeaves
<1>8. ProgressIsReal'
  <2>1. /\ run'.recovery = run.recovery /\ run'.verified = run.verified
        /\ run'.error = run.error /\ run'.inner = run.inner
    OBVIOUS
  <2>2. ~Finally /\ ~Finally'
    BY DEF Finally
  <2>3. /\ run.verified /\ run.recovery = "target-verified-needs-customization"
        /\ run.error.completed = "nothing" /\ run.inner = NoError
    <3>1. run.checked \in 0 .. 2 /\ Len(Partitions) = 2
      BY TypeOfRun DEF Runs
    <3>2. CASE run.pc = "check"
      <4>1. run.checked < 2
        BY <3>1, <3>2 DEF CommandInvariant, ProgressIsReal
      <4> QED BY <2>2, <3>1, <3>2, <4>1 DEF CommandInvariant, ProgressIsReal, AllChecked
    <3>3. CASE run.pc # "check"
      <4>1. ~(run.checked > 0)
        BY <2>2, <3>3 DEF CommandInvariant, ProgressIsReal
      <4>2. ~AllChecked
        BY <3>1, <4>1 DEF AllChecked
      <4> QED BY <2>2, <3>3, <4>2 DEF CommandInvariant, ProgressIsReal
    <3> QED BY <3>2, <3>3
  <2>4. CASE run.pc = "check"
    BY <2>1, <2>2, <2>3, <2>4 DEF CommandInvariant, ProgressIsReal
  <2>5. CASE run.pc # "check"
    BY <2>1, <2>2, <2>3, <2>5 DEF CommandInvariant, ProgressIsReal
  <2> QED BY <2>4, <2>5
<1>9. ConfirmedIsWritten'
  BY DEF CommandInvariant, ConfirmedIsWritten, ProgressIsReal, FirstSwapLeaves, NeverSwappedBack,
         Writes, TypeOK, Verified, Finally
<1>10. OpenedHavePartitions'
  BY DEF OpenedHavePartitions, HasPartitions
<1>11. ReportIsHonest' /\ SuccessIsComplete' /\ LeftoversAreReported'
  BY DEF ReportIsHonest, SuccessIsComplete, LeftoversAreReported, Ended
<1> QED BY <1>2, <1>3, <1>4, <1>5, <1>6, <1>7, <1>8, <1>9, <1>10, <1>11 DEF CommandInvariant

LEMMA RefusedPreserves ==
  ASSUME CommandInvariant, NEW error \in Errors, run' = Refuse(run, error),
         error # NoError, error.completed = "nothing",
         run.pc \in Working \cup {"unmount all"},
         \/ disk' = disk
         \/ /\ run.pc \in {"adapting", "provision"} /\ target # "gone"
            /\ \E v \in {"modified", "customized"} : Writes(v),
         UNCHANGED <<held, foreign, private, target, lookalike, canceled, swaps>>
  PROVE  CommandInvariant'
<1>1. /\ run' \in Runs
      /\ \A f \in Fields \ {"pc", "why", "queue", "inner"} : run'[f] = run[f]
      /\ run'.pc = "unmount all" /\ run'.why = "final" /\ run'.inner = error
      /\ run'.queue = Reverse(run.tracked)
  BY TypeOfRun, RefuseFields
<1>2. run'.tracked = run.tracked
  BY <1>1 DEF Fields
<1>3. ChangesOnly({"pc", "inner", "why", "queue", "tracked", "opened"})
  BY <1>1 DEF ChangesOnly
<1>4. private' \subseteq {"boot", "root"} /\ private' \subseteq ToSet(run'.tracked)
  BY <1>2 DEF CommandInvariant, TypeOK, TracksMounts
<1> QED BY <1>1, <1>2, <1>3, <1>4, RefusePreserves

LEMMA DiscoverPreserves ==
  ASSUME CommandInvariant, Discover
  PROVE  CommandInvariant'
<1>1. /\ run.pc = "discover"
      /\ UNCHANGED <<disk, held, foreign, private, target, lookalike, canceled, swaps>>
  BY DEF Discover, world
<1>2. CASE run' = Refuse(run, Failed)
  BY <1>1, <1>2, RefusedPreserves, ErrorFacts
<1>3. CASE run' = [Goto("mount") EXCEPT !.opened = {}]
  <2>1. ChangesOnly({"pc", "opened"}) /\ run'.pc = "mount" /\ run'.opened = {}
    BY <1>3, TypeOfRun, OpenFields DEF Programs
  <2>2. run'.tracked = <<>> /\ run'.checked = run.checked
    BY <1>1, <2>1 DEF ChangesOnly, Fields, CommandInvariant, TracksMounts
  <2>3. private' = {}
    BY <1>1, NothingTracked DEF CommandInvariant, TracksMounts
  <2>4. ChangesOnly({"pc", "opened", "tracked", "retried", "checked"})
    BY <2>1 DEF ChangesOnly
  <2> QED BY <1>1, <2>1, <2>2, <2>3, <2>4, WorkingPreserves
<1> QED BY <1>2, <1>3 DEF Discover

LEMMA CreateRootPreserves ==
  ASSUME CommandInvariant, CreateRoot
  PROVE  CommandInvariant'
<1>1. /\ run.pc = "mount"
      /\ UNCHANGED <<disk, foreign, private, target, lookalike, canceled, swaps>>
  BY DEF CreateRoot, world
<1>2. CASE run' = Refuse(run, Failed) /\ UNCHANGED held
  BY <1>1, <1>2, RefusedPreserves, ErrorFacts
<1>3. CASE held' = held \cup {"root"} /\ UNCHANGED run
  <2>1. ChangesOnly({"pc", "opened", "tracked", "retried", "checked"})
    BY <1>3, TypeOfRun DEF ChangesOnly
  <2>2. /\ run'.tracked \in {<<>>, <<"boot">>} /\ \A d \in run'.opened : HasPartitions(d)
        /\ private' \subseteq {"boot", "root"} /\ private' \subseteq ToSet(run'.tracked)
    BY <1>1, <1>3 DEF CommandInvariant, TracksMounts, OpenedHavePartitions, TypeOK
  <2> QED BY <1>1, <1>3, <2>1, <2>2, WorkingPreserves
<1> QED BY <1>2, <1>3 DEF CreateRoot

LEMMA AdaptPreserves ==
  ASSUME CommandInvariant, Adapt
  PROVE  CommandInvariant'
<1>1. /\ run.pc = "adapt"
      /\ UNCHANGED <<disk, held, foreign, private, target, lookalike, canceled, swaps>>
  BY DEF Adapt, world
<1>2. CASE run' = Refuse(run, Failed)
  BY <1>1, <1>2, RefusedPreserves, ErrorFacts
<1>3. CASE run' = Goto("adapting")
  <2>1. ChangesOnly({"pc"}) /\ run'.pc = "adapting"
    BY <1>3, TypeOfRun, GotoFields DEF Programs
  <2>2. /\ run'.tracked = run.tracked /\ run'.opened = run.opened
        /\ ChangesOnly({"pc", "opened", "tracked", "retried", "checked"})
        /\ run'.checked = run.checked
    BY <2>1 DEF ChangesOnly, Fields
  <2>3. /\ \A d \in run'.opened : HasPartitions(d)
        /\ private' \subseteq {"boot", "root"} /\ private' \subseteq ToSet(run'.tracked)
    BY <1>1, <2>2 DEF CommandInvariant, TracksMounts, OpenedHavePartitions, TypeOK
  <2> QED BY <1>1, <2>1, <2>2, <2>3, WorkingPreserves
<1> QED BY <1>2, <1>3 DEF Adapt

LEMMA MountPreserves ==
  ASSUME CommandInvariant, Mount
  PROVE  CommandInvariant'
<1>1. /\ run.pc = "mount" /\ run \in Runs
      /\ UNCHANGED <<disk, held, foreign, target, lookalike, canceled, swaps>>
  BY TypeOfRun DEF Mount
<1>2. /\ run.tracked \in {<<>>, <<"boot">>} /\ private \subseteq ToSet(run.tracked)
      /\ \A d \in run.opened : HasPartitions(d)
  BY <1>1 DEF CommandInvariant, TracksMounts, OpenedHavePartitions
<1>3. /\ Tracking \in Runs
      /\ \A f \in Fields \ {"tracked", "opened"} : Tracking[f] = run[f]
      /\ Tracking.opened = run.opened \cup ({target} \cap Disks)
      /\ Tracking.tracked = IF run.tracked = <<>> THEN <<"boot">> ELSE <<"boot", "root">>
      /\ NextPartition = IF run.tracked = <<>> THEN "boot" ELSE "root"
  BY <1>1, <1>2, TrackingFields
<1>4. /\ private \subseteq ToSet(Tracking.tracked)
      /\ private \cup {NextPartition} \subseteq ToSet(Tracking.tracked)
      /\ private \cup {NextPartition} \subseteq {"boot", "root"}
  BY <1>2, <1>3, Elements
<1>5. CASE run' = Refuse(run, Failed) /\ UNCHANGED private
  BY <1>1, <1>5, RefusedPreserves, ErrorFacts
<1>6. CASE run' = Refuse(Tracking, Failed) /\ private' \in {private, private \cup {NextPartition}}
  <2>1. /\ run' \in Runs
        /\ \A f \in Fields \ {"pc", "why", "queue", "inner"} : run'[f] = Tracking[f]
        /\ run'.pc = "unmount all" /\ run'.why = "final" /\ run'.inner = Failed
        /\ run'.queue = Reverse(Tracking.tracked)
    <3>1. Tracking \in Runs /\ Failed \in Errors /\ run' = Refuse(Tracking, Failed)
      BY <1>3, <1>6, ErrorFacts
    <3> QED BY <3>1, RefuseFields
  <2>2. run'.tracked = Tracking.tracked
    BY <2>1 DEF Fields
  <2>3. ChangesOnly({"pc", "inner", "why", "queue", "tracked", "opened"})
    BY <1>3, <2>1 DEF ChangesOnly
  <2>4. private' \subseteq {"boot", "root"} /\ private' \subseteq ToSet(run'.tracked)
    BY <1>4, <1>6, <2>2
  <2> QED BY <1>1, <2>1, <2>2, <2>3, <2>4, RefusePreserves, ErrorFacts
<1>7. CASE HasLayout /\ private' = private \cup {NextPartition} /\ run' = Mounted(Tracking)
  <2>1. /\ run' \in Runs /\ run'.pc \in {"mount", "adapt"}
        /\ run'.tracked = Tracking.tracked /\ run'.opened = Tracking.opened
        /\ \A f \in Fields \ {"pc", "tracked", "opened"} : run'[f] = run[f]
        /\ run'.pc = "mount" => run'.tracked = <<"boot">>
    <3>1. CASE run.tracked = <<>>
      <4>1. Tracking.tracked = <<"boot">>
        BY <1>3, <3>1
      <4>2. Len(Tracking.tracked) # Len(Partitions)
        BY <4>1
      <4>3. run' = Tracking
        BY <1>7, <4>2 DEF Mounted
      <4> QED BY <1>1, <1>3, <4>1, <4>3 DEF Fields
    <3>2. CASE run.tracked = <<"boot">>
      <4>1. Tracking.tracked = <<"boot", "root">>
        BY <1>3, <3>2
      <4>2. Len(Tracking.tracked) = Len(Partitions)
        BY <4>1
      <4>3. run' = [Tracking EXCEPT !.pc = "adapt"]
        BY <1>7, <4>2 DEF Mounted
      <4> DEFINE next == Tracking
      <4>4. next \in Runs /\ \A f \in Fields \ {"tracked", "opened"} : next[f] = run[f]
        BY <1>3
      <4> HIDE DEF next
      <4>5. LET last == [next EXCEPT !.pc = "adapt"]
            IN  last \in Runs /\ last.pc = "adapt" /\ \A f \in Fields \ {"pc"} : last[f] = next[f]
        BY <4>4 DEF Runs, Programs, Fields
      <4> QED BY <4>3, <4>4, <4>5 DEF Fields, next
    <3> QED BY <1>2, <3>1, <3>2
  <2>2. \A d \in run'.opened : HasPartitions(d)
    BY <1>2, <1>3, <1>7, <2>1 DEF HasLayout, HasPartitions
  <2>3. /\ ChangesOnly({"pc", "opened", "tracked", "retried", "checked"})
        /\ run'.checked = run.checked
    BY <2>1 DEF ChangesOnly, Fields
  <2>4. private' \subseteq {"boot", "root"} /\ private' \subseteq ToSet(run'.tracked)
    BY <1>4, <1>7, <2>1
  <2> QED BY <1>1, <2>1, <2>2, <2>3, <2>4, WorkingPreserves
<1> QED BY <1>5, <1>6, <1>7 DEF Mount

LEMMA CountIsZero == \A n \in 0 .. 2 : ~(n > 0) => n = 0
OBVIOUS

LEMMA PartitionCount == 0 < Len(Partitions)
<1>1. Len(Partitions) = 2
  OBVIOUS
<1> QED BY <1>1

LEMMA TwoIsPositive == \A n : n = 2 => n > 0
OBVIOUS

(* The work is done, or waits for the disk to grow: unmountAll.            *)
LEMMA UnmountAllPreserves ==
  ASSUME CommandInvariant, ChangesOnly({"pc", "why", "queue", "checked"}),
         run'.pc = "unmount all", run'.queue = Reverse(run.tracked),
         \/ /\ At("adapting") /\ run'.checked = run.checked
            /\ \/ run'.why = "capacity" /\ disk' = disk
               \/ run'.why = "finish" /\ Writes("customized") /\ target # "gone"
         \/ /\ At("check") /\ run'.checked = 2
            /\ run'.why = "final" /\ disk' = disk,
         UNCHANGED <<held, private, foreign, target, lookalike, canceled, swaps>>
  PROVE  CommandInvariant'
<1> USE DEF ChangesOnly, Fields
<1>1. run'.tracked = run.tracked /\ run.pc \in Working /\ run'.failures = run.failures
  OBVIOUS
<1>2. TypeOK'
  BY DEF CommandInvariant, TypeOK, Writes, Contents
<1>3. HoldsItsResources'
  BY <1>1 DEF CommandInvariant, HoldsItsResources
<1>4. TracksMounts'
  BY <1>1 DEF CommandInvariant, TracksMounts
<1>5. DryTouchesNothing'
  BY DEF CommandInvariant, DryTouchesNothing
<1>6. WritesAreRemembered'
  BY DEF WritesAreRemembered
<1>7. FirstSwapLeaves' /\ OpenedHavePartitions'
  BY DEF CommandInvariant, FirstSwapLeaves, OpenedHavePartitions
<1>8. ProgressIsReal' /\ (run'.checked > 0 => At("check"))
  <2>1. /\ run'.recovery = run.recovery /\ run'.verified = run.verified
        /\ run'.error = run.error /\ run'.inner = run.inner
    OBVIOUS
  <2>2. /\ run.verified /\ run.error.completed = "nothing" /\ run.inner = NoError /\ ~Finally
    BY <1>1 DEF CommandInvariant, ProgressIsReal, Finally
  <2>3. CASE At("check")
    <3>1. run'.checked = 2 /\ run'.why = "final"
      BY <2>3
    <3>2. Len(Partitions) = 2
      OBVIOUS
    <3>3. run'.checked = Len(Partitions)
      BY <3>1, <3>2
    <3>4. run'.checked > 0
      BY <3>1, TwoIsPositive
    <3>5. Finally'
      BY <3>1 DEF Finally
    <3> QED BY <2>1, <2>2, <2>3, <3>3, <3>4, <3>5 DEF CommandInvariant, ProgressIsReal, AllChecked
  <2>4. CASE At("adapting")
    <3>1. run'.checked = run.checked /\ ~Finally' /\ ~(run.checked > 0)
      BY <2>2, <2>4 DEF Finally, CommandInvariant, ProgressIsReal
    <3> QED BY <2>1, <2>2, <2>4, <3>1 DEF CommandInvariant, ProgressIsReal, AllChecked
  <2> QED BY <2>3, <2>4
<1>9. ConfirmedIsWritten'
  BY <1>8 DEF CommandInvariant, ConfirmedIsWritten, ProgressIsReal, FirstSwapLeaves, NeverSwappedBack,
         Writes, TypeOK, Verified
<1>10. ReportIsHonest' /\ SuccessIsComplete' /\ LeftoversAreReported'
  BY DEF ReportIsHonest, SuccessIsComplete, LeftoversAreReported, Ended
<1> QED BY <1>2, <1>3, <1>4, <1>5, <1>6, <1>7, <1>8, <1>9, <1>10 DEF CommandInvariant

LEMMA AdaptedPreserves ==
  ASSUME CommandInvariant, Adapted
  PROVE  CommandInvariant'
<1>1. /\ run.pc = "adapting" /\ run \in Runs
      /\ UNCHANGED <<held, foreign, private, target, lookalike, canceled, swaps>>
      /\ run.opened \subseteq Disks
  BY TypeOfRun DEF Adapted, Runs
<1>2. ASSUME run' = Refuse(run, Failed),
             disk' = disk \/ \E v \in {"modified", "customized"} : Writes(v) /\ target # "gone"
      PROVE  CommandInvariant'
  BY <1>1, <1>2, RefusedPreserves, ErrorFacts
<1>3. ASSUME NEW why \in {"capacity", "finish"}, run' = UnmountAll(run, why),
             \/ why = "capacity" /\ disk' = disk
             \/ why = "finish" /\ Writes("customized") /\ target # "gone"
      PROVE  CommandInvariant'
  <2>1. /\ run' \in Runs /\ \A f \in Fields \ {"pc", "why", "queue"} : run'[f] = run[f]
        /\ run'.pc = "unmount all" /\ run'.why = why /\ run'.queue = Reverse(run.tracked)
    <3>1. run' = UnmountAll(run, why) /\ run \in Runs /\ why \in {"capacity", "finish", "final"}
      BY <1>1, <1>3
    <3> QED BY <3>1, UnmountAllFields
  <2>2. ChangesOnly({"pc", "why", "queue", "checked"}) /\ run'.checked = run.checked
    BY <2>1 DEF ChangesOnly, Fields
  <2> QED BY <1>1, <1>3, <2>1, <2>2, UnmountAllPreserves
<1>4. Reachable \/ run.opened = {target} => target # "gone"
  BY <1>1 DEF Reachable
<1> QED BY <1>2, <1>3, <1>4 DEF Adapted

LEMMA ProvisionPreserves ==
  ASSUME CommandInvariant, Provision
  PROVE  CommandInvariant'
<1>1. /\ run.pc = "provision" /\ run \in Runs
      /\ UNCHANGED <<held, foreign, private, target, lookalike, canceled, swaps>>
      /\ HasLayout => target # "gone"
  BY TypeOfRun DEF Provision, HasLayout
<1>2. ASSUME run' = Refuse(run, Failed), disk' = disk \/ (Writes("modified") /\ target # "gone")
      PROVE  CommandInvariant'
  BY <1>1, <1>2, RefusedPreserves, ErrorFacts
<1>3. CASE HasLayout /\ Writes("modified") /\ run' = [Goto("discover") EXCEPT !.retried = TRUE]
  <2>1. run' \in Runs /\ run'.pc = "discover" /\ \A f \in Fields \ {"pc", "retried"} : run'[f] = run[f]
    BY <1>1, <1>3, GrownFields
  <2>2. /\ ChangesOnly({"pc", "opened", "tracked", "retried", "checked"})
        /\ run'.checked = run.checked /\ run'.tracked = run.tracked
    BY <2>1 DEF ChangesOnly, Fields
  <2>3. run'.tracked = <<>> /\ private' = {}
    BY <1>1, <2>2, NothingTracked DEF CommandInvariant, TracksMounts
  <2> QED BY <1>1, <1>3, <2>1, <2>2, <2>3, WorkingPreserves
<1> QED BY <1>1, <1>2, <1>3 DEF Provision

LEMMA CheckPreserves ==
  ASSUME CommandInvariant, Check
  PROVE  CommandInvariant'
<1>1. /\ run.pc = "check" /\ run \in Runs
      /\ UNCHANGED <<disk, held, foreign, private, target, lookalike, canceled, swaps>>
      /\ run.tracked = <<>> /\ private' = {}
  BY TypeOfRun, NothingTracked DEF Check, world, CommandInvariant, TracksMounts
<1>2. ASSUME NEW error \in {Failed, CustomizationError("check")}, run' = Refuse(run, error)
      PROVE  CommandInvariant'
  BY <1>1, <1>2, RefusedPreserves, ErrorFacts
<1> DEFINE next == [run EXCEPT !.checked = @ + 1]
<1>3. /\ next \in Runs /\ \A f \in Fields \ {"checked"} : next[f] = run[f]
      /\ next.checked = run.checked + 1 /\ next.checked \in {1, 2}
  <2>1. run.checked \in {0, 1}
    <3>1. run.checked \in 0 .. 2 /\ Len(Partitions) = 2
      BY <1>1 DEF Runs
    <3>2. run.checked < Len(Partitions)
      BY <1>1 DEF CommandInvariant, ProgressIsReal
    <3> QED BY <3>1, <3>2
  <2> QED BY <1>1, <2>1, CheckedFields
<1> HIDE DEF next
<1>4. CASE next.checked = 2 /\ run' = UnmountAll(next, "final")
  <2>1. /\ run' \in Runs /\ \A f \in Fields \ {"pc", "why", "queue"} : run'[f] = next[f]
        /\ run'.pc = "unmount all" /\ run'.why = "final" /\ run'.queue = Reverse(next.tracked)
    BY <1>3, <1>4, UnmountAllFields
  <2>2. ChangesOnly({"pc", "why", "queue", "checked"}) /\ run'.checked = 2 /\ next.tracked = run.tracked
    BY <1>3, <1>4, <2>1 DEF ChangesOnly, Fields
  <2> QED BY <1>1, <2>1, <2>2, UnmountAllPreserves
<1>5. CASE next.checked # 2 /\ run' = next
  <2>1. /\ ChangesOnly({"pc", "opened", "tracked", "retried", "checked"})
        /\ run'.checked = 1 /\ run'.tracked = run.tracked /\ run'.pc = "check"
    BY <1>1, <1>3, <1>5 DEF ChangesOnly, Fields
  <2>2. run'.checked < Len(Partitions)
    BY <2>1
  <2> QED BY <1>1, <2>1, <2>2, WorkingPreserves
<1>6. \/ \E error \in {Failed, CustomizationError("check")} : run' = Refuse(run, error)
      \/ run' = IF next.checked = Len(Partitions) THEN UnmountAll(next, "final") ELSE next
  BY DEF Check, next
<1>7. Len(Partitions) = 2
  OBVIOUS
<1> QED BY <1>2, <1>4, <1>5, <1>6, <1>7

(* What is left of at most two partitions when one is unmounted.           *)
LEMMA Singleton ==
  ASSUME NEW S, NEW s \in Seq(S), Len(s) = 1
  PROVE  s = <<s[1]>>
<1>1. s[1] \in S
  OBVIOUS
<1>2. <<s[1]>> \in Seq(S) /\ Len(<<s[1]>>) = 1
  BY <1>1
<1> QED BY <1>2, SeqEqual

LEMMA PairWithout ==
  ASSUME NEW S, NEW x \in S, NEW y \in S
  PROVE  /\ RemoveAt(<<x, y>>, 1) = <<y>>
         /\ RemoveAt(<<x, y>>, 2) = <<x>>
         /\ RemoveAt(<<x>>, 1) = <<>>
<1> DEFINE s == <<x, y>>
           one == <<x>>
<1>1. s \in Seq(S) /\ Len(s) = 2 /\ s[1] = x /\ s[2] = y
  OBVIOUS
<1>2. one \in Seq(S) /\ Len(one) = 1
  OBVIOUS
<1> HIDE DEF s, one
<1>3. SubSeq(s, 1, 1) \in Seq(S) /\ Len(SubSeq(s, 1, 1)) = 1 /\ SubSeq(s, 1, 1)[1] = x
  BY <1>1, SubSeqProperties
<1>4. SubSeq(s, 2, 2) \in Seq(S) /\ Len(SubSeq(s, 2, 2)) = 1 /\ SubSeq(s, 2, 2)[1] = y
  BY <1>1, SubSeqProperties
<1>5. SubSeq(s, 1, 1) = <<x>> /\ SubSeq(s, 2, 2) = <<y>>
  BY <1>3, <1>4, Singleton
<1>6. SubSeq(s, 1, 0) = <<>> /\ SubSeq(s, 3, 2) = <<>> /\ SubSeq(one, 1, 0) = <<>> /\ SubSeq(one, 2, 1) = <<>>
  BY <1>1, <1>2, SubSeqEmpty
<1>7. <<x>> \in Seq(S) /\ <<y>> \in Seq(S)
  OBVIOUS
<1>8. <<>> \o <<y>> = <<y>> /\ <<x>> \o <<>> = <<x>> /\ <<>> \o <<>> = <<>>
  BY <1>7, ConcatEmptySeq
<1>9. RemoveAt(s, 1) = SubSeq(s, 1, 0) \o SubSeq(s, 2, 2)
  BY <1>1 DEF RemoveAt
<1>10. RemoveAt(s, 2) = SubSeq(s, 1, 1) \o SubSeq(s, 3, 2)
  BY <1>1 DEF RemoveAt
<1>11. RemoveAt(one, 1) = SubSeq(one, 1, 0) \o SubSeq(one, 2, 1)
  BY <1>2 DEF RemoveAt
<1> QED BY <1>5, <1>6, <1>8, <1>9, <1>10, <1>11 DEF s, one

LEMMA Removed ==
  ASSUME NEW s \in Trackings, NEW i \in 1 .. Len(s)
  PROVE  /\ RemoveAt(s, i) \in {<<>>, <<"boot">>, <<"root">>}
         /\ \A p \in ToSet(s) : p # s[i] => p \in ToSet(RemoveAt(s, i))
         /\ s = <<"boot">> => RemoveAt(s, i) = <<>>
         /\ s = <<"root">> => RemoveAt(s, i) = <<>>
         /\ s = <<"boot", "root">> /\ s[i] = "root" => RemoveAt(s, i) = <<"boot">>
<1> DEFINE S == {"boot", "root"}
<1>1. /\ RemoveAt(<<"boot", "root">>, 1) = <<"root">> /\ RemoveAt(<<"boot", "root">>, 2) = <<"boot">>
      /\ RemoveAt(<<"boot">>, 1) = <<>> /\ RemoveAt(<<"root">>, 1) = <<>>
  <2>1. "boot" \in S /\ "root" \in S
    OBVIOUS
  <2> HIDE DEF S
  <2> QED BY <2>1, PairWithout
<1>2. CASE s = <<>>
  BY <1>2
<1>3. CASE s = <<"boot">>
  <2>1. i = 1
    BY <1>3
  <2> QED BY <1>1, <1>3, <2>1, Elements
<1>4. CASE s = <<"root">>
  <2>1. i = 1
    BY <1>4
  <2> QED BY <1>1, <1>4, <2>1, Elements
<1>5. CASE s = <<"boot", "root">>
  <2>1. i \in {1, 2}
    BY <1>5
  <2>2. s[1] = "boot" /\ s[2] = "root"
    BY <1>5
  <2>3. CASE i = 1
    BY <1>1, <1>5, <2>2, <2>3, Elements
  <2>4. CASE i = 2
    BY <1>1, <1>5, <2>2, <2>4, Elements
  <2> QED BY <2>1, <2>3, <2>4
<1> QED BY <1>2, <1>3, <1>4, <1>5 DEF Trackings

LEMMA Rest ==
  ASSUME NEW q \in {<<>>, <<"boot">>, <<"root">>, <<"root", "boot">>}, q # <<>>
  PROVE  /\ Tail(q) \in {<<>>, <<"boot">>}
         /\ q = <<"boot">> => Head(q) = "boot" /\ Tail(q) = <<>>
         /\ q = <<"root">> => Head(q) = "root" /\ Tail(q) = <<>>
         /\ q = <<"root", "boot">> => Head(q) = "root" /\ Tail(q) = <<"boot">>
<1>1. Head(<<"boot">>) = "boot" /\ Head(<<"root">>) = "root" /\ Head(<<"root", "boot">>) = "root"
  OBVIOUS
<1>2. Tail(<<"boot">>) = <<>>
  OBVIOUS
<1>3. Tail(<<"root">>) = <<>>
  OBVIOUS
<1>4. Tail(<<"root", "boot">>) = <<"boot">>
  <2> DEFINE S == {"boot", "root"}
             s == Tail(<<"root", "boot">>)
  <2>1. s \in Seq(S) /\ Len(s) = 1 /\ s[1] = "boot"
    OBVIOUS
  <2> HIDE DEF S, s
  <2>2. s = <<"boot">>
    BY <2>1, Singleton
  <2> QED BY <2>2 DEF s
<1> QED BY <1>1, <1>2, <1>3, <1>4

LEMMA RemovedFields ==
  ASSUME run \in Runs, NEW q \in {<<>>, <<"boot">>}, NEW t \in {<<>>, <<"boot">>, <<"root">>},
         run' = [run EXCEPT !.queue = q, !.tracked = t]
  PROVE  /\ ChangesOnly({"queue", "tracked", "failures"}) /\ run'.failures = run.failures
         /\ run'.queue = q /\ run'.tracked = t
BY DEF Runs, Fields, ChangesOnly

LEMMA KeptFields ==
  ASSUME run \in Runs, NEW q \in {<<>>, <<"boot">>},
         run' = [run EXCEPT !.queue = q, !.failures = TRUE]
  PROVE  ChangesOnly({"queue", "tracked", "failures"}) /\ run'.failures /\ run'.tracked = run.tracked
BY DEF Runs, Fields, ChangesOnly

LEMMA UnmountPrivatePreserves ==
  ASSUME CommandInvariant, UnmountPrivate
  PROVE  CommandInvariant'
<1> DEFINE partition == Head(run.queue)
<1>1. /\ run.pc = "unmount all" /\ run.queue # <<>> /\ run \in Runs
      /\ run.tracked \in Trackings /\ run.queue \in {<<>>, <<"boot">>, <<"root">>, <<"root", "boot">>}
      /\ UNCHANGED <<disk, held, foreign, target, lookalike, canceled, swaps>>
  BY TypeOfRun DEF UnmountPrivate, Runs, Trackings
<1>2. /\ private \subseteq {"boot", "root"} /\ private \subseteq ToSet(run.tracked)
      /\ ~run.failures => run.queue = Reverse(run.tracked)
  BY <1>1 DEF CommandInvariant, TypeOK, TracksMounts
<1>3. /\ ChangesOnly({"queue", "tracked", "failures"})
      /\ private' \subseteq {"boot", "root"} /\ private' \subseteq ToSet(run'.tracked)
      /\ ~run'.failures => run'.queue = Reverse(run'.tracked)
  <2>1. ASSUME partition \in private, private' = private \ {partition},
               NEW i \in 1 .. Len(run.tracked), run.tracked[i] = partition,
               run' = [[run EXCEPT !.queue = Tail(@)] EXCEPT !.tracked = RemoveAt(@, i)]
        PROVE  <1>3!1 /\ <1>3!2 /\ <1>3!3
    <3>1. run' = [run EXCEPT !.queue = Tail(@), !.tracked = RemoveAt(@, i)]
      BY <1>1, <2>1 DEF Runs
    <3>2. /\ ChangesOnly({"queue", "tracked", "failures"}) /\ run'.failures = run.failures
          /\ run'.queue = Tail(run.queue) /\ run'.tracked = RemoveAt(run.tracked, i)
      <4> DEFINE q == Tail(run.queue)
                 t == RemoveAt(run.tracked, i)
      <4>1. q \in {<<>>, <<"boot">>} /\ t \in {<<>>, <<"boot">>, <<"root">>}
        BY <1>1, Rest, Removed
      <4>2. run' = [run EXCEPT !.queue = q, !.tracked = t]
        BY <3>1
      <4> HIDE DEF q, t
      <4>3. /\ ChangesOnly({"queue", "tracked", "failures"}) /\ run'.failures = run.failures
            /\ run'.queue = q /\ run'.tracked = t
        BY <1>1, <4>1, <4>2, RemovedFields
      <4> QED BY <4>3 DEF q, t
    <3>3. private' \subseteq ToSet(run'.tracked)
      BY <1>1, <1>2, <2>1, <3>2, Removed
    <3>4. ASSUME ~run.failures PROVE run'.queue = Reverse(run'.tracked)
      <4>1. run.queue = Reverse(run.tracked)
        BY <1>2, <3>4
      <4>2. CASE run.tracked = <<>>
        BY <1>1, <4>1, <4>2, Reversed
      <4>3. CASE run.tracked = <<"boot">>
        <5>1. run.queue = <<"boot">> /\ run'.tracked = <<>>
          BY <1>1, <3>2, <4>1, <4>3, Reversed, Removed
        <5> QED BY <1>1, <3>2, <5>1, Reversed, Rest
      <4>4. CASE run.tracked = <<"root">>
        <5>1. run.queue = <<"root">> /\ run'.tracked = <<>>
          BY <1>1, <3>2, <4>1, <4>4, Reversed, Removed
        <5> QED BY <1>1, <3>2, <5>1, Reversed, Rest
      <4>5. CASE run.tracked = <<"boot", "root">>
        <5>1. run.queue = <<"root", "boot">>
          BY <4>1, <4>5, Reversed
        <5>2. partition = "root" /\ run'.queue = <<"boot">>
          BY <1>1, <3>2, <5>1, Rest
        <5>3. run'.tracked = <<"boot">>
          BY <1>1, <2>1, <3>2, <4>5, <5>2, Removed
        <5> QED BY <5>2, <5>3, Reversed
      <4> QED BY <1>1, <4>2, <4>3, <4>4, <4>5 DEF Trackings
    <3> QED BY <1>2, <2>1, <3>2, <3>3, <3>4
  <2>2. ASSUME private' \in {private, private \ {partition}},
               run' = [[run EXCEPT !.queue = Tail(@)] EXCEPT !.failures = TRUE]
        PROVE  <1>3!1 /\ <1>3!2 /\ <1>3!3
    <3>1. run' = [run EXCEPT !.queue = Tail(@), !.failures = TRUE]
      BY <1>1, <2>2 DEF Runs
    <3> DEFINE q == Tail(run.queue)
    <3>2. q \in {<<>>, <<"boot">>}
      BY <1>1, Rest
    <3>3. run' = [run EXCEPT !.queue = q, !.failures = TRUE]
      BY <3>1
    <3> HIDE DEF q
    <3> QED BY <1>1, <1>2, <2>2, <3>2, <3>3, KeptFields
  <2>3. \/ /\ partition \in private /\ private' = private \ {partition}
           /\ \E i \in 1 .. Len(run.tracked) :
                /\ run.tracked[i] = partition
                /\ run' = [[run EXCEPT !.queue = Tail(@)] EXCEPT !.tracked = RemoveAt(@, i)]
        \/ /\ private' \in {private, private \ {partition}}
           /\ run' = [[run EXCEPT !.queue = Tail(@)] EXCEPT !.failures = TRUE]
    BY DEF UnmountPrivate
  <2> HIDE DEF partition
  <2> QED BY <2>1, <2>2, <2>3
<1> USE DEF ChangesOnly, Fields
<1>4. TypeOK'
  BY <1>1, <1>3 DEF CommandInvariant, TypeOK
<1>5. HoldsItsResources'
  BY <1>1, <1>3 DEF CommandInvariant, HoldsItsResources
<1>6. TracksMounts'
  BY <1>1, <1>3 DEF TracksMounts
<1>7. DryTouchesNothing'
  BY <1>1, <1>3 DEF CommandInvariant, DryTouchesNothing
<1>8. WritesAreRemembered'
  BY <1>1, <1>3 DEF WritesAreRemembered
<1>9. FirstSwapLeaves' /\ OpenedHavePartitions'
  BY <1>1, <1>3 DEF CommandInvariant, FirstSwapLeaves, OpenedHavePartitions
<1>10. ProgressIsReal'
  BY <1>1, <1>3 DEF CommandInvariant, ProgressIsReal, Finally, AllChecked
<1>11. ConfirmedIsWritten'
  BY <1>1, <1>3 DEF CommandInvariant, ConfirmedIsWritten, ProgressIsReal, NeverSwappedBack
<1>12. ReportIsHonest' /\ SuccessIsComplete' /\ LeftoversAreReported'
  BY <1>1, <1>3 DEF ReportIsHonest, SuccessIsComplete, LeftoversAreReported, Ended
<1> QED BY <1>4, <1>5, <1>6, <1>7, <1>8, <1>9, <1>10, <1>11, <1>12 DEF CommandInvariant

(* A step from one unmountAll to what follows it.                          *)
LEMMA ClosingPreserves ==
  ASSUME CommandInvariant, ChangesOnly({"pc", "failures"}), held' \in {held, held \ {"root"}},
         \/ /\ run.pc = "unmount all" /\ run.queue = <<>>
            /\ run'.failures = run.failures /\ held' = held
            /\ \/ run.why = "final" /\ run'.pc = "remove root"
               \/ ~run.failures /\ run.why = "capacity" /\ run'.pc = "provision"
               \/ ~run.failures /\ run.why = "finish" /\ run'.pc = "check"
         \/ /\ run.pc = "remove root" /\ run'.pc = "customized"
            /\ \/ run'.failures
               \/ run'.failures = run.failures /\ "root" \notin held' /\ held' # held
               \/ run'.failures = run.failures /\ "root" \notin held
               \/ run'.failures = run.failures /\ run.tracked # <<>>,
         UNCHANGED <<disk, private, foreign, target, lookalike, canceled, swaps>>
  PROVE  CommandInvariant'
<1> USE DEF ChangesOnly, Fields
<1>1. TypeOK'
  BY DEF CommandInvariant, TypeOK
<1>2. TracksMounts'
  <2>1. run.pc = "unmount all" /\ ~run.failures => run.tracked = <<>>
    <3>1. ASSUME run.pc = "unmount all", ~run.failures PROVE run.tracked = <<>>
      <4>1. run.queue = <<>>
        BY <3>1
      <4>2. run.queue = Reverse(run.tracked)
        BY <3>1 DEF CommandInvariant, TracksMounts
      <4>3. run.tracked \in Trackings
        BY TypeOfRun DEF Runs, Trackings
      <4> DEFINE t == run.tracked
      <4>4. Reverse(t) = <<>> /\ t \in Trackings
        BY <4>1, <4>2, <4>3
      <4> HIDE DEF t
      <4>5. t = <<>>
        BY <4>4, Reversed, BoxedAreNotEmpty DEF Trackings
      <4> QED BY <4>5 DEF t
    <3> QED BY <3>1
  <2>2. run'.tracked = run.tracked
    OBVIOUS
  <2> QED BY <2>1, <2>2 DEF CommandInvariant, TracksMounts
<1>3. HoldsItsResources'
  BY DEF CommandInvariant, HoldsItsResources, TracksMounts
<1>4. DryTouchesNothing'
  BY DEF CommandInvariant, DryTouchesNothing
<1>5. WritesAreRemembered'
  BY DEF WritesAreRemembered
<1>6. FirstSwapLeaves' /\ OpenedHavePartitions'
  BY DEF CommandInvariant, FirstSwapLeaves, OpenedHavePartitions
<1>7. ProgressIsReal'
  <2>1. /\ run'.recovery = run.recovery /\ run'.verified = run.verified
        /\ run'.error = run.error /\ run'.inner = run.inner /\ run'.checked = run.checked
    OBVIOUS
  <2>2. Finally' <=> Finally
    BY DEF Finally
  <2>3. run'.pc \in {"provision", "check"} => ~Finally /\ run.checked = 0
    <3>1. ASSUME run'.pc \in {"provision", "check"} PROVE ~Finally /\ run.checked = 0
      <4>1. ~Finally
        BY <3>1 DEF Finally
      <4>3. ~(run.checked > 0)
        BY <3>1, <4>1 DEF CommandInvariant, ProgressIsReal
      <4>2. run.checked \in 0 .. 2
        <5>1. run.checked \in 0 .. Len(Partitions) /\ Len(Partitions) = 2
          BY TypeOfRun DEF Runs
        <5> QED BY <5>1
      <4>4. run.checked = 0
        BY <4>2, <4>3, CountIsZero
      <4> QED BY <4>1, <4>4
    <3> QED BY <3>1
  <2>4. run'.pc = "check" => run'.checked < Len(Partitions)
    <3>1. 0 < Len(Partitions)
      BY PartitionCount
    <3> QED BY <2>1, <2>3, <3>1
  <2> QED BY <2>1, <2>2, <2>3, <2>4 DEF CommandInvariant, ProgressIsReal, AllChecked
<1>8. ConfirmedIsWritten'
  BY DEF CommandInvariant, ConfirmedIsWritten, ProgressIsReal, NeverSwappedBack
<1>9. ReportIsHonest' /\ SuccessIsComplete' /\ LeftoversAreReported'
  BY DEF ReportIsHonest, SuccessIsComplete, LeftoversAreReported, Ended
<1> QED BY <1>1, <1>2, <1>3, <1>4, <1>5, <1>6, <1>7, <1>8, <1>9 DEF CommandInvariant

LEMMA UnmountedPreserves ==
  ASSUME CommandInvariant, Unmounted
  PROVE  CommandInvariant'
<1>1. /\ run.pc = "unmount all" /\ run.queue = <<>> /\ run \in Runs
      /\ run.why \in {"capacity", "finish", "final"}
      /\ UNCHANGED <<disk, held, foreign, private, target, lookalike, canceled, swaps>>
  BY TypeOfRun DEF Unmounted, world, Runs
<1>2. ASSUME NEW pc \in {"remove root", "provision", "check"}, run' = Goto(pc),
             \/ run.why = "final" /\ pc = "remove root"
             \/ ~run.failures /\ run.why = "capacity" /\ pc = "provision"
             \/ ~run.failures /\ run.why = "finish" /\ pc = "check"
      PROVE  CommandInvariant'
  <2>1. ChangesOnly({"pc"}) /\ run'.pc = pc
    BY <1>1, <1>2, GotoFields DEF Programs
  <2>2. ChangesOnly({"pc", "failures"}) /\ run'.failures = run.failures
    BY <2>1 DEF ChangesOnly, Fields
  <2> QED BY <1>1, <1>2, <2>1, <2>2, ClosingPreserves
<1>3. CASE run' = Refuse(run, CleanupFailure(NoError, "nothing"))
  <2> DEFINE failure == CleanupFailure(NoError, "nothing")
  <2>1. failure \in Errors /\ failure # NoError /\ failure.completed = "nothing"
    BY CleanupFailureFacts, ErrorFacts DEF CompletedPhases
  <2>2. run' = Refuse(run, failure)
    BY <1>3
  <2> HIDE DEF failure
  <2> QED BY <1>1, <2>1, <2>2, RefusedPreserves
<1>4. CASE run' = Refuse(run, Failed)
  BY <1>1, <1>4, RefusedPreserves, ErrorFacts
<1> QED BY <1>1, <1>2, <1>3, <1>4 DEF Unmounted

LEMMA KeptRootFields ==
  ASSUME run \in Runs, run' = [Goto("customized") EXCEPT !.failures = TRUE]
  PROVE  ChangesOnly({"pc", "failures"}) /\ run'.pc = "customized" /\ run'.failures
BY DEF Runs, Goto, Programs, ChangesOnly, Fields

LEMMA RemoveRootPreserves ==
  ASSUME CommandInvariant, RemoveRoot
  PROVE  CommandInvariant'
<1>1. /\ run.pc = "remove root" /\ run \in Runs
      /\ UNCHANGED <<disk, foreign, private, target, lookalike, canceled, swaps>>
  BY TypeOfRun DEF RemoveRoot, world
<1>2. run' = Goto("customized") =>
        /\ ChangesOnly({"pc", "failures"}) /\ run'.pc = "customized" /\ run'.failures = run.failures
  <2>1. ASSUME run' = Goto("customized")
        PROVE  ChangesOnly({"pc"}) /\ run'.pc = "customized"
    BY <1>1, <2>1, GotoFields DEF Programs
  <2> QED BY <2>1 DEF ChangesOnly, Fields
<1>3. run' = [Goto("customized") EXCEPT !.failures = TRUE] =>
        ChangesOnly({"pc", "failures"}) /\ run'.pc = "customized" /\ run'.failures
  BY <1>1, KeptRootFields
<1>4. CASE "root" \in held /\ held' = held \ {"root"} /\ run' = Goto("customized")
  BY <1>1, <1>2, <1>4, ClosingPreserves
<1>5. CASE run' = [Goto("customized") EXCEPT !.failures = TRUE] /\ UNCHANGED held
  BY <1>1, <1>3, <1>5, ClosingPreserves
<1>6. CASE /\ "root" \notin held \/ run.tracked # <<>>
           /\ run' = Goto("customized") /\ UNCHANGED held
  BY <1>1, <1>2, <1>6, ClosingPreserves
<1> QED BY <1>4, <1>5, <1>6 DEF RemoveRoot

(* The customization throws, or has completed.                             *)
LEMMA CompletedFields ==
  ASSUME run \in Runs, "lock" \in held, run' = [Fail(NoError) EXCEPT !.recovery = "complete"]
  PROVE  /\ ChangesOnly({"pc", "error", "attempted", "recovery"})
         /\ run'.pc = "cleanup" /\ run'.error = NoError /\ run'.recovery = "complete"
<1>1. NoError \in Errors
  BY ErrorFacts
<1> DEFINE next == Fail(NoError)
<1>2. /\ next \in Runs /\ next.pc = "cleanup" /\ next.error = NoError
      /\ \A f \in Fields \ {"pc", "error", "attempted"} : next[f] = run[f]
  BY <1>1 DEF Runs, Fail, Programs, Fields
<1> HIDE DEF next
<1>3. LET last == [next EXCEPT !.recovery = "complete"]
      IN  /\ last \in Runs /\ last.recovery = "complete"
          /\ \A f \in Fields \ {"recovery"} : last[f] = next[f]
  BY <1>2 DEF Runs, RecoveryStates, Fields
<1>4. run' = [next EXCEPT !.recovery = "complete"]
  BY DEF next
<1>5. /\ run' \in Runs /\ run'.recovery = "complete"
      /\ \A f \in Fields \ {"recovery"} : run'[f] = next[f]
  BY <1>3, <1>4
<1> QED BY <1>2, <1>5 DEF ChangesOnly, Fields

LEMMA CustomizedEnds ==
  ASSUME CommandInvariant, ChangesOnly({"pc", "error", "attempted", "recovery", "phase"}),
         run.pc = "customized", run'.pc = "cleanup",
         run.failures => run'.error.cleanup,
         run'.error.completed \in {"nothing", "check"},
         run'.error.completed = "check" => AllChecked,
         \/ run'.error # NoError /\ run'.recovery = run.recovery
         \/ run'.error = NoError /\ run'.recovery = "complete" /\ AllChecked,
         UNCHANGED <<disk, held, private, foreign, target, lookalike, canceled, swaps>>
  PROVE  CommandInvariant'
<1> USE DEF ChangesOnly, Fields
<1>1. TypeOK'
  BY DEF CommandInvariant, TypeOK
<1>2. HoldsItsResources'
  BY DEF CommandInvariant, HoldsItsResources
<1>3. TracksMounts'
  BY DEF CommandInvariant, TracksMounts
<1>4. DryTouchesNothing'
  BY DEF CommandInvariant, DryTouchesNothing
<1>5. WritesAreRemembered'
  BY DEF WritesAreRemembered, CommandInvariant, ProgressIsReal
<1>6. FirstSwapLeaves' /\ OpenedHavePartitions'
  BY DEF CommandInvariant, FirstSwapLeaves, OpenedHavePartitions
<1>7. ProgressIsReal'
  <2>1. /\ run'.verified = run.verified /\ run'.inner = run.inner /\ run'.checked = run.checked
        /\ run.verified /\ run.inner.completed = "nothing"
    BY DEF CommandInvariant, ProgressIsReal
  <2>2. AllChecked' <=> AllChecked
    BY <2>1 DEF AllChecked
  <2>3. ~Finally'
    BY DEF Finally
  <2> QED BY <2>1, <2>2, <2>3 DEF CommandInvariant, ProgressIsReal
<1>8. ConfirmedIsWritten'
  BY DEF CommandInvariant, ConfirmedIsWritten, NeverSwappedBack
<1>9. ReportIsHonest' /\ SuccessIsComplete' /\ LeftoversAreReported'
  BY DEF ReportIsHonest, SuccessIsComplete, LeftoversAreReported, Ended
<1> QED BY <1>1, <1>2, <1>3, <1>4, <1>5, <1>6, <1>7, <1>8, <1>9 DEF CommandInvariant

LEMMA CustomizedPreserves ==
  ASSUME CommandInvariant, Customized
  PROVE  CommandInvariant'
<1> DEFINE error == IF canceled /\ run.inner = NoError THEN Failed ELSE run.inner
           completed == IF run.checked = Len(Partitions) THEN "check" ELSE "nothing"
           thrown == IF run.failures THEN CleanupFailure(error, completed) ELSE error
<1>1. /\ run.pc = "customized" /\ run \in Runs /\ "lock" \in held
      /\ run.inner \in Errors /\ run.inner.completed = "nothing"
      /\ UNCHANGED <<disk, held, private, foreign, target, lookalike, canceled, swaps>>
      /\ run.inner = NoError => AllChecked
  BY TypeOfRun
  DEF Customized, world, CommandInvariant, HoldsItsResources, ProgressIsReal, Finally, Runs
<1>2. run' = IF thrown # NoError THEN Fail(thrown)
             ELSE [Fail(NoError) EXCEPT !.recovery = "complete"]
  BY DEF Customized
<1>3. /\ error \in Errors /\ error.completed = "nothing"
      /\ error = NoError => run.inner = NoError
      /\ completed \in CompletedPhases /\ completed \in {"nothing", "check"}
      /\ completed = "check" => AllChecked
  BY <1>1, ErrorFacts DEF CompletedPhases, AllChecked
<1> HIDE DEF error, completed
<1>4. /\ thrown \in Errors /\ thrown.completed \in {"nothing", "check"}
      /\ thrown.completed = "check" => AllChecked
      /\ run.failures => thrown.cleanup
      /\ thrown = NoError => AllChecked
  BY <1>1, <1>3, CleanupFailureFacts
<1> HIDE DEF thrown
<1>5. CASE thrown # NoError
  <2>1. FailsWith(thrown) /\ run'.phase = run.phase
    BY <1>1, <1>2, <1>4, <1>5, FailFields
  <2>2. /\ ChangesOnly({"pc", "error", "attempted", "recovery", "phase"})
        /\ run'.pc = "cleanup" /\ run'.error = thrown /\ run'.recovery = run.recovery
    BY <1>1, <2>1 DEF FailsWith, ChangesOnly, Fields
  <2> QED BY <1>1, <1>4, <1>5, <2>2, CustomizedEnds
<1>6. CASE thrown = NoError
  <2>1. /\ ChangesOnly({"pc", "error", "attempted", "recovery"})
        /\ run'.pc = "cleanup" /\ run'.error = NoError /\ run'.recovery = "complete"
    <3>1. run' = [Fail(NoError) EXCEPT !.recovery = "complete"]
      BY <1>2, <1>6
    <3> QED BY <1>1, <3>1, CompletedFields
  <2>2. ChangesOnly({"pc", "error", "attempted", "recovery", "phase"})
    BY <2>1 DEF ChangesOnly
  <2> QED BY <1>1, <1>4, <1>6, <2>1, <2>2, CustomizedEnds
<1> QED BY <1>5, <1>6

-----------------------------------------------------------------------------
(* The end of the transaction, and of the command *)

LEMMA StillThere ==
  ASSUME TypeOK, FirstSwapLeaves, NeverSwappedBack, target = "confirmed"
  PROVE  swaps = 0
<1>1. swaps \in Nat
  BY SwapAssumption DEF TypeOK
<1>2. swaps <= 1 /\ swaps # 1
  BY DEF NeverSwappedBack, FirstSwapLeaves
<1> QED BY <1>1, <1>2

(* A step of the second unmountDescendants.                                *)
LEMMA CleaningPreserves ==
  ASSUME CommandInvariant, ChangesOnly({"pc", "unclean", "attempted", "mount"}),
         run.pc \in {"cleanup", "cleanup umount"}, run'.pc \in Cleaning,
         run'.pc = "release" =>
           run'.unclean \/ target = "confirmed" \/ run.error # NoError,
         private' \subseteq private, foreign' \subseteq Mountpoints,
         UNCHANGED <<held, disk, target, lookalike, canceled, swaps>>
  PROVE  CommandInvariant'
<1> USE DEF ChangesOnly, Fields
<1>1. TypeOK'
  BY DEF CommandInvariant, TypeOK
<1>2. HoldsItsResources'
  BY DEF CommandInvariant, HoldsItsResources
<1>3. TracksMounts'
  BY DEF CommandInvariant, TracksMounts
<1>4. DryTouchesNothing'
  BY DEF CommandInvariant, DryTouchesNothing
<1>5. WritesAreRemembered'
  BY DEF CommandInvariant, WritesAreRemembered, Untouched
<1>6. FirstSwapLeaves' /\ OpenedHavePartitions'
  BY DEF CommandInvariant, FirstSwapLeaves, OpenedHavePartitions
<1>7. ProgressIsReal'
  BY DEF CommandInvariant, ProgressIsReal, Finally, AllChecked
<1>8. ConfirmedIsWritten'
  <2>1. /\ run'.error = run.error /\ run'.checked = run.checked /\ run'.verified = run.verified
        /\ run'.dry = run.dry
    OBVIOUS
  <2>2. ASSUME NeverSwappedBack, run.error = NoError, run'.pc = "release", ~run'.unclean
        PROVE  disk["confirmed"] = "customized" /\ disk["other"] = "original"
    <3>1. target = "confirmed"
      BY <2>2
    <3>2. swaps = 0
      BY <2>2, <3>1, StillThere DEF CommandInvariant
    <3>3. AllChecked
      BY <2>2 DEF CommandInvariant, ProgressIsReal
    <3>4. run.checked > 0
      BY <3>3, PartitionCount DEF AllChecked
    <3> QED BY <3>2, <3>4 DEF CommandInvariant, ConfirmedIsWritten
  <2> QED BY <2>1, <2>2 DEF CommandInvariant, ConfirmedIsWritten, NeverSwappedBack
<1>9. ReportIsHonest' /\ SuccessIsComplete' /\ LeftoversAreReported'
  BY DEF ReportIsHonest, SuccessIsComplete, LeftoversAreReported, Ended
<1> QED BY <1>1, <1>2, <1>3, <1>4, <1>5, <1>6, <1>7, <1>8, <1>9 DEF CommandInvariant

LEMMA UncleanFields ==
  ASSUME run \in Runs, run' = Unclean
  PROVE  ChangesOnly({"pc", "unclean", "attempted", "mount"}) /\ run'.pc = "release" /\ run'.unclean
BY DEF Runs, Unclean, Programs, ChangesOnly, Fields

LEMMA CleanupRecheckPreserves ==
  ASSUME CommandInvariant, CleanupRecheck
  PROVE  CommandInvariant'
<1>1. /\ run.pc = "cleanup" /\ run \in Runs /\ foreign' \subseteq Mountpoints
      /\ UNCHANGED <<held, disk, foreign, private, target, lookalike, canceled, swaps>>
  BY TypeOfRun DEF CleanupRecheck, world, CommandInvariant, TypeOK
<1>2. CASE run' = Unclean
  BY <1>1, <1>2, UncleanFields, CleaningPreserves
<1>3. ASSUME run' = Goto("release"), target = "confirmed" \/ run.error # NoError
      PROVE  CommandInvariant'
  <2>1. ChangesOnly({"pc"}) /\ run'.pc = "release"
    BY <1>1, <1>3, GotoFields DEF Programs
  <2>2. ChangesOnly({"pc", "unclean", "attempted", "mount"})
    BY <2>1 DEF ChangesOnly
  <2> QED BY <1>1, <1>3, <2>1, <2>2, CleaningPreserves
<1>4. ASSUME NEW m \in Descendants, run' = Attempt(m, "cleanup umount")
      PROVE  CommandInvariant'
  <2>1. m \in Mountpoints \cup {"boot", "root"}
    BY DEF Descendants, CommandInvariant, TypeOK
  <2>2. ChangesOnly({"pc", "attempted", "mount"}) /\ run'.pc = "cleanup umount"
    BY <1>1, <1>4, <2>1, AttemptFields DEF Programs
  <2>3. ChangesOnly({"pc", "unclean", "attempted", "mount"})
    BY <2>2 DEF ChangesOnly
  <2> QED BY <1>1, <2>2, <2>3, CleaningPreserves
<1>5. run.error.source = "guardrail" => run.error # NoError
  BY DEF NoError, Error
<1> QED BY <1>2, <1>3, <1>4, <1>5 DEF CleanupRecheck

LEMMA CleanupUmountPreserves ==
  ASSUME CommandInvariant, CleanupUmount
  PROVE  CommandInvariant'
<1>1. /\ run.pc = "cleanup umount" /\ run \in Runs
      /\ foreign' \subseteq Mountpoints /\ private' \subseteq private
      /\ UNCHANGED <<held, disk, target, lookalike, canceled, swaps>>
  BY TypeOfRun DEF CleanupUmount, MayUnmount, CommandInvariant, TypeOK
<1>2. CASE run' = Unclean
  BY <1>1, <1>2, UncleanFields, CleaningPreserves
<1>3. CASE run' = Goto("cleanup")
  <2>1. ChangesOnly({"pc"}) /\ run'.pc = "cleanup"
    BY <1>1, <1>3, GotoFields DEF Programs
  <2>2. ChangesOnly({"pc", "unclean", "attempted", "mount"})
    BY <2>1 DEF ChangesOnly
  <2> QED BY <1>1, <2>1, <2>2, CleaningPreserves
<1> QED BY <1>2, <1>3 DEF CleanupUmount

LEMMA ReleasePreserves ==
  ASSUME CommandInvariant, Release
  PROVE  CommandInvariant'
<1> DEFINE completed == IF run.verified THEN "verify" ELSE "nothing"
<1>1. /\ run.pc = "release" /\ run \in Runs /\ run.error \in Errors
      /\ UNCHANGED <<disk, foreign, private, target, lookalike, canceled, swaps>>
      /\ completed \in CompletedPhases
      /\ \/ held' = held \ {"lock"} /\ run' = Ending(run.unclean)
         \/ run' = Ending(TRUE) /\ UNCHANGED held
  BY TypeOfRun DEF Release, world, Runs, CompletedPhases
<1>2. PICK error \in Errors :
        /\ run' = [run EXCEPT !.pc = "conclude", !.error = error]
        /\ \/ error = run.error /\ ~run.unclean /\ "lock" \notin held' /\ held' = held \ {"lock"}
           \/ error = CleanupFailure(run.error, completed) /\ held' \in {held, held \ {"lock"}}
  <2>1. CleanupFailure(run.error, completed) \in Errors
    BY <1>1, CleanupFailureFacts
  <2>2. CASE run.unclean \/ run' = Ending(TRUE)
    <3>1. run' = [run EXCEPT !.pc = "conclude", !.error = CleanupFailure(run.error, completed)]
      BY <1>1, <2>2 DEF Ending
    <3> QED BY <1>1, <2>1, <3>1
  <2>3. CASE ~run.unclean /\ run' = Ending(run.unclean) /\ held' = held \ {"lock"}
    <3>1. run' = [run EXCEPT !.pc = "conclude", !.error = run.error]
      BY <1>1, <2>3 DEF Ending
    <3> QED BY <1>1, <2>3, <3>1
  <2> QED BY <1>1, <2>2, <2>3
<1>3. /\ error.cleanup \/ (error = run.error /\ ~run.unclean /\ held' = held \ {"lock"})
      /\ run.error.cleanup => error.cleanup
      /\ error.completed \in {run.error.completed, completed}
      /\ PhaseForFailure(error, run.phase) = PhaseForFailure(run.error, run.phase)
      /\ error = NoError => error = run.error /\ ~run.unclean
  BY <1>1, <1>2, CleanupFailureFacts
<1> USE DEF ChangesOnly, Fields
<1>4. ChangesOnly({"pc", "error"}) /\ run'.pc = "conclude" /\ run'.error = error
  BY <1>1, <1>2 DEF Runs, Programs
<1>5. TypeOK'
  BY <1>1, <1>2, <1>4 DEF CommandInvariant, TypeOK
<1>6. HoldsItsResources'
  BY <1>1, <1>2, <1>3, <1>4 DEF CommandInvariant, HoldsItsResources
<1>7. TracksMounts'
  BY <1>1, <1>3, <1>4 DEF CommandInvariant, TracksMounts
<1>8. DryTouchesNothing'
  BY <1>1, <1>4 DEF CommandInvariant, DryTouchesNothing
<1>9. WritesAreRemembered'
  BY <1>1, <1>3, <1>4 DEF CommandInvariant, WritesAreRemembered, Untouched
<1>10. FirstSwapLeaves' /\ OpenedHavePartitions'
  BY <1>1, <1>4 DEF CommandInvariant, FirstSwapLeaves, OpenedHavePartitions
<1>11. ProgressIsReal'
  <2>1. /\ run'.recovery = run.recovery /\ run'.verified = run.verified
        /\ run'.inner = run.inner /\ run'.checked = run.checked /\ run'.dry = run.dry
    BY <1>4
  <2>2. /\ error.completed = "check" => AllChecked
        /\ error.completed = "verify" => run.verified
    BY <1>1, <1>3 DEF CommandInvariant, ProgressIsReal
  <2>3. error = NoError => run.recovery = "complete"
    BY <1>1, <1>3 DEF CommandInvariant, ProgressIsReal
  <2>4. ~Finally'
    BY <1>4 DEF Finally
  <2>5. AllChecked' <=> AllChecked
    BY <2>1 DEF AllChecked
  <2> QED BY <1>1, <1>4, <2>1, <2>2, <2>3, <2>4, <2>5 DEF CommandInvariant, ProgressIsReal
<1>12. ConfirmedIsWritten'
  BY <1>1, <1>3, <1>4 DEF CommandInvariant, ConfirmedIsWritten, NeverSwappedBack
<1>13. ReportIsHonest' /\ SuccessIsComplete' /\ LeftoversAreReported'
  BY <1>4 DEF ReportIsHonest, SuccessIsComplete, LeftoversAreReported, Ended
<1> QED
  BY <1>5, <1>6, <1>7, <1>8, <1>9, <1>10, <1>11, <1>12, <1>13 DEF CommandInvariant

(* What is reported of the target.                                         *)
LEMMA RecoveryFacts ==
  ASSUME NEW recovery \in RecoveryStates, recovery # "target-incomplete",
         NEW error \in Errors, NEW phase
  PROVE  LET reported == RecoveryFor(recovery, error, phase)
         IN  /\ reported \in RecoveryStates
             /\ reported = "target-unchanged" =>
                  recovery = "target-unchanged" /\ phase \notin {"write", "verify"}
             /\ reported = "target-verified-needs-customization" =>
                  recovery = "target-verified-needs-customization" \/ error.completed = "verify"
             /\ reported = "complete" => recovery = "complete" \/ error.completed = "check"
BY DEF RecoveryFor, LatestRecovery, CompletedRecovery, RecoveryStates, Errors, CompletedPhases

LEMMA PhaseFacts ==
  ASSUME NEW error \in Errors, NEW current \in Phases
  PROVE  PhaseForFailure(error, current) \in Phases
BY DEF PhaseForFailure, Errors, Phases, Destructive

LEMMA ReportedFields ==
  ASSUME run \in Runs, NEW report \in Reports, run' = [Goto("failed") EXCEPT !.report = report]
  PROVE  ChangesOnly({"pc", "report"}) /\ run'.pc = "failed" /\ run'.report = report
BY DEF Runs, Goto, Programs, ChangesOnly, Fields

LEMMA ConcludePreserves ==
  ASSUME CommandInvariant, Conclude
  PROVE  CommandInvariant'
<1> DEFINE error == IF run.error = NoError /\ canceled /\ ~run.dry THEN Other ELSE run.error
           phase == PhaseForFailure(error, run.phase)
           recovery == RecoveryFor(run.recovery, error, phase)
           failure == Report(phase, recovery, canceled, error.cleanup)
           leftover == IF error = NoError THEN Report("cleanup", run.recovery, FALSE, TRUE)
                       ELSE [failure EXCEPT !.cleanupFailed = TRUE]
<1>1. /\ run.pc = "conclude" /\ run \in Runs /\ run.error \in Errors /\ run.phase \in Phases
      /\ run.recovery \in RecoveryStates /\ run.recovery # "target-incomplete"
      /\ UNCHANGED <<disk, foreign, private, target, lookalike, canceled, swaps>>
      /\ canceled \in BOOLEAN
  BY TypeOfRun DEF Conclude, world, Runs, CommandInvariant, ProgressIsReal, TypeOK
<1>2. \/ /\ held' = held \ {"secrets", "workspace"}
         /\ run' = IF error = NoError THEN Goto("succeeded")
                   ELSE [Goto("failed") EXCEPT !.report = failure]
      \/ /\ "workspace" \in held
         /\ held' = held \ {"secrets"}
         /\ run' = [Goto("failed") EXCEPT !.report = leftover]
  BY DEF Conclude
<1>3. /\ error \in Errors
      /\ error # run.error => run.error = NoError /\ ~run.dry /\ canceled /\ error = Other
      /\ error = NoError => run.error = NoError /\ (run.dry \/ ~canceled)
  BY <1>1, ErrorFacts
<1>4. phase \in Phases
  BY <1>1, <1>3, PhaseFacts
<1>5. /\ recovery \in RecoveryStates
      /\ recovery = "target-unchanged" =>
           run.recovery = "target-unchanged" /\ phase \notin {"write", "verify"}
      /\ recovery = "target-verified-needs-customization" =>
           run.recovery = "target-verified-needs-customization" \/ error.completed = "verify"
      /\ recovery = "complete" => run.recovery = "complete" \/ error.completed = "check"
  BY <1>1, <1>3, RecoveryFacts
<1>6. /\ failure = [phase |-> phase, recovery |-> recovery, canceled |-> canceled,
                    cleanupFailed |-> error.cleanup]
      /\ leftover = [phase |-> IF error = NoError THEN "cleanup" ELSE phase,
                     recovery |-> IF error = NoError THEN run.recovery ELSE recovery,
                     canceled |-> IF error = NoError THEN FALSE ELSE canceled,
                     cleanupFailed |-> TRUE]
  BY DEF Report
<1> HIDE DEF error, phase, recovery, failure, leftover
<1>7. failure \in Reports /\ leftover \in Reports
  BY <1>1, <1>3, <1>4, <1>5, <1>6 DEF Reports, Errors, Phases, Destructive
<1>8. /\ ChangesOnly({"pc", "report"})
      /\ held' \in {held \ {"secrets", "workspace"}, held \ {"secrets"}}
      /\ \/ run'.pc = "succeeded" /\ error = NoError /\ held' = held \ {"secrets", "workspace"}
         \/ run'.pc = "failed" /\ run'.report = failure /\ error # NoError
            /\ held' = held \ {"secrets", "workspace"}
         \/ run'.pc = "failed" /\ run'.report = leftover
  <2>1. CASE run' = Goto("succeeded") /\ error = NoError /\ held' = held \ {"secrets", "workspace"}
    <3>1. ChangesOnly({"pc"}) /\ run'.pc = "succeeded"
      BY <1>1, <2>1, GotoFields DEF Programs
    <3> QED BY <2>1, <3>1 DEF ChangesOnly
  <2>2. CASE /\ error # NoError /\ held' = held \ {"secrets", "workspace"}
             /\ run' = [Goto("failed") EXCEPT !.report = failure]
    BY <1>1, <1>7, <2>2, ReportedFields
  <2>3. CASE held' = held \ {"secrets"} /\ run' = [Goto("failed") EXCEPT !.report = leftover]
    BY <1>1, <1>7, <2>3, ReportedFields
  <2> QED BY <1>2, <2>1, <2>2, <2>3
<1>9. run'.pc \in Over /\ "secrets" \notin held' /\ held' \subseteq held
  BY <1>8
<1> USE DEF ChangesOnly, Fields
<1>10. TypeOK'
  BY <1>1, <1>8, <1>9 DEF CommandInvariant, TypeOK
<1>11. HoldsItsResources' /\ WritesAreRemembered'
  BY <1>8, <1>9 DEF HoldsItsResources, WritesAreRemembered
<1>12. TracksMounts'
  BY <1>1, <1>8, <1>9 DEF CommandInvariant, TracksMounts
<1>13. DryTouchesNothing'
  BY <1>1, <1>8, <1>9 DEF CommandInvariant, DryTouchesNothing, Untouched
<1>14. FirstSwapLeaves' /\ OpenedHavePartitions'
  BY <1>1, <1>8, <1>9 DEF CommandInvariant, FirstSwapLeaves, OpenedHavePartitions
<1>15. ProgressIsReal'
  BY <1>1, <1>8, <1>9 DEF CommandInvariant, ProgressIsReal, Finally, AllChecked
<1>16. ConfirmedIsWritten'
  BY <1>1, <1>8, <1>9 DEF CommandInvariant, ConfirmedIsWritten, NeverSwappedBack
<1>17. /\ run.recovery = "complete" \/ error.completed = "check" => AllChecked
       /\ run.recovery = "target-verified-needs-customization" \/ error.completed = "verify" =>
            run.verified
  BY <1>1, <1>3, ErrorFacts DEF CommandInvariant, ProgressIsReal
<1>18. AllChecked => run.checked > 0
  BY PartitionCount DEF AllChecked
<1>19. error = NoError => run.dry \/ run.recovery = "complete"
  BY <1>1, <1>3 DEF CommandInvariant, ProgressIsReal
<1>20. ReportIsHonest'
  <2>1. CASE run'.pc = "failed"
    <3>1. run'.report.recovery = recovery \/ (error = NoError /\ run'.report.recovery = run.recovery)
      <4>1. failure.recovery = recovery
        BY <1>6
      <4>2. leftover.recovery = IF error = NoError THEN run.recovery ELSE recovery
        BY <1>6
      <4>3. run'.report = failure \/ run'.report = leftover
        BY <1>8, <2>1
      <4> QED BY <4>1, <4>2, <4>3
    <3>2. ASSUME run'.report.recovery = "target-unchanged" PROVE Untouched'
      <4>1. CASE error = NoError /\ run.recovery = "target-unchanged"
        BY <1>1, <1>19, <4>1 DEF CommandInvariant, DryTouchesNothing, Untouched
      <4>2. CASE run.recovery = "target-unchanged" /\ phase \notin {"write", "verify"}
        <5>1. CASE error = run.error
          BY <1>1, <4>2, <5>1 DEF CommandInvariant, WritesAreRemembered, Untouched, phase
        <5>2. CASE error # run.error
          BY <1>1, <1>3, <4>2, <5>2 DEF CommandInvariant, ProgressIsReal
        <5> QED BY <5>1, <5>2
      <4> QED BY <1>5, <3>1, <3>2, <4>1, <4>2
    <3>3. ASSUME NeverSwappedBack', run'.report.recovery = "target-verified-needs-customization"
          PROVE  disk'["confirmed"] \in Verified
      <4>1. run.verified
        BY <1>5, <1>17, <3>1, <3>3
      <4> QED BY <1>1, <3>3, <4>1 DEF CommandInvariant, ConfirmedIsWritten, NeverSwappedBack
    <3>4. ASSUME NeverSwappedBack', run'.report.recovery = "complete", target' = "confirmed"
          PROVE  disk'["confirmed"] = "customized"
      <4>1. AllChecked
        BY <1>5, <1>17, <3>1, <3>4
      <4>2. NeverSwappedBack /\ target = "confirmed"
        BY <1>1, <3>4 DEF NeverSwappedBack
      <4>3. swaps = 0
        BY <4>2, StillThere DEF CommandInvariant
      <4> QED BY <1>1, <1>18, <4>1, <4>3 DEF CommandInvariant, ConfirmedIsWritten
    <3> QED BY <3>2, <3>3, <3>4 DEF ReportIsHonest, Untouched
  <2>2. CASE run'.pc # "failed"
    BY <2>2 DEF ReportIsHonest
  <2> QED BY <2>1, <2>2
<1>21. /\ run.error.cleanup \/ (run.tracked = <<>> /\ "root" \notin held /\ "lock" \notin held)
       /\ run.error.cleanup => error.cleanup /\ error # NoError
       /\ run.tracked = <<>> => private = {}
  BY <1>1, <1>3, ErrorFacts, NothingTracked DEF CommandInvariant, TracksMounts, HoldsItsResources
<1>22. held \subseteq {"secrets", "workspace", "lock", "root"}
  BY DEF CommandInvariant, TypeOK, Resources
<1>23. SuccessIsComplete'
  <2>1. CASE run'.pc = "succeeded"
    <3>1. /\ error = NoError /\ held' = held \ {"secrets", "workspace"} /\ run.error = NoError
          /\ run.dry \/ run.recovery = "complete"
      BY <1>3, <1>8, <1>19, <2>1
    <3>2. held' = {} /\ private' = {}
      BY <1>1, <1>21, <1>22, <3>1
    <3>3. run'.dry => \A d \in Disks : disk'[d] = "original"
      BY <1>1, <1>8 DEF CommandInvariant, DryTouchesNothing, Untouched
    <3>4. ~run'.dry => run'.checked = Len(Partitions)
      BY <1>8, <1>17, <3>1 DEF AllChecked
    <3>5. ~run'.dry /\ NeverSwappedBack' =>
            disk'["confirmed"] = "customized" /\ disk'["other"] = "original"
      BY <1>1, <1>8, <3>1 DEF CommandInvariant, ConfirmedIsWritten, NeverSwappedBack
    <3> QED BY <3>2, <3>3, <3>4, <3>5 DEF SuccessIsComplete
  <2>2. CASE run'.pc # "succeeded"
    BY <2>2 DEF SuccessIsComplete
  <2> QED BY <2>1, <2>2
<1>24. LeftoversAreReported'
  <2>1. ASSUME held' # {} \/ private' # {}
        PROVE  run'.pc = "failed" /\ run'.report.cleanupFailed
    <3>1. CASE held' = held \ {"secrets", "workspace"}
      <4>1. error.cleanup /\ error # NoError
        BY <1>1, <1>21, <1>22, <2>1, <3>1
      <4> QED BY <1>6, <1>8, <4>1
    <3>2. CASE held' # held \ {"secrets", "workspace"}
      BY <1>6, <1>8, <3>2
    <3> QED BY <3>1, <3>2
  <2>2. run'.report.cleanupFailed => ExitCode(run'.report) = 13
    BY DEF ExitCode
  <2> QED BY <1>9, <2>1, <2>2 DEF LeftoversAreReported
<1> QED
  BY <1>10, <1>11, <1>12, <1>13, <1>14, <1>15, <1>16, <1>20, <1>23, <1>24 DEF CommandInvariant

-----------------------------------------------------------------------------
(* The preparations, and the environment *)

LEMMA PreparationFacts ==
  ASSUME NEW i \in 1 .. Len(Preparations)
  PROVE  /\ Len(Preparations) = 10 /\ i \in 1 .. 10
         /\ Preparations[i].phase \in Phases
         /\ Preparations[i].takes \subseteq {"secrets", "workspace"}
<1>1. Len(Preparations) = 10
  BY DEF Preparations
<1>2. i \in {1, 2, 3, 4, 5, 6, 7, 8, 9, 10}
  BY <1>1
<1>3. \A j \in {1, 2, 3, 4, 5, 6, 7, 8, 9, 10} :
        /\ Preparations[j].phase \in Phases
        /\ Preparations[j].takes \subseteq {"secrets", "workspace"}
  BY DEF Preparations, Preparation, Phases, Destructive
<1> QED BY <1>1, <1>2, <1>3

LEMMA ConcludingFields ==
  ASSUME NEW next \in Runs, NEW error \in Errors,
         run' = [next EXCEPT !.pc = "conclude", !.error = error]
  PROVE  /\ run' \in Runs /\ run'.pc = "conclude" /\ run'.error = error
         /\ \A f \in Fields \ {"pc", "error"} : run'[f] = next[f]
BY DEF Runs, Fields, Programs

LEMMA DryFields ==
  ASSUME NEW next \in Runs, run' = [next EXCEPT !.pc = "conclude"]
  PROVE  /\ run' \in Runs /\ run'.pc = "conclude"
         /\ \A f \in Fields \ {"pc"} : run'[f] = next[f]
BY DEF Runs, Fields, Programs

LEMMA LockIsPhase == "lock" \in Phases
BY DEF Phases, Destructive

LEMMA PreparedFields ==
  ASSUME NEW next \in Runs, NEW phase \in Phases,
         run' = [next EXCEPT !.pc = "lock", !.phase = phase]
  PROVE  /\ run' \in Runs /\ run'.pc = "lock"
         /\ \A f \in Fields \ {"pc", "phase"} : run'[f] = next[f]
BY DEF Runs, Fields, Programs

LEMMA SteppingFields ==
  ASSUME NEW next \in Runs, NEW step \in 1 .. Len(Preparations),
         run' = [next EXCEPT !.step = step]
  PROVE  /\ run' \in Runs /\ run'.step = step
         /\ \A f \in Fields \ {"step"} : run'[f] = next[f]
BY DEF Runs, Fields

LEMMA NextPhaseFields ==
  ASSUME run \in Runs, NEW phase \in Phases
  PROVE  /\ During(run, phase) \in Runs
         /\ \A f \in Fields \ {"phase"} : During(run, phase)[f] = run[f]
BY DEF During, Runs, Fields

LEMMA NextStep ==
  ASSUME NEW step \in 1 .. Len(Preparations), step # Len(Preparations)
  PROVE  /\ step + 1 \in 1 .. Len(Preparations)
         /\ step <= LastDryStep /\ step # LastDryStep => step + 1 <= LastDryStep
<1>1. Len(Preparations) = 10
  BY DEF Preparations
<1> QED BY <1>1 DEF LastDryStep

LEMMA PreparePreserves ==
  ASSUME CommandInvariant, Prepare
  PROVE  CommandInvariant'
<1> DEFINE preparation == Preparations[run.step]
           next == During(run, preparation.phase)
<1>1. /\ run.pc = "prepare" /\ run \in Runs /\ run.step \in 1 .. Len(Preparations)
      /\ UNCHANGED <<disk, foreign, private, target, lookalike, canceled, swaps>>
  BY TypeOfRun DEF Prepare, world, Runs
<1>2. /\ preparation.phase \in Phases /\ preparation.takes \subseteq {"secrets", "workspace"}
      /\ Len(Preparations) = 10 /\ run.step \in 1 .. 10
  BY <1>1, PreparationFacts
<1>3. /\ \/ \E error \in {Other, Guardrail, Rejected} :
              run' = [next EXCEPT !.pc = "conclude", !.error = error]
         \/ run.dry /\ run' = [next EXCEPT !.pc = "conclude"]
         \/ run.step = Len(Preparations) /\ run' = [next EXCEPT !.pc = "lock", !.phase = "lock"]
         \/ /\ ~(run.dry /\ run.step = LastDryStep) /\ run.step # Len(Preparations)
            /\ run' = [next EXCEPT !.step = next.step + 1]
      /\ held' = held \/ held' = held \cup preparation.takes
  BY DEF Prepare
<1>4. /\ held' \subseteq {"secrets", "workspace"} /\ ~run.verified /\ run.error = NoError
      /\ Untouched /\ run.tracked = <<>> /\ private = {} /\ ~run.failures
      /\ run.dry => run.step <= LastDryStep
      /\ run.error.completed = "nothing"
  BY <1>1, <1>2, <1>3, NothingTracked
  DEF CommandInvariant, HoldsItsResources, ProgressIsReal, WritesAreRemembered, TracksMounts,
      DryTouchesNothing
<1>5. /\ next \in Runs /\ \A f \in Fields \ {"phase"} : next[f] = run[f]
  BY <1>1, <1>2, NextPhaseFields
<1> HIDE DEF preparation, next
<1>6. next.step = run.step
  BY <1>5 DEF Fields
<1>7. /\ ChangesOnly({"pc", "phase", "error", "step"})
      /\ \/ run'.pc = "conclude" /\ \E error \in {Other, Guardrail, Rejected} : run'.error = error
         \/ run'.pc = "conclude" /\ run.dry /\ run'.error = run.error
         \/ run'.pc = "lock" /\ ~run.dry /\ run'.error = run.error
         \/ run'.pc = "prepare" /\ run'.error = run.error /\ (run.dry => run'.step <= LastDryStep)
  <2>1. ASSUME NEW error \in {Other, Guardrail, Rejected},
               run' = [next EXCEPT !.pc = "conclude", !.error = error]
        PROVE  <1>7
    <3>1. /\ run' \in Runs /\ run'.pc = "conclude" /\ run'.error = error
          /\ \A f \in Fields \ {"pc", "error"} : run'[f] = next[f]
      BY <1>5, <2>1, ErrorFacts, ConcludingFields
    <3> QED BY <1>5, <3>1 DEF ChangesOnly
  <2>2. ASSUME run.dry, run' = [next EXCEPT !.pc = "conclude"]
        PROVE  <1>7
    <3>1. /\ run' \in Runs /\ run'.pc = "conclude"
          /\ \A f \in Fields \ {"pc"} : run'[f] = next[f]
      BY <1>5, <2>2, DryFields
    <3> QED BY <1>5, <2>2, <3>1 DEF ChangesOnly, Fields
  <2>3. ASSUME run.step = Len(Preparations), run' = [next EXCEPT !.pc = "lock", !.phase = "lock"]
        PROVE  <1>7
    <3>1. /\ run' \in Runs /\ run'.pc = "lock"
          /\ \A f \in Fields \ {"pc", "phase"} : run'[f] = next[f]
      BY <1>5, <2>3, LockIsPhase, PreparedFields
    <3>2. ~run.dry
      <4>1. ~(run.step <= LastDryStep)
        BY <1>2, <2>3 DEF LastDryStep
      <4> QED BY <1>4, <4>1
    <3> QED BY <1>5, <3>1, <3>2 DEF ChangesOnly, Fields
  <2>4. ASSUME ~(run.dry /\ run.step = LastDryStep), run.step # Len(Preparations),
               run' = [next EXCEPT !.step = next.step + 1]
        PROVE  <1>7
    <3>1. /\ run.step + 1 \in 1 .. Len(Preparations)
          /\ run.dry => run.step + 1 <= LastDryStep
      BY <1>1, <1>4, <2>4, NextStep
    <3>2. /\ run' \in Runs /\ run'.step = run.step + 1
          /\ \A f \in Fields \ {"step"} : run'[f] = next[f]
      <4> DEFINE step == run.step + 1
      <4>1. step \in 1 .. Len(Preparations) /\ run' = [next EXCEPT !.step = step]
        BY <1>6, <2>4, <3>1
      <4> HIDE DEF step
      <4>2. /\ run' \in Runs /\ run'.step = step
            /\ \A f \in Fields \ {"step"} : run'[f] = next[f]
        BY <1>5, <4>1, SteppingFields
      <4> QED BY <4>2 DEF step
    <3> QED BY <1>1, <1>5, <3>1, <3>2 DEF ChangesOnly, Fields
  <2> QED BY <1>3, <2>1, <2>2, <2>3, <2>4
<1> USE DEF ChangesOnly, Fields
<1>8. /\ run'.error # NoError \/ (run'.error = NoError /\ (run'.pc = "conclude" => run.dry))
      /\ run'.error.completed = "nothing"
  BY <1>4, <1>7, ErrorFacts
<1>9. TypeOK'
  BY <1>1, <1>4, <1>7 DEF CommandInvariant, TypeOK, Resources
<1>10. HoldsItsResources'
  BY <1>4, <1>7 DEF HoldsItsResources
<1>11. TracksMounts'
  BY <1>1, <1>4, <1>7 DEF TracksMounts
<1>12. DryTouchesNothing'
  BY <1>1, <1>4, <1>7 DEF DryTouchesNothing, Untouched
<1>13. WritesAreRemembered'
  BY <1>1, <1>4 DEF WritesAreRemembered, Untouched
<1>14. FirstSwapLeaves' /\ OpenedHavePartitions'
  BY <1>1, <1>7 DEF CommandInvariant, FirstSwapLeaves, OpenedHavePartitions
<1>15. ProgressIsReal'
  <2>1. /\ run'.recovery = run.recovery /\ run'.verified = run.verified
        /\ run'.inner = run.inner /\ run'.checked = run.checked /\ run'.dry = run.dry
    BY <1>7
  <2>2. ~(run.checked > 0)
    BY <1>4 DEF CommandInvariant, ProgressIsReal
  <2>3. ~Finally /\ ~Finally'
    BY <1>1, <1>7 DEF Finally
  <2>4. run'.pc = "prepare" \/ run'.pc = "lock" => run'.error = NoError
    BY <1>4, <1>7
  <2> QED BY <1>1, <1>4, <1>7, <1>8, <2>1, <2>2, <2>3, <2>4 DEF CommandInvariant, ProgressIsReal, AllChecked
<1>16. ConfirmedIsWritten'
  BY <1>1, <1>4, <1>7, <1>8 DEF CommandInvariant, ConfirmedIsWritten, NeverSwappedBack, Untouched
<1>17. ReportIsHonest' /\ SuccessIsComplete' /\ LeftoversAreReported'
  BY <1>7 DEF ReportIsHonest, SuccessIsComplete, LeftoversAreReported, Ended
<1> QED
  BY <1>9, <1>10, <1>11, <1>12, <1>13, <1>14, <1>15, <1>16, <1>17 DEF CommandInvariant

LEMMA EnvironmentPreserves ==
  ASSUME CommandInvariant, Cancel \/ Swap \/ \E m \in Mountpoints : Automount(m)
  PROVE  CommandInvariant'
<1>1. /\ ~Ended /\ UNCHANGED <<run, disk, private, held, lookalike>>
      /\ canceled' \in BOOLEAN /\ foreign' \subseteq Mountpoints
      /\ \/ UNCHANGED <<target, swaps>>
         \/ swaps < MaxSwaps /\ swaps' = swaps + 1 /\ target' \in (Disks \cup {"gone"}) \ {target}
  BY DEF Cancel, Swap, Automount, CommandInvariant, TypeOK
<1>2. swaps \in Nat /\ swaps \in 0 .. MaxSwaps
  BY SwapAssumption DEF CommandInvariant, TypeOK
<1>3. /\ swaps' \in 0 .. MaxSwaps
      /\ swaps' # swaps => swaps' # 0
      /\ swaps' # swaps /\ swaps' = 1 => swaps = 0
      /\ NeverSwappedBack' => NeverSwappedBack
      /\ swaps' = 0 => swaps = 0
  BY <1>1, <1>2, SwapAssumption DEF NeverSwappedBack
<1>4. TypeOK'
  <2>1. target' \in Disks \cup {"gone"}
    BY <1>1 DEF CommandInvariant, TypeOK
  <2>2. {lookalike, canceled}' \subseteq BOOLEAN
    BY <1>1 DEF CommandInvariant, TypeOK
  <2>3. run' \in Runs /\ disk' \in [Disks -> Contents] /\ private' \subseteq {"boot", "root"}
        /\ held' \subseteq Resources
    BY <1>1 DEF CommandInvariant, TypeOK
  <2>4. swaps' \in 0 .. MaxSwaps
    BY <1>3
  <2>5. foreign' \subseteq Mountpoints
    BY <1>1
  <2> QED BY <2>1, <2>2, <2>3, <2>4, <2>5 DEF TypeOK
<1>5. FirstSwapLeaves'
  BY <1>1, <1>3 DEF CommandInvariant, FirstSwapLeaves
<1>6. ConfirmedIsWritten'
  BY <1>1, <1>3 DEF CommandInvariant, ConfirmedIsWritten
<1>7. ReportIsHonest' /\ SuccessIsComplete' /\ LeftoversAreReported'
  BY <1>1 DEF ReportIsHonest, SuccessIsComplete, LeftoversAreReported, Ended
<1>8. HoldsItsResources' /\ TracksMounts'
  BY <1>1 DEF CommandInvariant, HoldsItsResources, TracksMounts
<1>9. DryTouchesNothing' /\ WritesAreRemembered'
  BY <1>1 DEF CommandInvariant, DryTouchesNothing, WritesAreRemembered, Untouched
<1>10. ProgressIsReal'
  BY <1>1 DEF CommandInvariant, ProgressIsReal, Finally, AllChecked
<1>11. OpenedHavePartitions'
  BY <1>1 DEF CommandInvariant, OpenedHavePartitions, HasPartitions
<1> QED BY <1>4, <1>5, <1>6, <1>7, <1>8, <1>9, <1>10, <1>11 DEF CommandInvariant

-----------------------------------------------------------------------------
(* The theorems *)

LEMMA InitEstablishes == Init => CommandInvariant
<1> SUFFICES ASSUME Init PROVE CommandInvariant
  OBVIOUS
<1>1. PICK dry \in BOOLEAN : run = InitialRun(dry)
  BY DEF Init
<1>2. /\ target = "confirmed" /\ disk = [d \in Disks |-> "original"] /\ private = {} /\ held = {}
      /\ foreign \subseteq Mountpoints /\ swaps = 0 /\ lookalike \in BOOLEAN /\ canceled = FALSE
  BY DEF Init
<1>3. /\ run.pc = "prepare" /\ run.dry = dry /\ run.step = 1 /\ run.error = NoError
      /\ run.recovery = "target-unchanged" /\ run.verified = FALSE /\ run.failures = FALSE
      /\ run.inner = NoError /\ run.checked = 0 /\ run.tracked = <<>> /\ run.opened = {}
  BY <1>1 DEF InitialRun
<1>4. run \in Runs
  <2>1. 1 \in 1 .. Len(Preparations)
    <3>1. Len(Preparations) = 10
      BY DEF Preparations
    <3> QED BY <3>1
  <2>2. 0 \in 0 .. Len(Partitions)
    <3>1. Len(Partitions) = 2
      OBVIOUS
    <3> QED BY <3>1
  <2>3. NoError \in Errors
    BY ErrorFacts
  <2>4. Report("validation", "target-unchanged", FALSE, FALSE) \in Reports
    BY DEF Report, Reports, Phases, RecoveryStates
  <2>5. "validation" \in Phases /\ "target-unchanged" \in RecoveryStates /\ "prepare" \in Programs
    BY DEF Phases, RecoveryStates, Programs
  <2> QED BY <1>1, <2>1, <2>2, <2>3, <2>4, <2>5 DEF InitialRun, Runs
<1>5. Untouched
  BY <1>2 DEF Untouched
<1>6. TypeOK
  <2>1. swaps \in 0 .. MaxSwaps
    BY <1>2, SwapAssumption
  <2>2. {lookalike, canceled} \subseteq BOOLEAN
    BY <1>2
  <2>3. disk \in [Disks -> Contents] /\ target \in Disks \cup {"gone"}
    BY <1>2 DEF Contents
  <2> QED BY <1>2, <1>4, <2>1, <2>2, <2>3 DEF TypeOK
<1>7. HoldsItsResources /\ TracksMounts
  BY <1>2, <1>3, Elements DEF HoldsItsResources, TracksMounts
<1>8. DryTouchesNothing /\ WritesAreRemembered
  BY <1>3, <1>5 DEF DryTouchesNothing, WritesAreRemembered, LastDryStep
<1>9. FirstSwapLeaves /\ OpenedHavePartitions
  BY <1>2, <1>3 DEF FirstSwapLeaves, OpenedHavePartitions
<1>10. ProgressIsReal
  <2>1. ~(run.checked > 0)
    BY <1>3
  <2>2. ~AllChecked
    BY <1>3, PartitionCount DEF AllChecked
  <2>3. NoError.completed = "nothing"
    BY ErrorFacts
  <2>4. ~Finally
    BY <1>3 DEF Finally
  <2> QED BY <1>3, <2>1, <2>2, <2>3, <2>4 DEF ProgressIsReal
<1>11. ConfirmedIsWritten
  <2>1. ~(run.checked > 0)
    BY <1>3
  <2> QED BY <1>2, <1>3, <2>1 DEF ConfirmedIsWritten
<1>12. ReportIsHonest /\ SuccessIsComplete /\ LeftoversAreReported
  BY <1>3 DEF ReportIsHonest, SuccessIsComplete, LeftoversAreReported, Ended
<1> QED BY <1>6, <1>7, <1>8, <1>9, <1>10, <1>11, <1>12 DEF CommandInvariant

LEMMA StutterPreserves == CommandInvariant /\ UNCHANGED vars => CommandInvariant'
<1> SUFFICES ASSUME CommandInvariant, UNCHANGED vars PROVE CommandInvariant'
  OBVIOUS
<1>1. UNCHANGED <<run, target, disk, foreign, private, held, lookalike, canceled, swaps>>
  BY DEF vars
<1>2. TypeOK'
  BY <1>1 DEF CommandInvariant, TypeOK
<1>3. HoldsItsResources' /\ TracksMounts' /\ DryTouchesNothing' /\ WritesAreRemembered'
  BY <1>1 DEF CommandInvariant, HoldsItsResources, TracksMounts, DryTouchesNothing,
              WritesAreRemembered, Untouched
<1>4. FirstSwapLeaves' /\ OpenedHavePartitions'
  BY <1>1 DEF CommandInvariant, FirstSwapLeaves, OpenedHavePartitions, HasPartitions
<1>5. ProgressIsReal'
  BY <1>1 DEF CommandInvariant, ProgressIsReal, Finally, AllChecked
<1>6. ConfirmedIsWritten'
  BY <1>1 DEF CommandInvariant, ConfirmedIsWritten, NeverSwappedBack
<1>7. ReportIsHonest' /\ SuccessIsComplete' /\ LeftoversAreReported'
  BY <1>1 DEF CommandInvariant, ReportIsHonest, SuccessIsComplete, LeftoversAreReported,
              NeverSwappedBack, Ended
<1> QED BY <1>2, <1>3, <1>4, <1>5, <1>6, <1>7 DEF CommandInvariant

LEMMA StepPreserves == CommandInvariant /\ [Next]_vars => CommandInvariant'
<1> SUFFICES ASSUME CommandInvariant, [Next]_vars PROVE CommandInvariant'
  OBVIOUS
<1>1. CASE Prepare BY <1>1, PreparePreserves
<1>2. CASE Lock BY <1>2, LockPreserves
<1>3. CASE Recheck BY <1>3, RecheckPreserves
<1>4. CASE Umount BY <1>4, UmountPreserves
<1>5. CASE OpenWrite BY <1>5, OpenWritePreserves
<1>6. CASE Write BY <1>6, WritePreserves
<1>7. CASE Verify BY <1>7, VerifyPreserves
<1>8. CASE Authorize BY <1>8, AuthorizePreserves
<1>9. CASE Discover BY <1>9, DiscoverPreserves
<1>10. CASE CreateRoot BY <1>10, CreateRootPreserves
<1>11. CASE Mount BY <1>11, MountPreserves
<1>12. CASE Adapt BY <1>12, AdaptPreserves
<1>13. CASE Adapted BY <1>13, AdaptedPreserves
<1>14. CASE UnmountPrivate BY <1>14, UnmountPrivatePreserves
<1>15. CASE Unmounted BY <1>15, UnmountedPreserves
<1>16. CASE Provision BY <1>16, ProvisionPreserves
<1>17. CASE Check BY <1>17, CheckPreserves
<1>18. CASE RemoveRoot BY <1>18, RemoveRootPreserves
<1>19. CASE Customized BY <1>19, CustomizedPreserves
<1>20. CASE CleanupRecheck BY <1>20, CleanupRecheckPreserves
<1>21. CASE CleanupUmount BY <1>21, CleanupUmountPreserves
<1>22. CASE Release BY <1>22, ReleasePreserves
<1>23. CASE Conclude BY <1>23, ConcludePreserves
<1>24. CASE Cancel \/ Swap \/ \E m \in Mountpoints : Automount(m)
  BY <1>24, EnvironmentPreserves
<1>25. CASE UNCHANGED vars BY <1>25, StutterPreserves
<1> QED
  BY <1>1, <1>2, <1>3, <1>4, <1>5, <1>6, <1>7, <1>8, <1>9, <1>10, <1>11, <1>12, <1>13, <1>14,
     <1>15, <1>16, <1>17, <1>18, <1>19, <1>20, <1>21, <1>22, <1>23, <1>24, <1>25
  DEF Next, Command

(* Every reachable state of the command is as the invariant says.          *)
THEOREM CommandInvariance == Spec => []CommandInvariant
<1>1. Init => CommandInvariant
  BY InitEstablishes
<1>2. CommandInvariant /\ [Next]_vars => CommandInvariant'
  BY StepPreserves
<1> QED BY <1>1, <1>2, PTL DEF Spec

(* The types of the variables (orchestrator.ts, transaction.ts).           *)
THEOREM TypeCorrectness == Spec => []TypeOK
<1>1. CommandInvariant => TypeOK
  BY DEF CommandInvariant
<1> QED BY <1>1, CommandInvariance, PTL

(* Whatever fails, and whenever the disk is pulled or the command canceled,*)
(* the report of runImageWorkflow never describes the target better than   *)
(* it is (phaseForFailure and completedRecoveryFor in failure.ts).         *)
THEOREM Honesty == Spec => []ReportIsHonest
<1>1. CommandInvariant => ReportIsHonest
  BY DEF CommandInvariant
<1> QED BY <1>1, CommandInvariance, PTL

(* A success of the command means a verified, customized, checked and      *)
(* unmounted confirmed disk, and no resource kept.                         *)
THEOREM Completeness == Spec => []SuccessIsComplete
<1>1. CommandInvariant => SuccessIsComplete
  BY DEF CommandInvariant
<1> QED BY <1>1, CommandInvariance, PTL

(* What either transaction could not give back is told by the exit code.   *)
THEOREM Leftovers == Spec => []LeftoversAreReported
<1>1. CommandInvariant => LeftoversAreReported
  BY DEF CommandInvariant
<1> QED BY <1>1, CommandInvariance, PTL

(* No check, resize or removal of the mount root meets a mounted partition.*)
THEOREM Spared == Spec => MountsAreSpared
<1>1. CommandInvariant /\ [Next]_vars =>
        [At("check") \/ At("provision") \/ held \ held' = {"root"} => private = {}]_vars
  <2> SUFFICES ASSUME CommandInvariant, Next,
                      At("check") \/ At("provision") \/ held \ held' = {"root"}
               PROVE  private = {}
    OBVIOUS
  <2>1. CASE At("check") \/ At("provision")
    BY <2>1, NothingTracked DEF CommandInvariant, TracksMounts
  <2>2. CASE held \ held' = {"root"}
    <3>1. "root" \in held /\ "root" \notin held'
      BY <2>2
    <3>2. held \subseteq {"secrets", "workspace", "lock", "root"}
      BY DEF CommandInvariant, TypeOK, Resources
    <3>3. RemoveRoot
      BY <3>1
      DEF Next, Command, Prepare, Lock, Recheck, Umount, OpenWrite, Write, Verify, Authorize,
          Discover, CreateRoot, Mount, Adapt, Adapted, UnmountPrivate, Unmounted, Provision, Check,
          Customized, CleanupRecheck, CleanupUmount, Release, Conclude, Cancel, Swap, Automount, world
    <3>4. run.tracked = <<>>
      BY <3>1, <3>3 DEF RemoveRoot
    <3> QED BY <3>4, NothingTracked DEF CommandInvariant
  <2> QED BY <2>1, <2>2
<1> QED BY <1>1, CommandInvariance, PTL DEF Spec, MountsAreSpared

(* The customization writes to a disk only behind the verification of the  *)
(* confirmed one (authorize in transaction.ts), and only to a disk laid    *)
(* out like the image.                                                     *)
THEOREM CustomizedAfterVerified == Spec => OnlyVerifiedIsCustomized
<1> DEFINE Change == \A d \in Disks :
       disk'[d] # disk[d] /\ disk'[d] \in {"modified", "customized"} =>
         /\ run.verified /\ HasLayout
         /\ NeverSwappedBack => disk["confirmed"] \in Verified
<1>1. CommandInvariant /\ [Next]_vars => [Change]_vars
  <2> SUFFICES ASSUME CommandInvariant, Next, NEW d \in Disks,
                      disk'[d] # disk[d], disk'[d] \in {"modified", "customized"}
               PROVE  run.verified /\ HasLayout /\ (NeverSwappedBack => disk["confirmed"] \in Verified)
    OBVIOUS
  <2>1. Write \/ Adapted \/ Provision
    BY DEF Next, Command, Prepare, Lock, Recheck, Umount, OpenWrite, Verify, Authorize,
          Discover, CreateRoot, Mount, Adapt, UnmountPrivate, Unmounted, Check, RemoveRoot,
          Customized, CleanupRecheck, CleanupUmount, Release, Conclude, Cancel, Swap, Automount, world
  <2>2. disk \in [Disks -> Contents]
    BY DEF CommandInvariant, TypeOK
  <2>3. ~Write
    BY <2>2 DEF Write, Writes
  <2>4. run.pc \in {"adapting", "provision"} /\ run.verified
    BY <2>1, <2>3 DEF Adapted, Provision, CommandInvariant, ProgressIsReal
  <2>5. HasLayout
    <3>1. CASE Adapted
      <4>1. target \in run.opened /\ run.pc = "adapting"
        BY <3>1 DEF Adapted, Reachable
      <4>2. target \in Disks /\ HasPartitions(target)
        BY <4>1, TypeOfRun DEF CommandInvariant, OpenedHavePartitions, Runs
      <4> QED BY <4>2 DEF HasPartitions, HasLayout
    <3>2. CASE Provision
      BY <3>2 DEF Provision
    <3> QED BY <2>1, <2>3, <3>1, <3>2
  <2> QED BY <2>4, <2>5 DEF CommandInvariant, ConfirmedIsWritten
<1> QED BY <1>1, CommandInvariance, PTL DEF Spec, OnlyVerifiedIsCustomized
=============================================================================
