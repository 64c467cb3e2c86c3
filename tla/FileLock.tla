------------------------------ MODULE FileLock ------------------------------
(***************************************************************************)
(* The lock files of the command line (packages/cli/src/images/            *)
(* file-lock.ts and lock-owner.ts), which guard the artifact cache and the *)
(* target device.  A lock is a file that names its owner, published by     *)
(* link(2).  The file of an owner that died is removed by a process that   *)
(* holds the lock's recovery lock, another file of the same kind, whose    *)
(* own recovery lock is a third one, and so on: level 0 is the lock, level *)
(* k + 1 the recovery lock of level k.                                     *)
(*                                                                         *)
(* An owner's identity holds a random token, so a caller's identity here   *)
(* is the caller itself.  The candidate file from which a lock is linked   *)
(* never decides ownership and is left out.                                *)
(***************************************************************************)
EXTENDS Integers

CONSTANTS
  Lockers,     (* the callers of acquireFileLock                    *)
  Processes,   (* the processes they run in                         *)
  ProcessOf,   (* the process of each caller                        *)
  NoOwner,     (* the lock file does not exist                      *)
  Depth,       (* bound on the levels of recovery locks             *)
  MaxLockFaults (* bound on file operations that fail                *)

ASSUME ProcessAssumption == ProcessOf \in [Lockers -> Processes]
ASSUME OwnerAssumption == NoOwner \notin Lockers
ASSUME DepthAssumption == Depth \in Nat /\ MaxLockFaults \in Nat

Levels == 0 .. Depth

VARIABLES
  file,       (* the owner each lock file names                          *)
  pc,         (* where each caller is                                    *)
  level,      (* the level each caller is acquiring, or holds            *)
  observed,   (* the owner each caller observed, per level               *)
  dead,       (* processes that died                                     *)
  lockFaults  (* faults so far                                           *)

lockVars == <<file, pc, level, observed, dead, lockFaults>>

Labels == {"idle", "try", "observe", "assess", "recheck", "confirm", "remove",
           "critical", "release", "unlink"}

LockInit ==
  /\ file = [l \in Levels |-> NoOwner]
  /\ pc = [c \in Lockers |-> "idle"]
  /\ level = [c \in Lockers |-> 0]
  /\ observed = [c \in Lockers |-> [l \in Levels |-> NoOwner]]
  /\ dead = {}
  /\ lockFaults = 0

Alive(c) == ProcessOf[c] \notin dead

LockAt(c, label) == Alive(c) /\ pc[c] = label
LockGoto(c, label) == pc' = [pc EXCEPT ![c] = label]
Descend(c) == level' = [level EXCEPT ![c] = @ - 1]

-----------------------------------------------------------------------------
(* acquireFileLockUntil                                                    *)

Call(c) ==
  /\ LockAt(c, "idle")
  /\ LockGoto(c, "try")
  /\ level' = [level EXCEPT ![c] = 0]
  /\ observed' = [observed EXCEPT ![c] = [l \in Levels |-> NoOwner]]
  /\ UNCHANGED <<file, dead, lockFaults>>

(* link(2) publishes the lock, unless there is one.                        *)
TryAcquire(c) ==
  /\ LockAt(c, "try")
  /\ IF file[level[c]] = NoOwner
     THEN /\ file' = [file EXCEPT ![level[c]] = c]
          /\ LockGoto(c, IF level[c] = 0 THEN "critical" ELSE "recheck")
     ELSE LockGoto(c, "observe") /\ UNCHANGED file
  /\ observed' = [observed EXCEPT ![c][level[c]] = NoOwner]
  /\ UNCHANGED <<level, dead, lockFaults>>

Observe(c) ==
  /\ LockAt(c, "observe")
  /\ observed' = [observed EXCEPT ![c][level[c]] = file[level[c]]]
  /\ LockGoto(c, IF file[level[c]] = NoOwner THEN "try" ELSE "assess")
  /\ UNCHANGED <<file, level, dead, lockFaults>>

(* Mutant: every owner is taken to be alive.                               *)
AssessAlive(c) ==
  /\ LockAt(c, "assess")
  /\ LockGoto(c, "try")
  /\ UNCHANGED <<file, level, observed, dead, lockFaults>>

(* An owner that is alive is waited for; the lock of a dead one is         *)
(* recovered under the recovery lock.                                      *)
Assess(c) ==
  /\ LockAt(c, "assess")
  /\ \/ Alive(observed[c][level[c]]) /\ UNCHANGED level
     \/ /\ ~Alive(observed[c][level[c]])
        /\ level[c] < Depth
        /\ level' = [level EXCEPT ![c] = @ + 1]
  /\ LockGoto(c, "try")
  /\ UNCHANGED <<file, observed, dead, lockFaults>>

(* The deadline passes, or the caller is canceled, at any level.           *)
GiveUp(c) ==
  /\ pc[c] \in {"try", "assess"} /\ Alive(c)
  /\ LockGoto(c, "idle")
  /\ level' = [level EXCEPT ![c] = 0]
  /\ UNCHANGED <<file, observed, dead, lockFaults>>

-----------------------------------------------------------------------------
(* recoverStaleLock: the caller holds the recovery lock of the level below *)

(* Mutant: the lock is removed without being read again.                   *)
RecheckNothing(c) ==
  /\ LockAt(c, "recheck")
  /\ LockGoto(c, "remove")
  /\ UNCHANGED <<file, level, observed, dead, lockFaults>>

Recheck(c) ==
  LET stale == level[c] - 1
  IN  /\ LockAt(c, "recheck")
      /\ LockGoto(c, IF file[stale] # NoOwner /\ file[stale] = observed[c][stale]
                 THEN "confirm" ELSE "release")
      /\ UNCHANGED <<file, level, observed, dead, lockFaults>>

Confirm(c) ==
  /\ LockAt(c, "confirm")
  /\ LockGoto(c, IF Alive(observed[c][level[c] - 1]) THEN "release" ELSE "remove")
  /\ UNCHANGED <<file, level, observed, dead, lockFaults>>

Remove(c) ==
  /\ LockAt(c, "remove")
  /\ file' = [file EXCEPT ![level[c] - 1] = NoOwner]
  /\ LockGoto(c, "release")
  /\ UNCHANGED <<level, observed, dead, lockFaults>>

-----------------------------------------------------------------------------
(* Releasing: the file is read, and removed if it still names the caller.  *)

LeaveLock(c) ==
  /\ LockAt(c, "critical")
  /\ LockGoto(c, "release")
  /\ UNCHANGED <<file, level, observed, dead, lockFaults>>

(* Released: back to acquiring the level below, or done.                   *)
Released(c) ==
  IF level[c] = 0 THEN LockGoto(c, "idle") /\ UNCHANGED level
  ELSE LockGoto(c, "try") /\ Descend(c)

Release(c) ==
  /\ LockAt(c, "release")
  /\ IF file[level[c]] = c THEN LockGoto(c, "unlink") /\ UNCHANGED level ELSE Released(c)
  /\ UNCHANGED <<file, observed, dead, lockFaults>>

Unlink(c) ==
  /\ LockAt(c, "unlink")
  /\ file' = [file EXCEPT ![level[c]] = NoOwner]
  /\ Released(c)
  /\ UNCHANGED <<observed, dead, lockFaults>>

(* A file cannot be read or removed: the call fails.  The recovery lock is *)
(* released first when the failure is not in its own release.              *)
LockFault(c) ==
  /\ Alive(c) /\ lockFaults < MaxLockFaults
  /\ lockFaults' = lockFaults + 1
  /\ \/ /\ pc[c] \in {"observe", "release", "unlink"}
        /\ LockGoto(c, "idle")
        /\ level' = [level EXCEPT ![c] = 0]
        /\ UNCHANGED file
     \/ /\ pc[c] \in {"recheck", "remove"}
        /\ file' = [file EXCEPT ![level[c]] = NoOwner]
        /\ LockGoto(c, "idle")
        /\ level' = [level EXCEPT ![c] = 0]
  /\ UNCHANGED <<observed, dead>>

(* A process dies with its callers; its lock files stay.                   *)
Die(p) ==
  /\ p \notin dead
  /\ dead' = dead \cup {p}
  /\ UNCHANGED <<file, pc, level, observed, lockFaults>>

Step(c) ==
  \/ TryAcquire(c) \/ Observe(c) \/ Assess(c)
  \/ Recheck(c) \/ Confirm(c) \/ Remove(c)
  \/ LeaveLock(c) \/ Release(c) \/ Unlink(c)

LockNext ==
  \/ \E c \in Lockers : Call(c) \/ Step(c) \/ GiveUp(c) \/ LockFault(c)
  \/ \E p \in Processes : Die(p)

LockSpec == LockInit /\ [][LockNext]_lockVars

(* A caller's polling loop runs on, and a lock is not held for ever.       *)
FairLocks == LockSpec /\ \A c \in Lockers : WF_lockVars(Step(c))

-----------------------------------------------------------------------------
LockTypeOK ==
  /\ file \in [Levels -> Lockers \cup {NoOwner}]
  /\ pc \in [Lockers -> Labels]
  /\ level \in [Lockers -> Levels]
  /\ observed \in [Lockers -> [Levels -> Lockers \cup {NoOwner}]]
  /\ dead \subseteq Processes
  /\ lockFaults \in 0 .. MaxLockFaults

(* The caller was given the lock of its level and has not released it.     *)
Holds(c, l) ==
  /\ Alive(c) /\ level[c] = l
  /\ pc[c] \in {"critical", "recheck", "confirm", "remove", "release", "unlink"}

(* A lock has one holder at a time, however many owners of it and of its   *)
(* recovery locks died, and however late their files are recovered.        *)
MutualExclusion ==
  \A l \in Levels : \A c, d \in Lockers : Holds(c, l) /\ Holds(d, l) => c = d

(* The lock of a live holder is removed by nobody but the holder.          *)
LiveLockIsKept ==
  [][\A c \in Lockers, l \in Levels :
       Holds(c, l) /\ file[l] = c /\ file'[l] # c => pc[c] # pc'[c]]_lockVars

Waiting(c) ==
  /\ Alive(c)
  /\ level[c] > 0 \/ pc[c] \in {"try", "observe", "assess"}

(* The release of some lock failed: its file names a process that lives,   *)
(* and that no longer holds it.                                            *)
Leaked ==
  \E l \in Levels : file[l] # NoOwner /\ Alive(file[l]) /\ ~Holds(file[l], l)

(* No deadline passes any more.                                            *)
Patience == <>[][\A c \in Lockers : ~GiveUp(c)]_lockVars

(* Whatever died, whoever waits is answered: somebody enters, or nobody    *)
(* waits any more.  The one exception is a lock whose release failed while *)
(* its process lives on: nobody recovers it (file-lock.ts:71).             *)
Progress ==
  Patience =>
    \A c \in Lockers :
      Waiting(c) ~> \/ \E d \in Lockers : LockAt(d, "critical")
                   \/ \A d \in Lockers : ~Waiting(d)
                   \/ Leaked
=============================================================================
