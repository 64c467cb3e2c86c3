------------------------ MODULE ArtifactCache_proofs ------------------------
(***************************************************************************)
(* Proofs about the lock files, for any callers and processes, any number  *)
(* of recovery levels, deaths and faults; then about the artifact cache    *)
(* that such a lock guards, for any number of callers and faults and an    *)
(* artifact of any length.                                                 *)
(***************************************************************************)
EXTENDS FileLock, ArtifactCache, TLAPS

-----------------------------------------------------------------------------
(* The lock files.                                                         *)

(* Only a recovery lock is held while a stale file is looked at.           *)
RecoveryLevel ==
  \A c \in Lockers : pc[c] \in {"recheck", "confirm", "remove"} => level[c] > 0

(* What a caller assesses is an owner.                                     *)
OwnerIsAssessed == \A c \in Lockers : pc[c] = "assess" => observed[c][level[c]] \in Lockers

(* A caller climbs over dead owners only.                                  *)
ClimbedOverDead ==
  \A c \in Lockers : \A l \in Levels :
    l < level[c] => observed[c][l] \in Lockers /\ ~Alive(observed[c][l])

(* The file of a lock that is held names its holder.                       *)
HolderIsNamed == \A c \in Lockers : Holds(c, level[c]) => file[level[c]] = c

(* Once read again under the recovery lock, a stale file does not change.  *)
StaleFileIsStable ==
  \A c \in Lockers : LockAt(c, "confirm") \/ LockAt(c, "remove") =>
    file[level[c] - 1] = observed[c][level[c] - 1]

LockInvariant ==
  /\ LockTypeOK /\ RecoveryLevel /\ OwnerIsAssessed /\ ClimbedOverDead
  /\ HolderIsNamed /\ StaleFileIsStable

LEMMA InvariantInit == LockInit => LockInvariant
BY ProcessAssumption, OwnerAssumption, DepthAssumption
DEF LockInit, LockInvariant, LockTypeOK, RecoveryLevel, OwnerIsAssessed, ClimbedOverDead, HolderIsNamed,
    StaleFileIsStable, Holds, LockAt, Alive, Levels, Labels

(* What a stale file names is dead, so no caller that is alive holds it.   *)
LEMMA StaleFileIsDead ==
  ASSUME LockInvariant, NEW c \in Lockers, LockAt(c, "confirm") \/ LockAt(c, "remove")
  PROVE  /\ level[c] - 1 \in Levels
         /\ file[level[c] - 1] \in Lockers
         /\ ~Alive(file[level[c] - 1])
BY DepthAssumption
DEF LockInvariant, LockTypeOK, RecoveryLevel, OwnerIsAssessed, ClimbedOverDead, StaleFileIsStable, LockAt, Levels

-----------------------------------------------------------------------------
(* Steps that leave the files alone                                        *)

LEMMA CallPreserves ==
  ASSUME LockInvariant, NEW c \in Lockers, Call(c) \/ GiveUp(c)
  PROVE  LockInvariant'
<1>1. CASE Call(c)
  <2>1. /\ observed' = [observed EXCEPT ![c] = [l \in Levels |-> NoOwner]]
        /\ level' = [level EXCEPT ![c] = 0] /\ pc' = [pc EXCEPT ![c] = "try"]
        /\ UNCHANGED <<file, dead, lockFaults>>
    BY <1>1 DEF Call, LockGoto
  <2>2. LockTypeOK'
    BY <2>1, DepthAssumption DEF LockInvariant, LockTypeOK, Levels, Labels
  <2>3. \A d \in Lockers : d # c => /\ observed'[d] = observed[d]
                                   /\ level'[d] = level[d] /\ pc'[d] = pc[d]
    BY <2>1 DEF LockInvariant, LockTypeOK
  <2>4. level'[c] = 0 /\ pc'[c] = "try"
    BY <2>1 DEF LockInvariant, LockTypeOK
  <2> QED
    BY <2>1, <2>2, <2>3, <2>4
    DEF LockInvariant, RecoveryLevel, OwnerIsAssessed, ClimbedOverDead, HolderIsNamed,
        StaleFileIsStable, Holds, LockAt, Alive, Levels
<1>2. CASE GiveUp(c)
  BY <1>2, DepthAssumption, OwnerAssumption
  DEF LockInvariant, LockTypeOK, RecoveryLevel, OwnerIsAssessed, ClimbedOverDead, HolderIsNamed,
      StaleFileIsStable, Holds, LockAt, Alive, Levels, Labels, LockGoto, GiveUp
<1> QED
  BY <1>1, <1>2

LEMMA ObservePreserves ==
  ASSUME LockInvariant, NEW c \in Lockers, Observe(c)
  PROVE  LockInvariant'
<1> DEFINE owner == file[level[c]]
<1>1. /\ level[c] \in Levels /\ owner \in Lockers \cup {NoOwner}
      /\ LockAt(c, "observe") /\ Alive(c)
      /\ UNCHANGED <<file, level, dead, lockFaults>>
  BY DEF LockInvariant, LockTypeOK, Observe, LockAt
<1>2. LockTypeOK'
  BY <1>1 DEF LockInvariant, LockTypeOK, Observe, LockGoto, Labels
<1>3. \A d \in Lockers : d # c => observed'[d] = observed[d] /\ pc'[d] = pc[d]
  BY DEF LockInvariant, LockTypeOK, Observe, LockGoto
<1>4. /\ observed'[c][level[c]] = owner
      /\ \A l \in Levels : l # level[c] => observed'[c][l] = observed[c][l]
      /\ pc'[c] = IF owner = NoOwner THEN "try" ELSE "assess"
  BY <1>1 DEF LockInvariant, LockTypeOK, Observe, LockGoto
<1>5. OwnerIsAssessed'
  BY <1>1, <1>3, <1>4 DEF LockInvariant, OwnerIsAssessed
<1>6. ClimbedOverDead'
  BY <1>1, <1>3, <1>4, DepthAssumption DEF LockInvariant, ClimbedOverDead, Alive, Levels
<1> QED
  BY <1>1, <1>2, <1>3, <1>4, <1>5, <1>6
  DEF LockInvariant, RecoveryLevel, HolderIsNamed, StaleFileIsStable, Holds, LockAt, Alive

LEMMA AssessPreserves ==
  ASSUME LockInvariant, NEW c \in Lockers, Assess(c)
  PROVE  LockInvariant'
<1>1. /\ level[c] \in Levels /\ pc[c] = "assess" /\ observed[c][level[c]] \in Lockers
      /\ UNCHANGED <<file, observed, dead, lockFaults>>
  BY DEF LockInvariant, LockTypeOK, OwnerIsAssessed, Assess, LockAt
<1>2. /\ pc'[c] = "try"
      /\ \/ level'[c] = level[c]
         \/ /\ ~Alive(observed[c][level[c]])
            /\ level[c] < Depth
            /\ level'[c] = level[c] + 1
      /\ \A d \in Lockers : d # c => level'[d] = level[d] /\ pc'[d] = pc[d]
  BY DEF LockInvariant, LockTypeOK, Assess, LockGoto
<1>3. LockTypeOK'
  BY <1>1, DepthAssumption DEF LockInvariant, LockTypeOK, Assess, LockGoto, Labels, Levels
<1>4. ClimbedOverDead'
  BY <1>1, <1>2, DepthAssumption DEF LockInvariant, ClimbedOverDead, Alive, Levels
<1> QED
  BY <1>1, <1>2, <1>3, <1>4
  DEF LockInvariant, RecoveryLevel, OwnerIsAssessed, HolderIsNamed, StaleFileIsStable,
      Holds, LockAt, Alive

LEMMA RecheckPreserves ==
  ASSUME LockInvariant, NEW c \in Lockers, Recheck(c) \/ Confirm(c) \/ LeaveLock(c)
  PROVE  LockInvariant'
<1>1. /\ level[c] \in Levels /\ Alive(c)
      /\ pc[c] \in {"recheck", "confirm", "critical"}
      /\ UNCHANGED <<file, level, observed, dead, lockFaults>>
  BY DEF LockInvariant, LockTypeOK, Recheck, Confirm, LeaveLock, LockAt
<1>2. \A d \in Lockers : d # c => pc'[d] = pc[d]
  BY DEF LockInvariant, LockTypeOK, Recheck, Confirm, LeaveLock, LockGoto
<1>3. /\ pc'[c] \in {"confirm", "remove", "release"}
      /\ pc'[c] = "confirm" => /\ pc[c] = "recheck"
                               /\ file[level[c] - 1] = observed[c][level[c] - 1]
      /\ pc'[c] = "remove" => pc[c] = "confirm"
  BY DEF LockInvariant, LockTypeOK, Recheck, Confirm, LeaveLock, LockGoto, LockAt
<1>4. LockTypeOK'
  BY <1>1, <1>2, <1>3 DEF LockInvariant, LockTypeOK, Recheck, Confirm, LeaveLock, LockGoto, Labels
<1>5. RecoveryLevel' /\ OwnerIsAssessed' /\ ClimbedOverDead' /\ HolderIsNamed'
  BY <1>1, <1>2, <1>3
  DEF LockInvariant, RecoveryLevel, OwnerIsAssessed, ClimbedOverDead, HolderIsNamed,
      Holds, Alive
<1>6. StaleFileIsStable'
  BY <1>1, <1>2, <1>3 DEF LockInvariant, StaleFileIsStable, LockAt, Alive
<1> QED
  BY <1>4, <1>5, <1>6 DEF LockInvariant

LEMMA DiePreserves ==
  ASSUME LockInvariant, NEW p \in Processes, Die(p)
  PROVE  LockInvariant'
BY DepthAssumption, OwnerAssumption
DEF LockInvariant, LockTypeOK, RecoveryLevel, OwnerIsAssessed, ClimbedOverDead, HolderIsNamed, StaleFileIsStable,
    Holds, LockAt, Alive, Levels, Labels, Die

-----------------------------------------------------------------------------
(* Steps that change a file                                                *)

(* A file that did not exist, or named the caller that changes it, is no   *)
(* stale file another caller is about to remove.                           *)
LEMMA TryAcquirePreserves ==
  ASSUME LockInvariant, NEW c \in Lockers, TryAcquire(c)
  PROVE  LockInvariant'
<1>1. /\ level[c] \in Levels /\ pc[c] = "try" /\ Alive(c)
      /\ UNCHANGED <<level, dead, lockFaults>>
  BY DEF LockInvariant, LockTypeOK, TryAcquire, LockAt
<1>2. /\ \A d \in Lockers : d # c => observed'[d] = observed[d] /\ pc'[d] = pc[d]
      /\ \A l \in Levels : l # level[c] => observed'[c][l] = observed[c][l]
  BY DEF LockInvariant, LockTypeOK, TryAcquire, LockGoto
<1>3. LockTypeOK'
  BY <1>1 DEF LockInvariant, LockTypeOK, TryAcquire, LockGoto, Labels
<1>4. \/ /\ file[level[c]] = NoOwner
         /\ file'[level[c]] = c
         /\ \A l \in Levels : l # level[c] => file'[l] = file[l]
         /\ pc'[c] = IF level[c] = 0 THEN "critical" ELSE "recheck"
      \/ pc'[c] = "observe" /\ file' = file
  BY <1>1 DEF LockInvariant, LockTypeOK, TryAcquire, LockGoto
<1>5. RecoveryLevel'
  BY <1>1, <1>2, <1>4, DepthAssumption DEF LockInvariant, RecoveryLevel, Levels
<1>6. OwnerIsAssessed'
  BY <1>1, <1>2, <1>4 DEF LockInvariant, OwnerIsAssessed
<1>7. ClimbedOverDead'
  BY <1>1, <1>2, DepthAssumption DEF LockInvariant, ClimbedOverDead, Alive, Levels
<1>8. HolderIsNamed'
  BY <1>1, <1>2, <1>4, OwnerAssumption
  DEF LockInvariant, LockTypeOK, HolderIsNamed, Holds, Alive
<1>9. StaleFileIsStable'
  BY <1>1, <1>2, <1>4, StaleFileIsDead, OwnerAssumption
  DEF LockInvariant, StaleFileIsStable, LockAt, Alive
<1> QED
  BY <1>3, <1>5, <1>6, <1>7, <1>8, <1>9 DEF LockInvariant

(* A holder removes the file of the lock it holds, and lets go of it.      *)
LEMMA LettingGoPreserves ==
  ASSUME LockInvariant, NEW c \in Lockers, Alive(c),
         pc[c] \in {"recheck", "remove", "release", "unlink"},
         file' = file \/ file' = [file EXCEPT ![level[c]] = NoOwner],
         \/ /\ pc' = [pc EXCEPT ![c] = "idle"]
            /\ level' = level \/ level' = [level EXCEPT ![c] = 0]
         \/ /\ pc' = [pc EXCEPT ![c] = "try"]
            /\ level[c] > 0 /\ level' = [level EXCEPT ![c] = @ - 1],
         lockFaults' \in 0 .. MaxLockFaults, observed' = observed, dead' = dead
  PROVE  LockInvariant'
<1>1. /\ level[c] \in Levels
      /\ file[level[c]] = c
  BY DEF LockInvariant, LockTypeOK, HolderIsNamed, Holds
<1>2. /\ \A d \in Lockers : d # c => level'[d] = level[d] /\ pc'[d] = pc[d]
      /\ pc'[c] \in {"idle", "try"} /\ level'[c] \in Levels /\ level'[c] <= level[c]
      /\ \A l \in Levels : l # level[c] => file'[l] = file[l]
  BY <1>1, DepthAssumption DEF LockInvariant, LockTypeOK, Levels
<1>3. LockTypeOK'
  <2>1. level' \in [Lockers -> Levels]
    <3>1. 0 \in Levels /\ (level[c] > 0 => level[c] - 1 \in Levels)
      BY <1>1, DepthAssumption DEF Levels
    <3>2. level \in [Lockers -> Levels]
      BY DEF LockInvariant, LockTypeOK
    <3> QED
      BY <3>1, <3>2
  <2>2. pc' \in [Lockers -> Labels] /\ file' \in [Levels -> Lockers \cup {NoOwner}]
    BY <1>1 DEF LockInvariant, LockTypeOK, Labels
  <2> QED
    BY <2>1, <2>2 DEF LockInvariant, LockTypeOK
<1>4. RecoveryLevel' /\ OwnerIsAssessed'
  BY <1>2 DEF LockInvariant, RecoveryLevel, OwnerIsAssessed
<1>5. ClimbedOverDead'
  BY <1>1, <1>2, DepthAssumption DEF LockInvariant, ClimbedOverDead, Alive, Levels
<1>6. HolderIsNamed'
  BY <1>1, <1>2 DEF LockInvariant, LockTypeOK, HolderIsNamed, Holds, Alive
<1>7. StaleFileIsStable'
  BY <1>1, <1>2, StaleFileIsDead DEF LockInvariant, StaleFileIsStable, LockAt, Alive
<1> QED
  BY <1>3, <1>4, <1>5, <1>6, <1>7 DEF LockInvariant

LEMMA ReleasePreserves ==
  ASSUME LockInvariant, NEW c \in Lockers, Release(c) \/ Unlink(c)
  PROVE  LockInvariant'
<1>1. /\ level[c] \in Levels /\ lockFaults \in 0 .. MaxLockFaults
      /\ pc[c] \in {"release", "unlink"} /\ Alive(c)
      /\ UNCHANGED <<observed, dead, lockFaults>>
  BY DEF LockInvariant, LockTypeOK, Release, Unlink, LockAt
<1>2. file[level[c]] = c
  BY <1>1 DEF LockInvariant, HolderIsNamed, Holds
<1>3. CASE Release(c)
  <2>1. pc' = [pc EXCEPT ![c] = "unlink"] /\ UNCHANGED <<file, level>>
    BY <1>2, <1>3 DEF Release, LockGoto
  <2>2. LockTypeOK'
    BY <1>1, <2>1 DEF LockInvariant, LockTypeOK, Labels
  <2>3. pc'[c] = "unlink" /\ \A d \in Lockers : d # c => pc'[d] = pc[d]
    BY <2>1 DEF LockInvariant, LockTypeOK
  <2> QED
    BY <1>1, <2>1, <2>2, <2>3
    DEF LockInvariant, RecoveryLevel, OwnerIsAssessed, ClimbedOverDead, HolderIsNamed,
        StaleFileIsStable, Holds, LockAt, Alive
<1>4. CASE Unlink(c)
  <2>1. /\ file' = [file EXCEPT ![level[c]] = NoOwner]
        /\ \/ pc' = [pc EXCEPT ![c] = "idle"] /\ level' = level
           \/ /\ pc' = [pc EXCEPT ![c] = "try"]
              /\ level[c] # 0 /\ level' = [level EXCEPT ![c] = @ - 1]
    BY <1>4 DEF Unlink, Released, Descend, LockGoto
  <2>2. level[c] # 0 => level[c] > 0
    BY <1>1, DepthAssumption DEF Levels
  <2> QED
    BY <1>1, <2>1, <2>2, LettingGoPreserves
<1> QED
  BY <1>3, <1>4

(* Letting go of the file of its lock is all a caller that holds one       *)
(* loses; one that failed to observe holds none.                           *)
LEMMA FaultPreserves ==
  ASSUME LockInvariant, NEW c \in Lockers, LockFault(c)
  PROVE  LockInvariant'
<1>1. /\ level[c] \in Levels /\ Alive(c) /\ lockFaults' \in 0 .. MaxLockFaults
      /\ pc' = [pc EXCEPT ![c] = "idle"] /\ level' = [level EXCEPT ![c] = 0]
      /\ UNCHANGED <<observed, dead>>
  BY DepthAssumption DEF LockInvariant, LockTypeOK, LockFault, LockGoto
<1>2. CASE pc[c] = "observe"
  <2>1. UNCHANGED file
    BY <1>2 DEF LockFault
  <2>2. LockTypeOK'
    BY <1>1, <2>1, DepthAssumption DEF LockInvariant, LockTypeOK, Labels, Levels
  <2>3. /\ pc'[c] = "idle" /\ level'[c] = 0
        /\ \A d \in Lockers : d # c => pc'[d] = pc[d] /\ level'[d] = level[d]
    BY <1>1 DEF LockInvariant, LockTypeOK
  <2>4. ClimbedOverDead'
    BY <1>1, <2>3 DEF LockInvariant, ClimbedOverDead, Alive, Levels
  <2> QED
    BY <1>1, <2>1, <2>2, <2>3, <2>4
    DEF LockInvariant, RecoveryLevel, OwnerIsAssessed, HolderIsNamed, StaleFileIsStable,
        Holds, LockAt, Alive
<1>3. CASE pc[c] # "observe"
  <2>1. /\ pc[c] \in {"recheck", "remove", "release", "unlink"}
        /\ file' = file \/ file' = [file EXCEPT ![level[c]] = NoOwner]
    BY <1>3 DEF LockFault
  <2> QED
    BY <1>1, <2>1, LettingGoPreserves
<1> QED
  BY <1>2, <1>3

LEMMA RemovePreserves ==
  ASSUME LockInvariant, NEW c \in Lockers, Remove(c)
  PROVE  LockInvariant'
<1> DEFINE stale == level[c] - 1
<1>1. /\ level[c] \in Levels /\ pc[c] = "remove" /\ Alive(c)
      /\ UNCHANGED <<level, observed, dead, lockFaults>>
  BY DEF LockInvariant, LockTypeOK, Remove, LockAt
<1>2. /\ stale \in Levels
      /\ file[stale] \in Lockers
      /\ ~Alive(file[stale])
  BY StaleFileIsDead DEF Remove
<1>3. /\ pc'[c] = "release"
      /\ \A d \in Lockers : d # c => pc'[d] = pc[d]
      /\ \A l \in Levels : l # stale => file'[l] = file[l]
  BY <1>2 DEF LockInvariant, LockTypeOK, Remove, LockGoto
<1>4. LockTypeOK'
  BY <1>1, <1>2 DEF LockInvariant, LockTypeOK, Remove, LockGoto, Labels
<1>5. RecoveryLevel' /\ OwnerIsAssessed' /\ ClimbedOverDead'
  BY <1>1, <1>3 DEF LockInvariant, RecoveryLevel, OwnerIsAssessed, ClimbedOverDead, Alive
<1>6. HolderIsNamed'
  BY <1>1, <1>2, <1>3 DEF LockInvariant, LockTypeOK, HolderIsNamed, Holds, Alive
<1>7. StaleFileIsStable'
  <2>1. SUFFICES ASSUME NEW d \in Lockers, (LockAt(d, "confirm") \/ LockAt(d, "remove"))'
                 PROVE  file'[level[d] - 1] = observed[d][level[d] - 1]
    BY <1>1 DEF StaleFileIsStable
  <2>2. d # c /\ (LockAt(d, "confirm") \/ LockAt(d, "remove"))
    BY <1>1, <1>3, <2>1 DEF LockAt, Alive
  <2>3. level[d] # level[c]
    BY <1>1, <2>2 DEF LockInvariant, LockTypeOK, HolderIsNamed, Holds, LockAt
  <2>4. level[d] \in Levels /\ level[d] - 1 # stale /\ level[d] - 1 \in Levels
    BY <1>1, <2>2, <2>3, StaleFileIsDead, DepthAssumption DEF LockInvariant, LockTypeOK, Levels
  <2> QED
    BY <1>3, <2>2, <2>4 DEF LockInvariant, StaleFileIsStable
<1> QED
  BY <1>4, <1>5, <1>6, <1>7 DEF LockInvariant

-----------------------------------------------------------------------------
LEMMA NextPreserves == LockInvariant /\ [LockNext]_lockVars => LockInvariant'
<1> SUFFICES ASSUME LockInvariant, [LockNext]_lockVars PROVE LockInvariant'
  OBVIOUS
<1>1. ASSUME NEW c \in Lockers, Step(c)
      PROVE  LockInvariant'
  BY <1>1, TryAcquirePreserves, ObservePreserves, AssessPreserves, RecheckPreserves,
     RemovePreserves, ReleasePreserves DEF Step
<1>2. ASSUME NEW c \in Lockers, Call(c) \/ GiveUp(c)
      PROVE  LockInvariant'
  BY <1>2, CallPreserves
<1>3. ASSUME NEW c \in Lockers, LockFault(c)
      PROVE  LockInvariant'
  BY <1>3, FaultPreserves
<1>4. ASSUME NEW p \in Processes, Die(p)
      PROVE  LockInvariant'
  BY <1>4, DiePreserves
<1>5. CASE UNCHANGED lockVars
  BY <1>5
  DEF lockVars, LockInvariant, LockTypeOK, RecoveryLevel, OwnerIsAssessed, ClimbedOverDead,
      HolderIsNamed, StaleFileIsStable, Holds, LockAt, Alive
<1> QED
  BY <1>1, <1>2, <1>3, <1>4, <1>5 DEF LockNext

THEOREM LockInvariance == LockSpec => []LockInvariant
BY InvariantInit, NextPreserves, PTL DEF LockSpec

(* The lock files, and what each caller knows of them, have their types.   *)
THEOREM LockTypes == LockSpec => []LockTypeOK
<1>1. LockInvariant => LockTypeOK
  BY DEF LockInvariant
<1> QED
  BY LockInvariance, <1>1, PTL

(* Each level of the lock has at most one holder, for any number of        *)
(* callers, processes, levels, deaths and faults.                          *)
THEOREM Exclusion == LockSpec => []MutualExclusion
<1>1. LockInvariant => MutualExclusion
  BY DEF LockInvariant, HolderIsNamed, MutualExclusion, Holds
<1> QED
  BY LockInvariance, <1>1, PTL

(* The file of a lock is removed from under nobody: a recovery removes     *)
(* the file of an owner that died, and a release the releaser's own.       *)
THEOREM LiveLocks == LockSpec => LiveLockIsKept
<1> DEFINE Kept == \A c \in Lockers, l \in Levels :
             Holds(c, l) /\ file[l] = c /\ file'[l] # c => pc[c] # pc'[c]
<1>1. LockInvariant /\ [LockNext]_lockVars => [Kept]_lockVars
  <2> SUFFICES ASSUME LockInvariant, LockNext, NEW c \in Lockers, NEW l \in Levels,
                      Holds(c, l), file[l] = c, file'[l] # c
               PROVE  pc[c] # pc'[c]
    OBVIOUS
  <2>1. Alive(c) /\ level[c] = l
    BY DEF Holds
  <2>2. PICK d \in Lockers : TryAcquire(d) \/ Remove(d) \/ Unlink(d) \/ LockFault(d)
    BY DEF LockNext, Step, Call, Observe, Assess, Recheck, Confirm, LeaveLock,
           Release, GiveUp, Die
  <2>3. CASE TryAcquire(d)
    BY <2>3, OwnerAssumption DEF TryAcquire, LockInvariant, LockTypeOK
  <2>4. CASE Remove(d)
    BY <2>1, <2>4, StaleFileIsDead DEF Remove, LockInvariant, LockTypeOK, Alive
  <2>5. CASE Unlink(d) \/ LockFault(d)
    <3>1. file' = [file EXCEPT ![level[d]] = NoOwner] /\ Holds(d, level[d])
      BY <2>5 DEF Unlink, LockFault, Holds, LockAt
    <3>2. level[d] = l /\ d = c
      BY <3>1 DEF LockInvariant, LockTypeOK, HolderIsNamed
    <3>3. pc[c] \in {"recheck", "remove", "release", "unlink"} /\ pc'[c] \in {"idle", "try"}
      BY <2>5, <3>1, <3>2 DEF Unlink, Released, Descend, LockFault, LockGoto, LockAt, LockInvariant, LockTypeOK
    <3> QED
      BY <3>3
  <2> QED
    BY <2>2, <2>3, <2>4, <2>5
<1> QED
  BY <1>1, LockInvariance, PTL DEF LockSpec, LiveLockIsKept

-----------------------------------------------------------------------------
(* The artifact cache.                                                     *)

Outside == {"start", "acquired", "failed"}
Inside == {"check", "quarantine", "partial", "request", "receive", "verify", "promote", "inspect"}

(* Whoever is inside holds the lock, alone.                                *)
Exclusive ==
  /\ \A c \in Callers : c \in holders <=> call[c].pc \in Inside
  /\ \A c, d \in holders : c = d

(* What a caller inside knows of the files.                                *)
Knows(c) ==
  /\ At(c, "quarantine") => artifact # Whole
  /\ call[c].pc \in {"partial", "request", "receive", "verify", "promote"} => artifact = Absent
  /\ At(c, "request") => partial.length < Length /\ partial.kind \in {"absent", "regular"}
  /\ At(c, "receive") =>
       /\ partial.kind = "regular"
       /\ partial.length = call[c].start + call[c].received
       /\ call[c].received <= call[c].expected
       /\ call[c].start + call[c].expected <= Length
  /\ At(c, "promote") => partial = Whole
  /\ call[c].pc \in {"inspect", "acquired"} => artifact = Whole

IInv == TypeOK /\ Exclusive /\ \A c \in Callers : Knows(c)

(* The files there are, by their fields.                                   *)
LEMMA FileFacts ==
  /\ Absent \in Files /\ Special \in Files /\ Empty \in Files /\ Whole \in Files
  /\ Absent # Whole /\ Absent.kind = "absent" /\ Absent.length = 0
  /\ Empty.kind = "regular" /\ Empty.length = 0
  /\ Whole.kind = "regular" /\ Whole.length = Length
  /\ \A f \in Files : /\ f.kind \in {"absent", "special", "regular"}
                      /\ f.length \in 0 .. Length + 1
  <1>1. Empty \in Files /\ Whole \in Files
    BY LengthAssumption DEF Files, Empty, Whole
  <1>2. \A f \in Files : /\ f.kind \in {"absent", "special", "regular"}
                         /\ f.length \in 0 .. Length + 1
    BY LengthAssumption DEF Files, Absent, Special
  <1>3. Absent # Whole
    <2>1. Absent.kind # Whole.kind
      BY DEF Absent, Whole
    <2> QED BY <2>1
  <1> QED BY <1>1, <1>2, <1>3 DEF Files, Absent, Special, Empty, Whole

(* A chunk more makes a regular file that is not too long a file.          *)
LEMMA ChunkAdded ==
  ASSUME NEW f \in Files, f.kind = "regular", f.length <= Length, NEW g \in BOOLEAN,
         NEW f2, f2 = [f EXCEPT !.length = @ + 1, !.genuine = @ /\ g]
  PROVE  f2 \in Files /\ f2.kind = "regular" /\ f2.length = f.length + 1
  <1>1. f \in [kind : {"regular"}, length : 0 .. Length + 1, genuine : BOOLEAN]
    BY DEF Files, Absent, Special
  <1>2. f.length + 1 \in 0 .. Length + 1
    BY <1>1, LengthAssumption
  <1>3. (f.genuine /\ g) \in BOOLEAN
    BY <1>1
  <1>4. f2 = [kind |-> "regular", length |-> f.length + 1, genuine |-> (f.genuine /\ g)]
    BY <1>1
  <1>5. f2 \in [kind : {"regular"}, length : 0 .. Length + 1, genuine : BOOLEAN]
    BY <1>2, <1>3, <1>4
  <1> QED BY <1>4, <1>5 DEF Files

LEMMA InitInvariant == Init => IInv
  <1> SUFFICES ASSUME Init PROVE IInv
    OBVIOUS
  <1>1. TypeOK
    BY FileFacts, FaultsAssumption, LengthAssumption DEF Init, TypeOK, InitialCall, Calls
  <1>2. Exclusive
    BY DEF Init, Exclusive, InitialCall, Inside
  <1>3. \A c \in Callers : Knows(c)
    BY DEF Init, Knows, InitialCall, At
  <1> QED BY <1>1, <1>2, <1>3 DEF IInv

(* A step of one caller that leaves the others' positions alone preserves  *)
(* exclusion if it takes the lock only when it is free, and gives it back  *)
(* only on leaving.                                                        *)
LEMMA ExclusionKept ==
  ASSUME IInv, NEW c \in Callers, call' \in [Callers -> Calls],
         \A d \in Callers \ {c} : call'[d] = call[d],
         \/ holders' = holders /\ call[c].pc \in Inside /\ call'[c].pc \in Inside
         \/ holders' = holders \ {c} /\ call'[c].pc \in Outside
         \/ holders = {} /\ holders' = {c} /\ call'[c].pc \in Inside
         \/ holders' = holders /\ call[c].pc \in Outside /\ call'[c].pc \in Outside
  PROVE  Exclusive'
  BY DEF IInv, Exclusive, TypeOK, Inside, Outside

(* A caller inside knows that nobody else is.                              *)
LEMMA Alone ==
  ASSUME IInv, NEW c \in Callers, call[c].pc \in Inside, NEW d \in Callers, d # c
  PROVE  call[d].pc \in Outside
  BY DEF IInv, Exclusive, TypeOK, Calls, Inside, Outside

(* What the others know outlasts a step of a caller inside, if it keeps    *)
(* the whole artifact.                                                     *)
LEMMA OthersKnow ==
  ASSUME IInv, NEW c \in Callers, call[c].pc \in Inside,
         artifact = Whole => artifact' = Whole,
         \A d \in Callers \ {c} : call'[d] = call[d]
  PROVE  \A d \in Callers \ {c} : Knows(d)'
  <1> SUFFICES ASSUME NEW d \in Callers, d # c PROVE Knows(d)'
    OBVIOUS
  <1>1. call'[d] = call[d] /\ call[d].pc \in Outside
    BY Alone
  <1>2. Knows(d)
    BY DEF IInv
  <1> QED BY <1>1, <1>2 DEF Knows, At, Outside

LEMMA NextInvariant == IInv /\ [Next]_vars => IInv'
  <1> SUFFICES ASSUME IInv, [Next]_vars PROVE IInv'
    OBVIOUS
  <1>t. TypeOK /\ Exclusive /\ \A c \in Callers : Knows(c)
    BY DEF IInv
  <1>1. CASE UNCHANGED vars
    BY <1>1, <1>t DEF IInv, TypeOK, Exclusive, Knows, At, vars
  <1>2. CASE PowerLoss
    <2>1. TypeOK'
      BY <1>2, <1>t, FaultsAssumption, LengthAssumption
      DEF PowerLoss, TypeOK, Fault, InitialCall, Calls
    <2>2. Exclusive' /\ \A c \in Callers : Knows(c)'
      BY <1>2 DEF PowerLoss, InitialCall, Exclusive, Knows, At, Inside
    <2> QED BY <2>1, <2>2 DEF IInv
  <1>3. ASSUME NEW c \in Callers, Caller(c) \/ Abort(c) PROVE IInv'
    <2>c. call[c] \in Calls /\ Knows(c)
      BY <1>t DEF TypeOK
    <2>f. /\ partial \in Files /\ artifact \in Files
          /\ faults \in 0 .. MaxFaults
          /\ \A n : faults' = n /\ (n = faults \/ (faults < MaxFaults /\ n = faults + 1))
               => faults' \in 0 .. MaxFaults
      BY <1>t, FaultsAssumption DEF TypeOK
    <2>1. CASE Enter(c)
      <3>1. TypeOK'
        BY <1>t, <2>1 DEF Enter, Goto, TypeOK, Calls
      <3>2. Exclusive'
        <4>1. /\ call' \in [Callers -> Calls]
              /\ \A d \in Callers \ {c} : call'[d] = call[d]
              /\ holders = {} /\ holders' = {c} /\ call'[c].pc \in Inside
          BY <1>t, <2>1, <3>1 DEF Enter, Goto, TypeOK, Inside
        <4> QED BY <4>1, ExclusionKept
      <3>3. \A d \in Callers : Knows(d)'
        BY <1>t, <2>1 DEF Enter, Goto, Knows, At, TypeOK
      <3> QED BY <3>1, <3>2, <3>3 DEF IInv
    <2>2. CASE Retry(c)
      <3>1. TypeOK'
        BY <1>t, <2>2 DEF Retry, Goto, TypeOK, Calls
      <3>2. Exclusive'
        <4>1. /\ call' \in [Callers -> Calls]
              /\ \A d \in Callers \ {c} : call'[d] = call[d]
              /\ holders' = holders /\ call[c].pc \in Outside /\ call'[c].pc \in Outside
          BY <1>t, <2>2, <3>1 DEF Retry, Goto, TypeOK, Outside, At
        <4> QED BY <4>1, ExclusionKept
      <3>3. \A d \in Callers : Knows(d)'
        BY <1>t, <2>2 DEF Retry, Goto, Knows, At, TypeOK
      <3> QED BY <3>1, <3>2, <3>3 DEF IInv
    (* The other steps are made inside.                                    *)
    <2>3. ASSUME call[c].pc \in Inside, TypeOK',
                 \A d \in Callers \ {c} : call'[d] = call[d],
                 \/ holders' = holders /\ call'[c].pc \in Inside
                 \/ holders' = holders \ {c} /\ call'[c].pc \in Outside,
                 artifact = Whole => artifact' = Whole,
                 Knows(c)'
          PROVE  IInv'
      <3>0. call' \in [Callers -> Calls]
        BY <2>3 DEF TypeOK
      <3>1. \/ holders' = holders /\ call[c].pc \in Inside /\ call'[c].pc \in Inside
            \/ holders' = holders \ {c} /\ call'[c].pc \in Outside
        BY <2>3
      <3>2. Exclusive'
        BY <2>3, <3>0, <3>1, ExclusionKept
      <3>3. \A d \in Callers \ {c} : Knows(d)'
        BY <2>3, OthersKnow
      <3> QED BY <2>3, <3>2, <3>3 DEF IInv
    <2>4. CASE CheckCached(c)
      <3>1. TypeOK' /\ call[c].pc \in Inside /\ call'[c].pc \in Inside
        BY <1>t, <2>4 DEF CheckCached, Goto, At, TypeOK, Calls, Inside
      <3>2. /\ \A d \in Callers \ {c} : call'[d] = call[d]
            /\ holders' = holders /\ artifact' = artifact /\ partial' = partial
        BY <1>t, <2>4 DEF CheckCached, Goto, TypeOK
      <3>3. artifact.kind = "absent" => artifact = Absent
        BY <2>f DEF Files, Absent, Special
      <3>4. Knows(c)'
        BY <1>t, <2>4, <3>3 DEF CheckCached, Goto, At, TypeOK, Knows
      <3> QED BY <2>3, <3>1, <3>2, <3>4
    <2>5. CASE Quarantine(c)
      <3>1. TypeOK' /\ call[c].pc \in Inside /\ call'[c].pc \in Inside
        BY <1>t, <2>5, FileFacts DEF Quarantine, Goto, At, TypeOK, Calls, Inside
      <3>2. (\A d \in Callers \ {c} : call'[d] = call[d]) /\ holders' = holders
        BY <1>t, <2>5 DEF Quarantine, Goto, TypeOK
      <3>3. Knows(c)' /\ artifact # Whole
        BY <1>t, <2>c, <2>5 DEF Quarantine, Goto, At, TypeOK, Knows
      <3> QED BY <2>3, <3>1, <3>2, <3>3
    <2>6. CASE CheckPartial(c)
      <3>1. TypeOK' /\ call[c].pc \in Inside /\ call'[c].pc \in Inside
        BY <1>t, <2>6, FileFacts DEF CheckPartial, Goto, At, TypeOK, Calls, Inside
      <3>2. (\A d \in Callers \ {c} : call'[d] = call[d]) /\ holders' = holders /\ artifact' = artifact
        BY <1>t, <2>6 DEF CheckPartial, Goto, TypeOK
      <3>3. ~Unusable => partial.kind \in {"absent", "regular"} /\ partial.length < Length
        BY <2>f, FileFacts, LengthAssumption DEF Unusable, Files, Absent, Special
      <3>4. Knows(c)'
        <4>1. artifact = Absent
          BY <2>c, <2>6 DEF CheckPartial, At, Knows
        <4>2. CASE partial = Whole /\ Goto(c, "promote") /\ UNCHANGED partial
          <5>1. call'[c].pc = "promote"
            BY <1>t, <4>2 DEF Goto, TypeOK, Calls
          <5> QED BY <3>2, <4>1, <4>2, <5>1 DEF At, Knows
        <4>3. CASE /\ Goto(c, "request")
                   /\ partial' = Absent \/ (~Unusable /\ partial' = partial)
          <5>1. partial'.length < Length /\ partial'.kind \in {"absent", "regular"}
            BY <3>3, <4>3, FileFacts, LengthAssumption
          <5>2. call'[c].pc = "request"
            BY <1>t, <4>3 DEF Goto, TypeOK, Calls
          <5> QED BY <3>2, <4>1, <5>1, <5>2 DEF At, Knows
        <4> QED BY <2>6, <4>2, <4>3 DEF CheckPartial
      <3> QED BY <2>3, <3>1, <3>2, <3>4
    <2>7. CASE Request(c)
      <3>0. partial.length < Length /\ partial.kind \in {"absent", "regular"} /\ artifact = Absent
            /\ partial.length \in Nat /\ (partial.kind = "absent" => partial.length = 0)
        BY <2>c, <2>f, <2>7, LengthAssumption DEF Request, Knows, At, Files, Absent, Special
      <3>1. PICK start \in 0 .. Length, expected \in 0 .. Length, genuine \in BOOLEAN :
              /\ Respond(c, start, expected, genuine)
              /\ start + expected <= Length
              /\ \/ partial' = Empty /\ start = 0
                 \/ partial' = partial /\ partial.kind = "regular" /\ start = partial.length
        BY <2>7, <3>0, LengthAssumption DEF Request, Offset
      <3>2. faults' = faults \/ (faults < MaxFaults /\ faults' = faults + 1)
        BY <2>7 DEF Request, Fault
      <3>3. /\ call' = [call EXCEPT ![c] = [pc |-> "receive", start |-> start,
                          expected |-> expected, received |-> 0, genuine |-> genuine]]
            /\ holders' = holders /\ artifact' = artifact
        BY <2>7, <3>1 DEF Request, Respond
      <3>4. /\ call' \in [Callers -> Calls]
            /\ call[c].pc \in Inside /\ call'[c].pc \in Inside
            /\ \A d \in Callers \ {c} : call'[d] = call[d]
        BY <1>t, <2>7, <3>3, LengthAssumption DEF Request, At, TypeOK, Calls, Inside
      <3>5. TypeOK'
        BY <1>t, <2>f, <3>1, <3>2, <3>3, <3>4, FileFacts DEF TypeOK
      <3>6. Knows(c)'
        BY <1>t, <3>0, <3>1, <3>3, FileFacts, LengthAssumption DEF Knows, At, TypeOK
      <3> QED BY <2>3, <3>3, <3>4, <3>5, <3>6
    <2>8. CASE Receive(c)
      <3>0. /\ call[c].pc \in Inside /\ artifact' = artifact /\ artifact = Absent
            /\ partial.kind = "regular" /\ partial.length = call[c].start + call[c].received
            /\ call[c].start + call[c].expected <= Length
            /\ call[c].start \in Nat /\ call[c].expected \in 0 .. Length
            /\ call[c].received \in 0 .. Length /\ call[c].genuine \in BOOLEAN
        BY <2>c, <2>8 DEF Receive, Knows, At, Inside, Calls
      <3>1. CASE /\ call[c].received < call[c].expected
                 /\ partial' = [partial EXCEPT !.length = @ + 1, !.genuine = @ /\ call[c].genuine]
                 /\ call' = [call EXCEPT ![c].received = @ + 1]
                 /\ UNCHANGED <<holders, faults>>
        <4>1. partial.length <= Length
          BY <3>0, <3>1, LengthAssumption
        <4>2. partial' \in Files /\ partial'.kind = "regular" /\ partial'.length = partial.length + 1
          BY <2>f, <3>0, <3>1, <4>1, ChunkAdded
        <4>3. /\ call' \in [Callers -> Calls]
              /\ call'[c].pc = "receive" /\ call'[c].start = call[c].start
              /\ call'[c].expected = call[c].expected /\ call'[c].received = call[c].received + 1
              /\ \A d \in Callers \ {c} : call'[d] = call[d]
          BY <1>t, <2>8, <3>0, <3>1, LengthAssumption DEF TypeOK, Calls, Receive, At
        <4>4. TypeOK'
          BY <1>t, <3>0, <3>1, <4>2, <4>3 DEF TypeOK
        <4>5. Knows(c)'
          BY <3>0, <3>1, <4>2, <4>3, LengthAssumption DEF Knows, At
        <4> QED BY <2>3, <3>0, <3>1, <4>3, <4>4, <4>5 DEF Inside
      <3>2. CASE Fault /\ partial' = Absent /\ Leave(c, "failed")
        <4>1. /\ TypeOK' /\ holders' = holders \ {c} /\ call'[c].pc \in Outside
              /\ \A d \in Callers \ {c} : call'[d] = call[d]
          BY <1>t, <2>f, <3>0, <3>2, FileFacts DEF Fault, Leave, Goto, TypeOK, Calls, Outside
        <4>2. Knows(c)'
          BY <1>t, <3>2 DEF Leave, Goto, Knows, At, TypeOK
        <4> QED BY <2>3, <3>0, <4>1, <4>2
      <3> QED BY <2>8, <3>1, <3>2 DEF Receive
    <2>9. CASE Finish(c)
      <3>1. /\ TypeOK' /\ call[c].pc \in Inside
            /\ artifact' = artifact /\ partial' = partial
            /\ \A d \in Callers \ {c} : call'[d] = call[d]
            /\ \/ holders' = holders /\ call'[c].pc \in Inside
               \/ holders' = holders \ {c} /\ call'[c].pc \in Outside
        BY <1>t, <2>9 DEF Finish, Leave, Goto, At, TypeOK, Calls, Inside, Outside
      <3>2. Knows(c)'
        <4>1. artifact = Absent /\ call'[c].pc \in {"verify", "failed"}
          BY <1>t, <2>c, <2>9 DEF Finish, Leave, Goto, At, TypeOK, Calls, Knows
        <4> QED BY <3>1, <4>1 DEF At, Knows
      <3> QED BY <2>3, <3>1, <3>2
    <2>10. CASE Verify(c)
      <3>1. /\ TypeOK' /\ call[c].pc \in Inside /\ artifact' = artifact
            /\ \A d \in Callers \ {c} : call'[d] = call[d]
            /\ \/ holders' = holders /\ call'[c].pc \in Inside
               \/ holders' = holders \ {c} /\ call'[c].pc \in Outside
        BY <1>t, <2>10, FileFacts DEF Verify, Leave, Goto, At, TypeOK, Calls, Inside, Outside
      <3>2. Knows(c)'
        <4>1. artifact = Absent
          BY <2>c, <2>10 DEF Verify, At, Knows
        <4>2. \/ partial' = Whole /\ call'[c].pc = "promote"
              \/ call'[c].pc = "failed"
          BY <1>t, <2>10 DEF Verify, Leave, Goto, TypeOK, Calls
        <4> QED BY <3>1, <4>1, <4>2 DEF At, Knows
      <3> QED BY <2>3, <3>1, <3>2
    <2>11. CASE Promote(c)
      <3>1. /\ TypeOK' /\ call[c].pc \in Inside /\ call'[c].pc \in Inside
            /\ holders' = holders /\ \A d \in Callers \ {c} : call'[d] = call[d]
        BY <1>t, <2>11, FileFacts DEF Promote, Goto, At, TypeOK, Calls, Inside
      <3>2. artifact' = Whole
        BY <2>c, <2>11 DEF Promote, Knows
      <3>3. Knows(c)'
        BY <1>t, <2>11, <3>2 DEF Promote, Goto, At, TypeOK, Knows
      <3> QED BY <2>3, <3>1, <3>2, <3>3
    <2>12. CASE Inspect(c)
      <3>1. /\ TypeOK' /\ call[c].pc \in Inside /\ call'[c].pc \in Outside
            /\ holders' = holders \ {c} /\ artifact' = artifact
            /\ \A d \in Callers \ {c} : call'[d] = call[d]
        BY <1>t, <2>12 DEF Inspect, Leave, Goto, At, TypeOK, Calls, Inside, Outside
      <3>2. Knows(c)'
        BY <1>t, <2>c, <2>12 DEF Inspect, Leave, Goto, At, TypeOK, Knows
      <3> QED BY <2>3, <3>1, <3>2
    <2>13. CASE Abort(c)
      <3>1. /\ TypeOK' /\ call[c].pc \in Inside /\ call'[c].pc \in Outside
            /\ holders' = holders \ {c} /\ artifact' = artifact
            /\ \A d \in Callers \ {c} : call'[d] = call[d]
        BY <1>t, <2>f, <2>13 DEF Abort, Fault, Leave, Goto, TypeOK, Calls, Exclusive, Outside
      <3>2. Knows(c)'
        BY <1>t, <2>13 DEF Abort, Leave, Goto, At, TypeOK, Knows
      <3> QED BY <2>3, <3>1, <3>2
    <2> QED BY <1>3, <2>1, <2>2, <2>4, <2>5, <2>6, <2>7, <2>8, <2>9, <2>10, <2>11, <2>12, <2>13
          DEF Caller
  <1> QED BY <1>1, <1>2, <1>3 DEF Next

(* The inductive invariant of the cache.                                   *)
THEOREM CacheInvariance == Spec => []IInv
  <1> QED BY InitInvariant, NextInvariant, PTL DEF Spec

(* The files and the callers of the cache have their types; a download is  *)
(* never longer than the artifact by more than a chunk.                    *)
THEOREM TypeCorrectness == Spec => []TypeOK
  <1>1. IInv => TypeOK
    BY DEF IInv
  <1> QED BY <1>1, CacheInvariance, PTL

(* Who was given the artifact finds it whole (ArtifactCache.acquire).      *)
THEOREM Acquisition == Spec => []AcquiredIsWhole
  <1>1. IInv => AcquiredIsWhole
    BY DEF IInv, Knows, AcquiredIsWhole
  <1> QED BY <1>1, CacheInvariance, PTL

(* The cache puts only the whole artifact at its path, and never takes it  *)
(* away (#promote, #quarantine).                                           *)
THEOREM Publication == Spec => PublishesOnlyWhole
  <1> DEFINE Publishes == faults' = faults =>
               /\ artifact' \in {artifact, Absent, Whole}
               /\ artifact = Whole => artifact' = Whole
  <1>1. IInv /\ [Next]_vars => [Publishes]_vars
    <2> SUFFICES ASSUME IInv, Next, faults' = faults
                 PROVE  /\ artifact' \in {artifact, Absent, Whole}
                        /\ artifact = Whole => artifact' = Whole
      BY DEF vars
    <2>0. faults \in Nat /\ faults + 1 # faults
      BY FaultsAssumption DEF IInv, TypeOK
    <2>1. ~PowerLoss
      BY <2>0 DEF PowerLoss, Fault
    <2>2. PICK c \in Callers : Caller(c) \/ Abort(c)
      BY <2>1 DEF Next
    <2>3. Knows(c)
      BY DEF IInv
    <2>4. CASE Quarantine(c)
      BY <2>3, <2>4 DEF Quarantine, Knows
    <2>5. CASE Promote(c)
      BY <2>3, <2>5 DEF Promote, Knows
    <2>6. CASE artifact' = artifact
      BY <2>6
    <2>7. Quarantine(c) \/ Promote(c) \/ artifact' = artifact
      BY <2>2 DEF Caller, Enter, CheckCached, CheckPartial, Request, Receive, Finish, Verify,
                  Inspect, Retry, Abort
    <2> QED BY <2>4, <2>5, <2>6, <2>7
  <1> QED BY <1>1, CacheInvariance, PTL DEF Spec, PublishesOnlyWhole
=============================================================================
