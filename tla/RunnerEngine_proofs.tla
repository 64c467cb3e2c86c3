------------------------- MODULE RunnerEngine_proofs -------------------------
(***************************************************************************)
(* Proofs about the runner engine, for any plan, any number of attempts,   *)
(* any pids and any number of cancellations, crashes, reboots and failures.*)
(***************************************************************************)
EXTENDS RunnerEngine, SequenceTheorems, WellFoundedInduction, TLAPS

(* Where the runner is: taking its services back, at the step it is        *)
(* recorded at, or (run.why tells for what) at the end.                    *)
Launching == {"resume", "spawn", "register", "window"}
Reconciling ==
  \/ run.pc = "reconcile"
  \/ run.pc \in Launching /\ run.ret = "reconcile"
Stepping ==
  \/ run.pc \in {"loop", "exec", "running", "succeed", "record"}
  \/ run.pc \in Launching /\ run.ret \in {"main", "started"}

Foreground(i) == ~Supervised(i) /\ Kind[i] # "environment"
InRan(i) == \E attempt \in ran : attempt[1] = i

-----------------------------------------------------------------------------
(* What the checkpoint says, wherever the runner is                        *)

(* A terminal checkpoint has settled every process; one that is accepted   *)
(* is recorded to have been.                                               *)
ProcessesAreSettled ==
  \A i \in Indexes :
    /\ disk.terminal # "none" => ~Unfinished(disk.processes[i])
    /\ disk.processes[i].phase = "accepted" => disk.processes[i].accepted

(* What was started is behind the step the checkpoint is at, or at it; and *)
(* what is behind it was started.                                          *)
RanIsRecorded ==
  /\ \A attempt \in ran : /\ disk.step.phase # "none"
                          /\ attempt[1] <= disk.step.index
                          /\ attempt[1] = disk.step.index => attempt[2] <= disk.step.attempt
  /\ \A i \in Indexes : Completed(i) /\ Foreground(i) => InRan(i)

-----------------------------------------------------------------------------
(* What the runner is at                                                   *)

Control ==
  /\ run.pc = "off" <=> run.outcome # "running"
  /\ run.pc \in {"off", "start"} => run.tracked = <<>>
  /\ run.pc \in {"stop", "shutdown"} => run.why # "none" /\ run.ret = "stop"
  /\ run.pc \in {"off", "start"} \/ Reconciling \/ Stepping => run.why = "none"
  /\ run.pc \in Launching /\ run.ret = "stop" => run.why # "none"
  /\ run.pc \in {"spawn", "register"} => run.ret # "stop"
  /\ run.pc = "resume" => run.ret # "main"
  /\ disk.terminal # "none" => run.pc \in {"off", "start"} \/ run.why = "throw"

(* The step a launch is about, and the phase of the step the checkpoint is *)
(* at, with what was started of it.                                        *)
Place ==
  /\ run.pc = "start" => run.cur = 0
  /\ run.pc \in Launching => run.cur \in Indexes
  /\ run.pc \in Launching /\ run.ret # "stop" => Supervised(run.cur)
  /\ run.pc \in Launching /\ run.ret = "reconcile" => Completed(run.cur)
  /\ run.pc \in Launching /\ run.ret \in {"main", "started"} => run.cur = disk.step.index
  /\ Stepping /\ run.pc # "loop" => disk.step.phase = "started"
  /\ run.pc = "exec" /\ Kind[disk.step.index] \in {"automatic", "provider"} =>
       <<disk.step.index, disk.step.attempt>> \notin ran
  /\ run.pc = "running" => Foreground(disk.step.index) /\ InRan(disk.step.index)
  /\ run.pc = "succeed" /\ Foreground(disk.step.index) => InRan(disk.step.index)

(* A run that is about to succeed has done everything.                     *)
SuccessIsEarned ==
  run.why = "succeed" =>
    /\ disk.step.phase = "succeeded" /\ disk.step.index + 1 = StepCount
    /\ \A i \in Indexes : Supervised(i) => disk.processes[i].accepted

-----------------------------------------------------------------------------
(* What the supervisor tracks                                              *)

(* It tracks this process of step i.                                       *)
Tracks(i, identity) ==
  \E k \in DOMAIN run.tracked : /\ run.tracked[k].step = i
                                /\ run.tracked[k].identity = identity

(* One process for each step.                                              *)
TracksOnce ==
  \A k, l \in DOMAIN run.tracked : run.tracked[k].step = run.tracked[l].step => k = l

(* A process whose end was noticed is gone; so is one that was stopped.    *)
NoticedAreGone ==
  \A k \in DOMAIN run.tracked : run.tracked[k].result => ~Matches(run.tracked[k].identity)

StoppedIsGone ==
  run.pc = "shutdown" /\ run.stopping =>
    run.tracked # <<>> /\ ~Matches(run.tracked[1].identity)

(* A process being registered is that of its step; one being taken back is *)
(* not tracked yet, and one being watched is.                              *)
LaunchIsKnown ==
  /\ run.pc = "register" =>
       \A child \in children : child.identity = run.child => child.step = run.cur
  /\ run.pc = "resume" => ~IsTracking(run.cur)
  /\ run.pc = "window" => IsTracking(run.cur)

(* Beside the process of a step that is being launched, those of completed *)
(* steps are tracked; while reconciling, of the steps before the one it is *)
(* at.                                                                     *)
TracksCompleted ==
  \A i \in Indexes : IsTracking(i) =>
    /\ Reconciling => /\ Completed(i)
                      /\ i < run.cur \/ (run.pc = "window" /\ i = run.cur)
    /\ Stepping =>
         \/ Completed(i)
         \/ run.pc \in {"window", "succeed"} /\ i = disk.step.index

(* The service of a step is there: tracked, recorded and accepted.         *)
Serves(i) ==
  /\ Tracks(i, disk.processes[i].identity)
  /\ disk.processes[i].phase = "accepted"

ServicesAreThere ==
  \A i \in Indexes : Supervised(i) =>
    /\ Reconciling /\ Completed(i) /\ i < run.cur => Serves(i)
    /\ Stepping /\ Completed(i) => Serves(i)
    /\ run.pc = "succeed" /\ i = disk.step.index => Serves(i)

(* A registered child that is alive is tracked or, if not, would be        *)
(* adopted by stopAll from what the catch block of #run holds; and it is   *)
(* tracked once nothing is left to be adopted.                             *)
HeldAs(child) ==
  /\ Unfinished(run.held[child.step])
  /\ run.held[child.step].identity = child.identity

ChildrenAreWithinReach ==
  \A child \in children : child.known /\ run.pc \notin {"off", "start"} =>
    /\ IsTracking(child.step) \/ run.pc = "shutdown" => Tracks(child.step, child.identity)
    /\ ~IsTracking(child.step) => HeldAs(child)

CheckpointInvariant ==
  /\ CheckpointIsRecoverable
  /\ ProcessesAreSettled
  /\ RanIsRecorded
  /\ SuccessSkipsNothing
  /\ LiveChildIsRecorded

RunInvariant ==
  /\ Control
  /\ Place
  /\ SuccessIsEarned
  /\ TracksOnce
  /\ NoticedAreGone
  /\ StoppedIsGone
  /\ LaunchIsKnown
  /\ TracksCompleted
  /\ ServicesAreThere
  /\ ChildrenAreWithinReach
  /\ RunLeavesNoChild

EngineInvariant == TypeOK /\ CheckpointInvariant /\ RunInvariant

-----------------------------------------------------------------------------
(* Minima and sequences                                                    *)

LEMMA MinIsLeast ==
  ASSUME NEW S \in SUBSET Nat, S # {}
  PROVE  Min(S) \in S /\ \A n \in S : Min(S) <= n
<1> DEFINE Less == {pair \in Nat \X Nat : pair[1] < pair[2]}
<1>1. IsWellFoundedOn(Less, Nat)
  BY NatLessThanWellFounded DEF OpToRel
<1> HIDE DEF Less
<1>2. PICK m \in S : \A n \in S : <<n, m>> \notin Less
  BY <1>1, WFMin
<1>3. ASSUME NEW n \in S
      PROVE  m <= n
  <2>1. m \in Nat /\ n \in Nat
    OBVIOUS
  <2>2. ~(n < m)
    <3> DEFINE pair == <<n, m>>
    <3>1. pair \in Nat \X Nat /\ pair[1] = n /\ pair[2] = m
      BY <2>1
    <3>2. pair \notin Less
      BY <1>2
    <3> QED BY <3>1, <3>2 DEF Less
  <2> QED BY <2>1, <2>2
<1> QED BY <1>3 DEF Min

LEMMA RemovedElements ==
  ASSUME NEW T, NEW s \in Seq(T), NEW p \in DOMAIN s
  PROVE  /\ RemoveAt(s, p) \in Seq(T)
         /\ \A k \in DOMAIN RemoveAt(s, p) :
              \E j \in DOMAIN s \ {p} : /\ RemoveAt(s, p)[k] = s[j]
                                        /\ j = IF k < p THEN k ELSE k + 1
         /\ \A j \in DOMAIN s \ {p} : \E k \in DOMAIN RemoveAt(s, p) : RemoveAt(s, p)[k] = s[j]
<1> DEFINE front == SubSeq(s, 1, p - 1)
           rest == SubSeq(s, p + 1, Len(s))
<1>1. p \in 1 .. Len(s) /\ Len(s) \in Nat
  OBVIOUS
<1>2. /\ front \in Seq(T) /\ Len(front) = p - 1
      /\ \A k \in 1 .. p - 1 : front[k] = s[k]
  BY <1>1, SubSeqProperties
<1>3. /\ rest \in Seq(T) /\ Len(rest) = Len(s) - p
      /\ \A k \in 1 .. Len(s) - p : rest[k] = s[p + k]
  BY <1>1, SubSeqProperties
<1>4. RemoveAt(s, p) = front \o rest
  BY DEF RemoveAt
<1> HIDE DEF front, rest
<1>5. /\ front \o rest \in Seq(T) /\ Len(front \o rest) = Len(s) - 1
      /\ \A k \in 1 .. Len(s) - 1 :
           (front \o rest)[k] = IF k < p THEN s[k] ELSE s[k + 1]
  BY <1>1, <1>2, <1>3, ConcatProperties
<1> DEFINE r == RemoveAt(s, p)
<1>6. /\ r \in Seq(T) /\ DOMAIN r = 1 .. Len(s) - 1 /\ DOMAIN s = 1 .. Len(s)
      /\ \A k \in 1 .. Len(s) - 1 : r[k] = IF k < p THEN s[k] ELSE s[k + 1]
  BY <1>4, <1>5
<1> HIDE DEF r
<1>7. ASSUME NEW k \in DOMAIN r
      PROVE  \E j \in DOMAIN s \ {p} : r[k] = s[j] /\ j = IF k < p THEN k ELSE k + 1
  BY <1>1, <1>6
<1>8. ASSUME NEW j \in DOMAIN s \ {p}
      PROVE  \E k \in DOMAIN r : r[k] = s[j]
  <2>1. CASE j < p
    <3>1. j \in DOMAIN r /\ r[j] = s[j]
      BY <1>1, <1>6, <2>1
    <3> QED BY <3>1
  <2>2. CASE j > p
    <3>1. j - 1 \in DOMAIN r /\ r[j - 1] = s[j]
      BY <1>1, <1>6, <2>2
    <3> QED BY <3>1
  <2> QED BY <1>1, <1>6, <2>1, <2>2
<1> QED BY <1>6, <1>7, <1>8 DEF r

-----------------------------------------------------------------------------
(* The checkpoint: what each transition of the document keeps              *)

LEMMA StepTypes ==
  ASSUME TypeOK
  PROVE  /\ disk.step.index \in Indexes /\ disk.step.attempt \in Nat
         /\ disk.step.phase \in {"none", "started", "succeeded", "failed"}
         /\ disk.step.phase = "none" => disk.step.index = 0
         /\ disk.processes \in [Indexes -> Process]
         /\ Indexes \subseteq Nat /\ 0 \in Indexes
         /\ \A i \in Indexes : i + 1 \in 0 .. StepCount /\ i < StepCount
BY PlanAssumption DEF TypeOK, Document, StepTarget, NoStep, StepPhases, Indexes

LEMMA SameCheckpointKeeps ==
  ASSUME TypeOK, CheckpointInvariant, disk' = disk, ran' = ran,
         \A child \in children' : child.known => child \in children
  PROVE  CheckpointInvariant'
<1>1. CheckpointIsRecoverable' /\ ProcessesAreSettled' /\ SuccessSkipsNothing'
  BY DEF CheckpointInvariant, CheckpointIsRecoverable, ProcessesAreSettled, SuccessSkipsNothing,
         FindRecoveryConflict, Completed, Supervised
<1>2. RanIsRecorded'
  BY DEF CheckpointInvariant, RanIsRecorded, Completed, Supervised, Foreground, InRan
<1>3. LiveChildIsRecorded'
  BY DEF CheckpointInvariant, LiveChildIsRecorded
<1> QED BY <1>1, <1>2, <1>3 DEF CheckpointInvariant

(* A document that differs in the record of process i, of a completed or   *)
(* current fire-and-forget step.                                           *)
Rerecords(i) ==
  /\ disk' \in Document
  /\ disk'.step = disk.step
  /\ disk.terminal = "none" /\ disk'.terminal = "none"
  /\ \A j \in Indexes \ {i} : disk'.processes[j] = disk.processes[j]
  /\ disk'.processes[i].phase # "none"

LEMMA RerecordingKeeps ==
  ASSUME TypeOK, CheckpointInvariant, NEW i \in Indexes, Rerecords(i), ran' = ran,
         Supervised(i), disk.step.phase # "none", i <= disk.step.index,
         disk'.processes[i].phase = "accepted" => disk'.processes[i].accepted
  PROVE  CheckpointIsRecoverable' /\ ProcessesAreSettled' /\ RanIsRecorded' /\ SuccessSkipsNothing'
<1>1. CheckpointIsRecoverable'
  <2>1. \A j \in Indexes : disk'.processes[j].phase # "none" =>
          Supervised(j) /\ disk.step.phase # "none" /\ ~(j > disk.step.index)
    BY StepTypes DEF CheckpointInvariant, CheckpointIsRecoverable, FindRecoveryConflict, Rerecords
  <2>2. \A j \in Indexes : Completed(j) /\ Supervised(j) => disk'.processes[j].phase # "none"
    BY DEF CheckpointInvariant, CheckpointIsRecoverable, Rerecords
  <2>3. ~FindRecoveryConflict'
    BY <2>1, StepTypes DEF FindRecoveryConflict, Supervised, Rerecords
  <2> QED BY <2>2, <2>3 DEF CheckpointIsRecoverable, Completed, Supervised, Rerecords
<1>2. ProcessesAreSettled'
  BY DEF CheckpointInvariant, ProcessesAreSettled, Rerecords
<1>3. RanIsRecorded'
  BY DEF CheckpointInvariant, RanIsRecorded, Completed, Supervised, Foreground, InRan, Rerecords
<1>4. SuccessSkipsNothing'
  BY DEF SuccessSkipsNothing, Rerecords
<1> QED BY <1>1, <1>2, <1>3, <1>4

LEMMA RecordedIsSupervised ==
  ASSUME CheckpointInvariant, NEW i \in Indexes, disk.processes[i].phase # "none"
  PROVE  Supervised(i) /\ disk.step.phase # "none" /\ ~(i > disk.step.index)
BY DEF CheckpointInvariant, CheckpointIsRecoverable, FindRecoveryConflict

LEMMA RecordedIsBehind ==
  ASSUME TypeOK, CheckpointInvariant, NEW i \in Indexes, disk.processes[i].phase # "none"
  PROVE  i <= disk.step.index
BY RecordedIsSupervised, StepTypes

LEMMA FinishFacts ==
  ASSUME TypeOK, NEW i \in Indexes, NEW generation, NEW identity,
         NEW outcome \in Outcomes, NEW exit \in {"unknown", "status"},
         FinishAllowed(disk, i, generation, identity, outcome, exit),
         disk' = FinishResult(disk, i, outcome, exit)
  PROVE  /\ Rerecords(i)
         /\ disk.processes[i].phase # "none" /\ disk.processes[i].identity = identity
         /\ disk'.processes[i].phase = "finished"
         /\ disk'.processes[i].accepted = disk.processes[i].accepted
<1> DEFINE process == disk.processes[i]
<1>1. disk \in Document /\ process \in Process
  BY DEF TypeOK, Document
<1>2. [process EXCEPT !.phase = "finished", !.outcome = outcome, !.exit = exit] \in Process
  BY <1>1 DEF Process
<1>3. disk' \in Document
  BY <1>1, <1>2 DEF FinishResult, Document
<1>4. /\ \A j \in Indexes \ {i} : disk'.processes[j] = disk.processes[j]
      /\ disk'.processes[i] = [process EXCEPT !.phase = "finished", !.outcome = outcome, !.exit = exit]
      /\ disk'.step = disk.step /\ disk'.terminal = disk.terminal
  BY <1>1 DEF FinishResult, Document
<1>5. disk.terminal = "none" /\ process.phase # "none" /\ process.identity = identity
  BY <1>1 DEF FinishAllowed, SameProcess, Unfinished
<1>6. disk'.processes[i].phase = "finished" /\ disk'.processes[i].accepted = process.accepted
  BY <1>1, <1>4 DEF Process
<1> QED BY <1>3, <1>4, <1>5, <1>6 DEF Rerecords

LEMMA FinishKeeps ==
  ASSUME TypeOK, CheckpointInvariant, NEW i \in Indexes, NEW generation, NEW identity,
         NEW outcome \in Outcomes, NEW exit \in {"unknown", "status"},
         FinishAllowed(disk, i, generation, identity, outcome, exit),
         disk' = FinishResult(disk, i, outcome, exit),
         ~Matches(identity), ran' = ran, children' \subseteq children
  PROVE  CheckpointInvariant'
<1>1. /\ Rerecords(i)
      /\ disk.processes[i].phase # "none" /\ disk.processes[i].identity = identity
      /\ disk'.processes[i].phase = "finished"
  BY FinishFacts
<1>2. Supervised(i) /\ disk.step.phase # "none" /\ i <= disk.step.index
  BY <1>1, RecordedIsSupervised, RecordedIsBehind
<1>3. CheckpointIsRecoverable' /\ ProcessesAreSettled' /\ RanIsRecorded' /\ SuccessSkipsNothing'
  BY <1>1, <1>2, RerecordingKeeps
<1>4. LiveChildIsRecorded'
  BY <1>1 DEF CheckpointInvariant, LiveChildIsRecorded, Rerecords, Matches, TypeOK, Child
<1> QED BY <1>3, <1>4 DEF CheckpointInvariant

LEMMA AcceptFacts ==
  ASSUME TypeOK, NEW i \in Indexes, NEW generation, NEW identity,
         AcceptAllowed(disk, i, generation, identity), disk' = AcceptResult(disk, i)
  PROVE  /\ Rerecords(i)
         /\ Unfinished(disk.processes[i]) /\ disk.processes[i].identity = identity
         /\ disk'.processes[i].phase = "accepted" /\ disk'.processes[i].accepted
         /\ disk'.processes[i].identity = identity
<1> DEFINE process == disk.processes[i]
<1>1. disk \in Document /\ process \in Process
  BY DEF TypeOK, Document
<1>2. [process EXCEPT !.phase = "accepted", !.accepted = TRUE] \in Process
  BY <1>1 DEF Process
<1>3. disk' \in Document
  BY <1>1, <1>2 DEF AcceptResult, Document
<1>4. /\ \A j \in Indexes \ {i} : disk'.processes[j] = disk.processes[j]
      /\ disk'.processes[i] = [process EXCEPT !.phase = "accepted", !.accepted = TRUE]
      /\ disk'.step = disk.step /\ disk'.terminal = disk.terminal
  BY <1>1 DEF AcceptResult, Document
<1>5. disk.terminal = "none" /\ Unfinished(process) /\ process.identity = identity
  BY <1>1 DEF AcceptAllowed, SameProcess
<1>6. /\ disk'.processes[i].phase = "accepted" /\ disk'.processes[i].accepted
      /\ disk'.processes[i].identity = process.identity
  BY <1>1, <1>4 DEF Process
<1> QED BY <1>3, <1>4, <1>5, <1>6 DEF Rerecords

LEMMA AcceptKeeps ==
  ASSUME TypeOK, CheckpointInvariant, NEW i \in Indexes, NEW generation, NEW identity,
         AcceptAllowed(disk, i, generation, identity), disk' = AcceptResult(disk, i),
         ran' = ran, children' \subseteq children
  PROVE  CheckpointInvariant'
<1>1. /\ Rerecords(i)
      /\ Unfinished(disk.processes[i]) /\ disk.processes[i].identity = identity
      /\ disk'.processes[i].phase = "accepted" /\ disk'.processes[i].accepted
      /\ disk'.processes[i].identity = identity
  BY AcceptFacts
<1>2. disk.processes[i].phase # "none"
  BY <1>1 DEF Unfinished
<1>3. Supervised(i) /\ disk.step.phase # "none" /\ i <= disk.step.index
  BY <1>2, RecordedIsSupervised, RecordedIsBehind
<1>4. CheckpointIsRecoverable' /\ ProcessesAreSettled' /\ RanIsRecorded' /\ SuccessSkipsNothing'
  BY <1>1, <1>3, RerecordingKeeps
<1>5. LiveChildIsRecorded'
  BY <1>1 DEF CheckpointInvariant, LiveChildIsRecorded, Rerecords, Unfinished, TypeOK, Child
<1> QED BY <1>4, <1>5 DEF CheckpointInvariant

LEMMA RegisterFacts ==
  ASSUME TypeOK, NEW i \in Indexes, NEW generation \in Nat, NEW identity \in Identity,
         RegisterAllowed(disk, i, generation),
         disk' = RegisterResult(disk, i, generation, identity)
  PROVE  /\ Rerecords(i)
         /\ ~Unfinished(disk.processes[i])
         /\ disk'.processes[i].phase = "registered"
         /\ disk'.processes[i].identity = identity
<1> DEFINE process == [NoProcess EXCEPT !.generation = generation, !.identity = identity,
                                        !.phase = "registered"]
<1>1. disk \in Document /\ disk.processes \in [Indexes -> Process]
  BY DEF TypeOK, Document
<1>2. identity \in [pid : Pids, boot : 0 .. MaxDisturbances] \cup {[pid |-> 0, boot |-> 0]}
  BY DEF Identity, NoChild
<1>3. /\ process \in Process
      /\ process.phase = "registered" /\ process.identity = identity
  BY <1>2 DEF Process, NoProcess
<1> HIDE DEF process
<1>4. disk' = [disk EXCEPT !.processes[i] = process]
  BY DEF RegisterResult, process
<1>5. disk' \in Document
  BY <1>1, <1>3, <1>4 DEF Document
<1>6. /\ \A j \in Indexes \ {i} : disk'.processes[j] = disk.processes[j]
      /\ disk'.processes[i] = process
      /\ disk'.step = disk.step /\ disk'.terminal = disk.terminal
  BY <1>1, <1>4 DEF Document
<1>7. disk.terminal = "none" /\ ~Unfinished(disk.processes[i])
  BY DEF RegisterAllowed
<1> QED BY <1>3, <1>5, <1>6, <1>7 DEF Rerecords

LEMMA RegisterKeeps ==
  ASSUME TypeOK, CheckpointInvariant, NEW i \in Indexes, NEW generation \in Nat,
         NEW identity \in Identity,
         RegisterAllowed(disk, i, generation),
         disk' = RegisterResult(disk, i, generation, identity),
         Supervised(i), disk.step.phase # "none", i <= disk.step.index, ran' = ran,
         \A child \in children' : child.known =>
           child \in children \/ (child.step = i /\ child.identity = identity)
  PROVE  CheckpointInvariant'
<1>1. /\ Rerecords(i)
      /\ ~Unfinished(disk.processes[i])
      /\ disk'.processes[i].phase = "registered"
      /\ disk'.processes[i].identity = identity
  BY RegisterFacts
<1>2. CheckpointIsRecoverable' /\ ProcessesAreSettled' /\ RanIsRecorded' /\ SuccessSkipsNothing'
  BY <1>1, RerecordingKeeps
<1>3. LiveChildIsRecorded'
  BY <1>1 DEF CheckpointInvariant, LiveChildIsRecorded, Rerecords, Unfinished, TypeOK, Child
<1> QED BY <1>2, <1>3 DEF CheckpointInvariant

(* The step moves on, with every process as it was.                        *)
Steps(target) ==
  /\ disk' \in Document
  /\ disk'.step = target
  /\ disk'.processes = disk.processes
  /\ disk.terminal = "none" /\ disk'.terminal = "none"

LEMMA StepFacts ==
  ASSUME TypeOK, NEW target \in StepTarget, StepAllowed(disk, target),
         disk' = StepResult(disk, target)
  PROVE  Steps(target)
<1>1. disk \in Document
  BY DEF TypeOK
<1> DEFINE secret == IF disk.step.phase # "none" /\ target.index # disk.step.index
                     THEN NoSecret ELSE disk.secret
<1>2. secret \in SecretTarget \cup {NoSecret}
  BY <1>1 DEF Document
<1>3. disk' = [disk EXCEPT !.step = target, !.secret = secret]
  BY <1>1 DEF StepResult, Document
<1> HIDE DEF secret
<1>4. disk' \in Document /\ disk'.step = target /\ disk'.processes = disk.processes
      /\ disk'.terminal = disk.terminal
  BY <1>1, <1>2, <1>3 DEF Document
<1> QED BY <1>4 DEF Steps, StepAllowed

LEMMA SteppingKeeps ==
  ASSUME TypeOK, CheckpointInvariant, NEW target \in StepTarget, Steps(target),
         children' \subseteq children,
         target.index >= disk.step.index
  PROVE  ProcessesAreSettled' /\ SuccessSkipsNothing' /\ LiveChildIsRecorded' /\ ~FindRecoveryConflict'
<1>1. ProcessesAreSettled' /\ SuccessSkipsNothing' /\ LiveChildIsRecorded'
  BY DEF CheckpointInvariant, ProcessesAreSettled, SuccessSkipsNothing, LiveChildIsRecorded, Steps
<1>2. target.index \in Indexes /\ target.phase # "none"
  BY DEF StepTarget, StepPhases
<1>3. \A i \in Indexes : disk.processes[i].phase # "none" => Supervised(i) /\ ~(i > target.index)
  BY <1>2, StepTypes, RecordedIsSupervised, RecordedIsBehind
<1> QED BY <1>1, <1>2, <1>3 DEF FindRecoveryConflict, Supervised, Steps

(* The step fails, or goes on.                                             *)
LEMMA SameStepKeeps ==
  ASSUME TypeOK, CheckpointInvariant, NEW target \in StepTarget, Steps(target),
         children' \subseteq children, ran' = ran,
         target.index = disk.step.index, target.attempt >= disk.step.attempt,
         disk.step.phase # "none",
         disk.step.phase # "succeeded", target.phase # "succeeded"
  PROVE  CheckpointInvariant' /\ \A i : Completed(i)' <=> Completed(i)
<1>1. \A i : Completed(i)' <=> Completed(i)
  BY DEF Completed, Steps
<1>2. /\ ProcessesAreSettled' /\ SuccessSkipsNothing' /\ LiveChildIsRecorded'
      /\ ~FindRecoveryConflict'
  BY SteppingKeeps, StepTypes
<1>3. CheckpointIsRecoverable'
  BY <1>1, <1>2 DEF CheckpointInvariant, CheckpointIsRecoverable, Supervised, Steps
<1>4. RanIsRecorded'
  <2>1. \A attempt \in ran : attempt[2] \in Nat
    BY DEF TypeOK
  <2>2. target.attempt \in Nat /\ target.phase # "none"
    BY DEF StepTarget, StepPhases
  <2> QED BY <1>1, <2>1, <2>2, StepTypes
          DEF CheckpointInvariant, RanIsRecorded, Foreground, Supervised, InRan, Steps
<1> QED BY <1>1, <1>2, <1>3, <1>4 DEF CheckpointInvariant

(* The step succeeds.                                                      *)
LEMMA SucceedingKeeps ==
  ASSUME TypeOK, CheckpointInvariant, NEW target \in StepTarget, Steps(target),
         children' \subseteq children, ran' = ran,
         target.index = disk.step.index, target.attempt = disk.step.attempt,
         disk.step.phase = "started", target.phase = "succeeded",
         Foreground(disk.step.index) => InRan(disk.step.index),
         Supervised(disk.step.index) => disk.processes[disk.step.index].phase # "none"
  PROVE  CheckpointInvariant' /\ \A i : Completed(i)' <=> Completed(i) \/ i = disk.step.index
<1>1. \A i : Completed(i)' <=> Completed(i) \/ i = disk.step.index
  BY DEF Completed, Steps
<1>2. /\ ProcessesAreSettled' /\ SuccessSkipsNothing' /\ LiveChildIsRecorded'
      /\ ~FindRecoveryConflict'
  BY SteppingKeeps, StepTypes
<1>3. CheckpointIsRecoverable'
  BY <1>1, <1>2 DEF CheckpointInvariant, CheckpointIsRecoverable, Supervised, Steps
<1>4. RanIsRecorded'
  BY <1>1, StepTypes
     DEF CheckpointInvariant, RanIsRecorded, Foreground, Supervised, InRan, Steps
<1> QED BY <1>1, <1>2, <1>3, <1>4 DEF CheckpointInvariant

(* The sequence comes to its next step.                                    *)
LEMMA NextStepKeeps ==
  ASSUME TypeOK, CheckpointInvariant, NEW target \in StepTarget, Steps(target),
         children' \subseteq children, ran' = ran, target.phase = "started",
         \/ disk.step.phase = "none" /\ target.index = 0
         \/ disk.step.phase = "succeeded" /\ target.index = disk.step.index + 1
  PROVE  CheckpointInvariant' /\ \A i \in Indexes : Completed(i)' <=> Completed(i)
<1>1. \A i \in Indexes : Completed(i)' <=> Completed(i)
  BY StepTypes DEF Completed, Steps
<1>2. target.index >= disk.step.index /\ \A n \in 0 .. disk.step.index : n <= target.index
  BY StepTypes
<1>3. /\ ProcessesAreSettled' /\ SuccessSkipsNothing' /\ LiveChildIsRecorded'
      /\ ~FindRecoveryConflict'
  BY <1>2, SteppingKeeps
<1>4. CheckpointIsRecoverable'
  BY <1>1, <1>3 DEF CheckpointInvariant, CheckpointIsRecoverable, Supervised, Steps
<1>5. ASSUME NEW attempt \in ran
      PROVE  attempt[1] < target.index
  <2>1. attempt[1] \in Nat /\ attempt[1] <= disk.step.index /\ disk.step.phase # "none"
    BY StepTypes DEF TypeOK, CheckpointInvariant, RanIsRecorded
  <2> QED BY <2>1, StepTypes
<1>6. RanIsRecorded'
  <2>1. \A attempt \in ran' : /\ disk'.step.phase # "none"
                              /\ attempt[1] <= disk'.step.index
                              /\ attempt[1] # disk'.step.index
    <3>1. \A attempt \in ran : attempt[1] \in Nat
      BY StepTypes DEF TypeOK
    <3>2. target.index \in Nat
      BY StepTypes DEF StepTarget
    <3> QED BY <1>5, <3>1, <3>2 DEF Steps
  <2>2. \A i \in Indexes : Completed(i)' /\ Foreground(i)' => InRan(i)'
    BY <1>1 DEF CheckpointInvariant, RanIsRecorded, Foreground, Supervised, InRan
  <2> QED BY <2>1, <2>2 DEF RanIsRecorded
<1> QED BY <1>1, <1>3, <1>4, <1>6 DEF CheckpointInvariant

(* The secret installer records a phase.                                   *)
LEMMA SecretKeeps ==
  ASSUME TypeOK, CheckpointInvariant, NEW phase \in SecretPhases,
         SecretAllowed(disk, [step |-> disk.step.index, phase |-> phase]),
         disk' = SecretResult(disk, [step |-> disk.step.index, phase |-> phase]),
         children' = children, ran' = ran
  PROVE  /\ CheckpointInvariant' /\ disk' \in Document
         /\ disk'.step = disk.step /\ disk'.processes = disk.processes
         /\ disk'.terminal = disk.terminal
<1> DEFINE target == [step |-> disk.step.index, phase |-> phase]
<1>1. target \in SecretTarget /\ disk \in Document
  BY StepTypes DEF SecretTarget, TypeOK
<1>2. disk' = [disk EXCEPT !.secret = target]
  BY DEF SecretResult
<1> HIDE DEF target
<1>3. /\ disk' \in Document /\ disk'.step = disk.step /\ disk'.processes = disk.processes
      /\ disk'.terminal = disk.terminal
  BY <1>1, <1>2 DEF Document
<1>4. CheckpointIsRecoverable' /\ ProcessesAreSettled' /\ SuccessSkipsNothing'
  BY <1>3 DEF CheckpointInvariant, CheckpointIsRecoverable, ProcessesAreSettled,
              SuccessSkipsNothing, FindRecoveryConflict, Completed, Supervised
<1>5. RanIsRecorded'
  BY <1>3 DEF CheckpointInvariant, RanIsRecorded, Completed, Supervised, Foreground, InRan
<1>6. LiveChildIsRecorded'
  BY <1>3 DEF CheckpointInvariant, LiveChildIsRecorded
<1> QED BY <1>3, <1>4, <1>5, <1>6 DEF CheckpointInvariant

(* The checkpoint becomes terminal: only with every process settled.       *)
LEMMA TerminalKeeps ==
  ASSUME TypeOK, CheckpointInvariant, NEW terminal \in {"succeeded", "failed"},
         disk' = [disk EXCEPT !.terminal = terminal], Schema(disk'),
         children' \subseteq children, ran' = ran,
         terminal = "succeeded" =>
           /\ disk.step.phase = "succeeded" /\ disk.step.index + 1 = StepCount
           /\ \A i \in Indexes : Supervised(i) => disk.processes[i].accepted
  PROVE  /\ CheckpointInvariant' /\ disk' \in Document
         /\ disk'.processes = disk.processes /\ disk'.terminal = terminal
         /\ \A child \in children' : ~child.known
<1>1. disk \in Document
  BY DEF TypeOK
<1>2. /\ disk' \in Document /\ disk'.step = disk.step /\ disk'.processes = disk.processes
      /\ disk'.terminal = terminal
  BY <1>1 DEF Document
<1>3. CheckpointIsRecoverable'
  BY <1>2 DEF CheckpointInvariant, CheckpointIsRecoverable, FindRecoveryConflict, Completed, Supervised
<1>4. \A i \in Indexes : ~Unfinished(disk.processes[i])
  BY <1>2 DEF Schema
<1>5. ProcessesAreSettled'
  BY <1>2, <1>4 DEF CheckpointInvariant, ProcessesAreSettled
<1>6. RanIsRecorded'
  BY <1>2 DEF CheckpointInvariant, RanIsRecorded, Completed, Supervised, Foreground, InRan
<1>7. LiveChildIsRecorded' /\ \A child \in children' : ~child.known
  BY <1>2, <1>4 DEF CheckpointInvariant, LiveChildIsRecorded, TypeOK, Child
<1>8. SuccessSkipsNothing'
  <2>1. CASE terminal = "failed"
    BY <1>2, <2>1 DEF SuccessSkipsNothing
  <2>2. CASE terminal = "succeeded"
    <3>1. \A i \in Indexes : Completed(i)
      BY <2>2, StepTypes, PlanAssumption DEF Completed, Indexes
    <3>2. \A i \in Indexes : Supervised(i) => disk.processes[i].phase = "finished"
      <4>1. \A i \in Indexes : Supervised(i) => disk.processes[i].phase # "none"
        BY <3>1 DEF CheckpointInvariant, CheckpointIsRecoverable
      <4>2. \A i \in Indexes : disk.processes[i].phase \in {"none", "registered", "accepted", "finished"}
        BY StepTypes DEF Process
      <4> QED BY <1>4, <4>1, <4>2 DEF Unfinished
    <3>3. \A i \in Indexes : Foreground(i) => InRan(i)
      BY <3>1 DEF CheckpointInvariant, RanIsRecorded
    <3> QED BY <1>2, <2>2, <3>2, <3>3 DEF SuccessSkipsNothing, Supervised, Foreground, InRan
  <2> QED BY <2>1, <2>2
<1> QED BY <1>2, <1>3, <1>5, <1>6, <1>7, <1>8 DEF CheckpointInvariant

(* The command of the current step is started.                             *)
LEMMA ExecutingKeeps ==
  ASSUME TypeOK, CheckpointInvariant, disk' = disk, children' = children,
         disk.step.phase = "started",
         ran' = ran \cup {<<disk.step.index, disk.step.attempt>>}
  PROVE  CheckpointInvariant' /\ ran' \subseteq Indexes \X Nat /\ InRan(disk.step.index)'
<1>1. CheckpointIsRecoverable' /\ ProcessesAreSettled' /\ LiveChildIsRecorded'
  BY DEF CheckpointInvariant, CheckpointIsRecoverable, ProcessesAreSettled, LiveChildIsRecorded,
         FindRecoveryConflict, Completed, Supervised
<1>2. SuccessSkipsNothing'
  BY DEF CheckpointInvariant, SuccessSkipsNothing, Supervised
<1>3. RanIsRecorded'
  <2>1. \A attempt \in ran' : /\ disk.step.phase # "none"
                              /\ attempt[1] <= disk.step.index
                              /\ attempt[1] = disk.step.index => attempt[2] <= disk.step.attempt
    BY StepTypes DEF CheckpointInvariant, RanIsRecorded
  <2>2. \A i \in Indexes : Completed(i) /\ Foreground(i) => InRan(i)'
    BY DEF CheckpointInvariant, RanIsRecorded, InRan
  <2> QED BY <2>1, <2>2 DEF RanIsRecorded, Completed, Foreground, Supervised
<1>4. ran' \subseteq Indexes \X Nat /\ InRan(disk.step.index)'
  <2>1. <<disk.step.index, disk.step.attempt>> \in Indexes \X Nat
    BY StepTypes
  <2>2. <<disk.step.index, disk.step.attempt>> \in ran'
    OBVIOUS
  <2>3. InRan(disk.step.index)'
    BY <2>2 DEF InRan
  <2> QED BY <2>1, <2>3 DEF TypeOK
<1> QED BY <1>1, <1>2, <1>3, <1>4 DEF CheckpointInvariant

-----------------------------------------------------------------------------
(* The runner: its fields, and the moves that many steps share             *)

Fields == {"pc", "cur", "ret", "why", "late", "stopping", "child", "tracked", "held", "outcome"}
ChangesOnly(fields) == run' \in Runs /\ \A f \in Fields \ fields : run'[f] = run[f]

Stops(why) ==
  /\ ChangesOnly({"pc", "ret", "why", "late", "stopping", "child", "tracked", "held"})
  /\ run'.pc = "stop" /\ run'.ret = "stop" /\ run'.why = why

LEMMA TrackedTypes ==
  ASSUME run \in Runs
  PROVE  /\ run.tracked \in Seq(TrackedProcess)
         /\ DOMAIN run.tracked = 1 .. Len(run.tracked) /\ DOMAIN run.tracked \subseteq Nat
         /\ \A k \in DOMAIN run.tracked :
              /\ run.tracked[k] \in TrackedProcess
              /\ run.tracked[k].step \in Indexes
              /\ run.tracked[k].result \in BOOLEAN
<1>1. run.tracked \in Seq(TrackedProcess)
  BY DEF Runs
<1>2. /\ DOMAIN run.tracked = 1 .. Len(run.tracked) /\ DOMAIN run.tracked \subseteq Nat
      /\ \A k \in DOMAIN run.tracked : run.tracked[k] \in TrackedProcess
  BY <1>1, ElementOfSeq, LenProperties
<1> QED BY <1>1, <1>2 DEF TrackedProcess

LEMMA GotoFields ==
  ASSUME run \in Runs, NEW pc \in Programs, run' = Goto(pc)
  PROVE  ChangesOnly({"pc"}) /\ run'.pc = pc
BY DEF Runs, Goto, ChangesOnly, Fields

LEMMA CallFields ==
  ASSUME run \in Runs, NEW pc \in Programs, NEW i \in Indexes,
         NEW ret \in {"main", "started", "reconcile", "stop"}, run' = Call(pc, i, ret)
  PROVE  ChangesOnly({"pc", "cur", "ret"}) /\ run'.pc = pc /\ run'.cur = i /\ run'.ret = ret
<1>1. i \in 0 .. StepCount
  BY PlanAssumption DEF Indexes
<1> QED BY <1>1 DEF Runs, Call, ChangesOnly, Fields

LEMMA HoldingFields ==
  ASSUME run \in Runs, NEW pc \in Programs, NEW document \in Document,
         run' = Holding(Goto(pc), document)
  PROVE  ChangesOnly({"pc", "held"}) /\ run'.pc = pc /\ run'.held = document.processes
<1>1. document.processes \in [Indexes -> Process]
  BY DEF Document
<1> DEFINE processes == document.processes
<1> HIDE DEF processes
<1>2. run' = [run EXCEPT !.pc = pc, !.held = processes] /\ processes \in [Indexes -> Process]
  BY <1>1 DEF Holding, Goto, Runs, processes
<1>3. ChangesOnly({"pc", "held"}) /\ run'.pc = pc /\ run'.held = processes
  BY <1>2 DEF Runs, ChangesOnly, Fields
<1> QED BY <1>3 DEF processes

LEMMA ProgramFacts ==
  /\ {"off", "start", "reconcile", "resume", "spawn", "register", "window", "loop", "exec",
      "running", "succeed", "record", "stop", "shutdown"} \subseteq Programs
  /\ NoChild \in Identity
BY DEF Programs, NoChild, Identity

LEMMA StopAllFields ==
  ASSUME run \in Runs, NEW why \in {"fail", "succeed", "throw"}, run' = StopAll(why)
  PROVE  Stops(why) /\ run'.tracked = run.tracked /\ run'.held = run.held
<1>1. /\ run' \in Runs
      /\ run'.pc = "stop" /\ run'.ret = "stop" /\ run'.why = why
      /\ run'.cur = run.cur /\ run'.outcome = run.outcome
      /\ run'.tracked = run.tracked /\ run'.held = run.held
  BY ProgramFacts DEF Runs, StopAll
<1> QED BY <1>1 DEF Stops, ChangesOnly, Fields

LEMMA HoldingStopAllFields ==
  ASSUME run \in Runs, NEW why \in {"fail", "succeed", "throw"}, NEW document \in Document,
         run' = Holding(StopAll(why), document)
  PROVE  Stops(why) /\ run'.tracked = run.tracked /\ run'.held = document.processes
<1>1. document.processes \in [Indexes -> Process]
  BY DEF Document
<1> DEFINE processes == document.processes
<1> HIDE DEF processes
<1>2. /\ run' = [StopAll(why) EXCEPT !.held = processes]
      /\ processes \in [Indexes -> Process]
  BY <1>1 DEF Holding, processes
<1>3. /\ run' \in Runs
      /\ run'.pc = "stop" /\ run'.ret = "stop" /\ run'.why = why
      /\ run'.cur = run.cur /\ run'.outcome = run.outcome
      /\ run'.tracked = run.tracked /\ run'.held = processes
  BY <1>2, ProgramFacts DEF Runs, StopAll
<1> QED BY <1>3 DEF Stops, ChangesOnly, Fields, processes

LEMMA InitialProcesses == InitialCheckpoint \in Document /\ InitialCheckpoint.processes \in [Indexes -> Process]
BY PlanAssumption DEF InitialCheckpoint, Document, Process, NoProcess, NoStep, NoSecret

LEMMA EndedFields ==
  ASSUME NEW outcome \in {"none", "running", "crashed", "error", "interrupted", "succeeded", "failed"}
  PROVE  /\ Ended(outcome) \in Runs
         /\ Ended(outcome).pc = "off" /\ Ended(outcome).outcome = outcome
         /\ Ended(outcome).tracked = <<>> /\ Ended(outcome).why = "none"
         /\ Ended(outcome).ret = "main"
<1> DEFINE held == InitialCheckpoint.processes
<1>1. held \in [Indexes -> Process]
  BY InitialProcesses
<1>2. <<>> \in Seq(TrackedProcess) /\ 0 \in 0 .. StepCount
  BY PlanAssumption
<1>3. Ended(outcome) =
        [pc |-> "off", cur |-> 0, ret |-> "main", why |-> "none", late |-> FALSE,
         stopping |-> FALSE, child |-> NoChild, tracked |-> <<>>,
         held |-> held, outcome |-> outcome]
  BY DEF Ended
<1> HIDE DEF held
<1> QED BY <1>1, <1>2, <1>3, ProgramFacts DEF Runs

LEMMA EndedKeeps ==
  ASSUME NEW outcome \in {"none", "crashed", "error", "interrupted", "succeeded", "failed"},
         run' = Ended(outcome),
         outcome \in {"succeeded", "failed", "interrupted"} => \A child \in children' : ~child.known
  PROVE  RunInvariant' /\ run' \in Runs
<1>1. /\ run' \in Runs /\ run'.pc = "off" /\ run'.outcome = outcome
      /\ run'.tracked = <<>> /\ run'.why = "none"
  BY EndedFields
<1>2. Control' /\ Place' /\ SuccessIsEarned'
  BY <1>1 DEF Control, Place, SuccessIsEarned, Launching, Reconciling, Stepping
<1>3. TracksOnce' /\ NoticedAreGone' /\ StoppedIsGone' /\ LaunchIsKnown' /\ TracksCompleted'
  BY <1>1 DEF TracksOnce, NoticedAreGone, StoppedIsGone, LaunchIsKnown, TracksCompleted, IsTracking
<1>4. ServicesAreThere' /\ ChildrenAreWithinReach' /\ RunLeavesNoChild'
  BY <1>1 DEF ServicesAreThere, ChildrenAreWithinReach, RunLeavesNoChild,
              Launching, Reconciling, Stepping
<1> QED BY <1>1, <1>2, <1>3, <1>4 DEF RunInvariant

(* What holds of the tracked processes and of the children is carried on.  *)
LEMMA CarriesOn ==
  ASSUME TypeOK, RunInvariant, run.pc # "off",
         run'.pc \notin {"off", "start", "shutdown"}, run'.outcome = "running",
         run'.tracked = run.tracked, children' \subseteq children,
         \/ run.pc # "start" /\ run'.held = run.held
         \/ LiveChildIsRecorded' /\ run'.held = disk'.processes
  PROVE  /\ TracksOnce' /\ NoticedAreGone' /\ StoppedIsGone'
         /\ ChildrenAreWithinReach' /\ RunLeavesNoChild'
<1>1. TracksOnce' /\ NoticedAreGone' /\ StoppedIsGone' /\ RunLeavesNoChild'
  BY DEF RunInvariant, TracksOnce, NoticedAreGone, StoppedIsGone, RunLeavesNoChild, Matches
<1>2. ASSUME NEW child \in children', child.known
      PROVE  /\ IsTracking(child.step)' => Tracks(child.step, child.identity)'
             /\ ~IsTracking(child.step)' => HeldAs(child)'
  <2>1. IsTracking(child.step)' => Tracks(child.step, child.identity)'
    BY <1>2 DEF RunInvariant, Control, ChildrenAreWithinReach, IsTracking, Tracks
  <2>2. ~IsTracking(child.step)' => HeldAs(child)'
    <3>1. CASE run.pc # "start" /\ run'.held = run.held
      BY <1>2, <3>1 DEF RunInvariant, ChildrenAreWithinReach, IsTracking, HeldAs
    <3>2. CASE LiveChildIsRecorded' /\ run'.held = disk'.processes
      BY <1>2, <3>2 DEF LiveChildIsRecorded, HeldAs
    <3> QED BY <3>1, <3>2
  <2> QED BY <2>1, <2>2
<1>3. ChildrenAreWithinReach'
  BY <1>2 DEF ChildrenAreWithinReach
<1> QED BY <1>1, <1>3

LEMMA StoppingKeeps ==
  ASSUME TypeOK, RunInvariant, NEW why \in {"fail", "succeed", "throw"}, Stops(why),
         run.pc # "off", disk'.terminal # "none" => why = "throw",
         SuccessIsEarned', TracksOnce', NoticedAreGone', ChildrenAreWithinReach'
  PROVE  RunInvariant'
<1>1. /\ run'.pc = "stop" /\ run'.ret = "stop" /\ run'.why = why
      /\ run'.outcome = "running"
  BY DEF Stops, ChangesOnly, Fields, RunInvariant, Control
<1>2. /\ Control' /\ Place' /\ StoppedIsGone' /\ LaunchIsKnown' /\ TracksCompleted'
      /\ ServicesAreThere' /\ RunLeavesNoChild'
  BY <1>1 DEF Control, Place, StoppedIsGone, Launching, Reconciling, Stepping, LaunchIsKnown, TracksCompleted,
              ServicesAreThere, RunLeavesNoChild
<1> QED BY <1>2 DEF RunInvariant

(* An exception, from wherever.                                            *)
LEMMA ThrownKeeps ==
  ASSUME TypeOK, RunInvariant, run.pc # "off", run' = Thrown, children' \subseteq children
  PROVE  RunInvariant' /\ run' \in Runs
<1>1. CASE run.pc = "start" \/ run.why = "throw"
  <2>1. run' = Ended("error")
    BY <1>1 DEF Thrown
  <2> QED BY <2>1, EndedKeeps
<1>2. CASE ~(run.pc = "start" \/ run.why = "throw")
  <2>1. run' = StopAll("throw") /\ run \in Runs
    BY <1>2 DEF Thrown, TypeOK
  <2>2. Stops("throw") /\ run'.tracked = run.tracked /\ run'.held = run.held
    BY <2>1, StopAllFields
  <2>3. /\ run'.pc = "stop" /\ run'.why = "throw" /\ run' \in Runs
        /\ run'.outcome = "running"
    BY <2>2 DEF Stops, ChangesOnly, Fields, RunInvariant, Control
  <2>4. TracksOnce' /\ NoticedAreGone' /\ ChildrenAreWithinReach'
    BY <1>2, <2>2, <2>3, CarriesOn
  <2>5. SuccessIsEarned'
    BY <2>3 DEF SuccessIsEarned
  <2> QED BY <2>2, <2>3, <2>4, <2>5, StoppingKeeps
<1> QED BY <1>1, <1>2

(* A terminal failure, known to the catch block of #run or not.            *)
LEMMA FailingKeeps ==
  ASSUME TypeOK, RunInvariant, run.pc # "off", children' \subseteq children,
         disk' \in Document, disk'.terminal = "none",
         \/ LiveChildIsRecorded' /\ run' = Holding(StopAll("fail"), disk')
         \/ CheckpointInvariant' /\ run' = Holding(StopAll("fail"), disk')
         \/ run.pc # "start" /\ run' = StopAll("fail")
  PROVE  RunInvariant' /\ run' \in Runs
<1>1. /\ Stops("fail") /\ run'.tracked = run.tracked
      /\ \/ LiveChildIsRecorded' /\ run'.held = disk'.processes
         \/ run.pc # "start" /\ run'.held = run.held
  BY HoldingStopAllFields, StopAllFields DEF TypeOK, CheckpointInvariant
<1>2. run'.pc = "stop" /\ run'.why = "fail" /\ run' \in Runs /\ run'.outcome = "running"
  BY <1>1 DEF Stops, ChangesOnly, Fields, RunInvariant, Control
<1>3. TracksOnce' /\ NoticedAreGone' /\ ChildrenAreWithinReach'
  BY <1>1, <1>2, CarriesOn
<1>4. SuccessIsEarned'
  BY <1>2 DEF SuccessIsEarned
<1> QED BY <1>1, <1>2, <1>3, <1>4, StoppingKeeps

-----------------------------------------------------------------------------
(* Every step keeps the invariant: starting and reconciling                *)

LEMMA StoreCases ==
  ASSUME TypeOK, NEW allowed, NEW document, NEW next, Store(allowed, document, next)
  PROVE  /\ budget' \in 0 .. MaxDisturbances - boot
         /\ \/ disk' = disk /\ run' = Thrown
            \/ allowed /\ Schema(document) /\ disk' = document /\ (run' = next \/ run' = Thrown)
<1>1. budget \in 0 .. MaxDisturbances - boot /\ boot \in 0 .. MaxDisturbances
  BY DEF TypeOK
<1>2. budget' \in 0 .. MaxDisturbances - boot
  BY <1>1, PlanAssumption DEF Store, Disturb
<1>3. \/ disk' = disk /\ run' = Thrown
      \/ allowed /\ Schema(document) /\ disk' = document /\ (run' = next \/ run' = Thrown)
  BY DEF Store
<1> QED BY <1>2, <1>3

LEMMA DisturbedBudget ==
  ASSUME TypeOK, NEW kind, Disturb(kind)
  PROVE  budget' \in 0 .. MaxDisturbances - boot /\ budget' \in 0 .. MaxDisturbances - (boot + 1)
         /\ boot + 1 \in 0 .. MaxDisturbances
BY PlanAssumption DEF TypeOK, Disturb

LEMMA TypesKept ==
  ASSUME TypeOK, disk' \in Document, run' \in Runs, children' \subseteq children,
         boot' = boot, canceled' \in BOOLEAN, ran' = ran, budget' \in 0 .. MaxDisturbances - boot
  PROVE  TypeOK'
BY DEF TypeOK

(* The runner goes on, after the step's exception or without.              *)
LEMMA SameServices ==
  ASSUME run'.tracked = run.tracked, disk'.processes = disk.processes
  PROVE  /\ \A i : Serves(i)' <=> Serves(i)
         /\ \A i : IsTracking(i)' <=> IsTracking(i)
BY DEF Serves, Tracks, IsTracking

LEMMA StartPreserves == ASSUME EngineInvariant, Start PROVE EngineInvariant'
<1> DEFINE ended == Ended("running")
<1>1. /\ ended \in Runs /\ ended.tracked = <<>> /\ ended.why = "none"
      /\ ended.outcome = "running"
  BY EndedFields
<1>2. ended.cur = 0
  BY DEF Ended
<1> HIDE DEF ended
<1>3. run' = [ended EXCEPT !.pc = "start"]
  BY DEF Start, ended
<1>4. /\ run' \in Runs /\ run'.pc = "start" /\ run'.tracked = <<>> /\ run'.why = "none"
      /\ run'.outcome = "running" /\ run'.cur = 0
  BY <1>1, <1>2, <1>3 DEF Runs, Programs
<1>5. CheckpointInvariant'
  BY SameCheckpointKeeps DEF Start, EngineInvariant
<1>6. TypeOK'
  BY <1>4 DEF TypeOK, Start, EngineInvariant
<1>7. Control' /\ Place' /\ SuccessIsEarned'
  BY <1>4 DEF Control, Place, SuccessIsEarned, Launching, Reconciling, Stepping
<1>8. TracksOnce' /\ NoticedAreGone' /\ StoppedIsGone' /\ LaunchIsKnown' /\ TracksCompleted'
  BY <1>4 DEF TracksOnce, NoticedAreGone, StoppedIsGone, LaunchIsKnown, TracksCompleted, IsTracking
<1>9. ServicesAreThere' /\ ChildrenAreWithinReach' /\ RunLeavesNoChild'
  BY <1>4 DEF ServicesAreThere, ChildrenAreWithinReach, RunLeavesNoChild,
              Launching, Reconciling, Stepping
<1> QED BY <1>5, <1>6, <1>7, <1>8, <1>9 DEF EngineInvariant, RunInvariant

LEMMA InitializePreserves == ASSUME EngineInvariant, Initialize PROVE EngineInvariant'
<1> USE DEF EngineInvariant
<1>1. /\ run.pc = "start" /\ run \in Runs /\ disk \in Document
      /\ disk' = disk /\ children' = children /\ ran' = ran /\ boot' = boot /\ canceled' = canceled
  BY DEF Initialize, TypeOK
<1>2. CheckpointInvariant'
  BY <1>1, SameCheckpointKeeps
<1>3. budget' \in 0 .. MaxDisturbances - boot
  BY DisturbedBudget DEF Initialize, TypeOK
<1>4. run' \in Runs /\ RunInvariant'
  <2>1. CASE run' = Thrown
    BY <1>1, <2>1, ThrownKeeps
  <2>2. CASE disk.terminal # "none" /\ run' = Ended(disk.terminal)
    <3>1. disk.terminal \in {"succeeded", "failed"}
      BY <1>1, <2>2 DEF Document
    <3>2. \A child \in children : ~child.known
      BY <2>2 DEF CheckpointInvariant, LiveChildIsRecorded, ProcessesAreSettled, TypeOK, Child
    <3> QED BY <1>1, <2>2, <3>1, <3>2, EndedKeeps
  <2>3. CASE disk.terminal = "none" /\ run' = Holding(StopAll("fail"), disk)
    BY <1>1, <1>2, <2>3, FailingKeeps
  <2>4. CASE disk.terminal = "none" /\ run' = Holding(Goto("reconcile"), disk)
    <3>1. /\ ChangesOnly({"pc", "held"}) /\ run'.pc = "reconcile"
          /\ run'.held = disk'.processes
      BY <1>1, <2>4, HoldingFields, ProgramFacts
    <3>2. /\ run' \in Runs /\ run'.outcome = "running" /\ run'.why = "none" /\ run'.cur = 0
          /\ run'.tracked = run.tracked /\ run'.tracked = <<>>
      BY <1>1, <3>1 DEF ChangesOnly, Fields, RunInvariant, Control, Place
    <3>3. /\ TracksOnce' /\ NoticedAreGone' /\ StoppedIsGone'
      /\ ChildrenAreWithinReach' /\ RunLeavesNoChild'
      BY <1>1, <1>2, <3>1, <3>2, CarriesOn DEF CheckpointInvariant
    <3>4. Control' /\ Place' /\ SuccessIsEarned' /\ LaunchIsKnown' /\ TracksCompleted'
      BY <1>1, <2>4, <3>1, <3>2 DEF Control, Place, SuccessIsEarned, LaunchIsKnown, TracksCompleted,
         IsTracking, Launching, Reconciling, Stepping
    <3>5. ServicesAreThere'
      BY <3>1, <3>2, StepTypes DEF ServicesAreThere, Launching, Reconciling, Stepping
    <3> QED BY <3>2, <3>3, <3>4, <3>5 DEF RunInvariant
  <2> QED BY <2>1, <2>2, <2>3, <2>4 DEF Initialize
<1>5. TypeOK'
  BY <1>1, <1>3, <1>4, TypesKept DEF TypeOK
<1> QED BY <1>2, <1>4, <1>5

(* The runner turns to the process of a step.                              *)
LEMMA LaunchingKeeps ==
  ASSUME TypeOK, RunInvariant, NEW pc \in {"resume", "spawn"}, NEW i \in Indexes,
         NEW ret \in {"reconcile", "started", "main"}, run' = Call(pc, i, ret),
         disk' = disk, children' = children, ran' = ran,
         run.pc \notin {"off", "start"}, run.why = "none",
         Supervised(i), ~IsTracking(i), pc = "resume" => ret # "main",
         IF ret = "reconcile" THEN Completed(i)
         ELSE i = disk.step.index /\ disk.step.phase = "started",
         TracksCompleted', ServicesAreThere'
  PROVE  RunInvariant' /\ run' \in Runs
<1>1. /\ ChangesOnly({"pc", "cur", "ret"}) /\ run'.pc = pc /\ run'.cur = i /\ run'.ret = ret
  BY CallFields, ProgramFacts DEF TypeOK
<1>2. /\ run' \in Runs /\ run'.outcome = run.outcome /\ run'.why = "none"
      /\ run'.tracked = run.tracked /\ run'.held = run.held
  BY <1>1 DEF ChangesOnly, Fields
<1>3. run.outcome = "running" /\ disk.terminal = "none"
  BY DEF RunInvariant, Control
<1>4. /\ TracksOnce' /\ NoticedAreGone' /\ StoppedIsGone'
      /\ ChildrenAreWithinReach' /\ RunLeavesNoChild'
  BY <1>1, <1>2, <1>3, CarriesOn
<1>5. Control'
  BY <1>1, <1>2, <1>3 DEF Control, Launching, Reconciling, Stepping
<1>6. Place' /\ SuccessIsEarned'
  BY <1>1, <1>2 DEF Place, SuccessIsEarned, Launching, Stepping, Supervised, Completed
<1>7. LaunchIsKnown'
  BY <1>1, <1>2, SameServices DEF LaunchIsKnown
<1> QED BY <1>2, <1>4, <1>5, <1>6, <1>7 DEF RunInvariant

LEMMA ReconcileCompletedPreserves ==
  ASSUME EngineInvariant, ReconcileCompleted PROVE EngineInvariant'
<1> USE DEF EngineInvariant
<1> DEFINE rest == {i \in Indexes : i >= run.cur /\ Completed(i) /\ Supervised(i)}
           least == Min(rest)
<1>1. /\ run.pc = "reconcile" /\ run \in Runs /\ disk \in Document /\ Reconciling
      /\ disk' = disk /\ children' = children /\ ran' = ran /\ boot' = boot
      /\ canceled' = canceled /\ budget' = budget
      /\ run.cur \in Nat /\ run.why = "none" /\ disk.terminal = "none" /\ run.outcome = "running"
  BY DEF ReconcileCompleted, TypeOK, Runs, RunInvariant, Control, Reconciling
<1>2. CheckpointInvariant'
  BY <1>1, SameCheckpointKeeps
<1>3. \/ rest = {} /\ run' = Holding(Goto("loop"), disk)
      \/ run' = Holding(StopAll("fail"), disk)
      \/ rest # {} /\ \E pc \in {"resume", "spawn"} : run' = Call(pc, least, "reconcile")
  BY DEF ReconcileCompleted
<1>4. \A i \in Indexes : IsTracking(i) => Completed(i) /\ i < run.cur
  BY <1>1 DEF RunInvariant, TracksCompleted
<1>5. \A i \in Indexes : Supervised(i) /\ Completed(i) /\ i < run.cur => Serves(i)
  BY <1>1 DEF RunInvariant, ServicesAreThere
<1>7. run' \in Runs /\ RunInvariant'
  <2>1. CASE rest = {} /\ run' = Holding(Goto("loop"), disk)
    <3>1. ChangesOnly({"pc", "held"}) /\ run'.pc = "loop" /\ run'.held = disk'.processes
      BY <1>1, <2>1, HoldingFields, ProgramFacts
    <3>2. /\ run' \in Runs /\ run'.outcome = "running" /\ run'.why = "none"
          /\ run'.tracked = run.tracked
      BY <1>1, <3>1 DEF ChangesOnly, Fields
    <3>3. /\ TracksOnce' /\ NoticedAreGone' /\ StoppedIsGone'
      /\ ChildrenAreWithinReach' /\ RunLeavesNoChild'
      BY <1>1, <1>2, <3>1, <3>2, CarriesOn DEF CheckpointInvariant
    <3>4. Control' /\ Place' /\ SuccessIsEarned' /\ LaunchIsKnown'
      BY <1>1, <3>1, <3>2 DEF Control, Place, SuccessIsEarned, LaunchIsKnown,
         Launching, Reconciling, Stepping
    <3>5. TracksCompleted'
      BY <1>1, <1>4, <3>1, <3>2 DEF TracksCompleted, Launching, Reconciling, Completed, IsTracking
    <3>6. \A i \in Indexes : Supervised(i) /\ Completed(i) => Serves(i)
      BY <1>1, <1>5, <2>1, StepTypes
    <3>7. ServicesAreThere'
      BY <1>1, <3>1, <3>2, <3>6, SameServices
         DEF ServicesAreThere, Launching, Reconciling, Supervised, Completed
    <3> QED BY <3>2, <3>3, <3>4, <3>5, <3>7 DEF RunInvariant
  <2>2. CASE run' = Holding(StopAll("fail"), disk)
    BY <1>1, <1>2, <2>2, FailingKeeps
  <2>3. CASE rest # {} /\ \E pc \in {"resume", "spawn"} : run' = Call(pc, least, "reconcile")
    <3>1. least \in rest /\ \A i \in rest : least <= i
      BY <2>3, StepTypes, MinIsLeast
    <3> HIDE DEF least
    <3>2. PICK pc \in {"resume", "spawn"} : run' = Call(pc, least, "reconcile")
      BY <2>3
    <3>3. /\ ChangesOnly({"pc", "cur", "ret"}) /\ run'.pc = pc /\ run'.cur = least
          /\ run'.ret = "reconcile"
      BY <1>1, <3>1, <3>2, CallFields, ProgramFacts
    <3>4. run'.tracked = run.tracked /\ Reconciling' /\ ~Stepping' /\ run'.pc # "succeed"
      BY <3>3 DEF ChangesOnly, Fields, Reconciling, Stepping, Launching
    <3>5. TracksCompleted'
      BY <1>1, <1>4, <3>1, <3>3, <3>4, SameServices, StepTypes DEF TracksCompleted, Completed
    <3>6. \A i \in Indexes : Supervised(i) /\ Completed(i) /\ i < least => Serves(i)
      BY <1>1, <1>5, <3>1, StepTypes
    <3>7. ServicesAreThere'
      BY <1>1, <3>3, <3>4, <3>6, SameServices
         DEF ServicesAreThere, Supervised, Completed
    <3>8. ~IsTracking(least) /\ Supervised(least) /\ Completed(least) /\ least \in Indexes
      BY <1>1, <1>4, <3>1, StepTypes
    <3> QED BY <1>1, <3>2, <3>5, <3>7, <3>8, LaunchingKeeps
  <2> QED BY <1>3, <2>1, <2>2, <2>3
<1>8. TypeOK'
  BY <1>1, <1>7, TypesKept DEF TypeOK
<1> QED BY <1>2, <1>7, <1>8

-----------------------------------------------------------------------------
(* The list of tracked processes grows and shrinks                         *)

LEMMA Grown ==
  ASSUME run \in Runs, TracksOnce, NoticedAreGone, NEW i \in Indexes, ~IsTracking(i),
         NEW t \in TrackedProcess, t.step = i, ~t.result,
         run'.tracked = Append(run.tracked, t), \A id : Matches(id)' => Matches(id)
  PROVE  /\ TracksOnce' /\ NoticedAreGone'
         /\ \A j : IsTracking(j)' <=> IsTracking(j) \/ j = i
         /\ \A j, id : Tracks(j, id)' <=> Tracks(j, id) \/ (j = i /\ id = t.identity)
<1> DEFINE s == run.tracked
           r == run'.tracked
           n == Len(s)
<1>1. /\ s \in Seq(TrackedProcess) /\ n \in Nat /\ DOMAIN s = 1 .. n
  BY TrackedTypes, LenProperties
<1>2. /\ r \in Seq(TrackedProcess) /\ Len(r) = n + 1
      /\ \A k \in 1 .. n : r[k] = s[k]
      /\ r[n + 1] = t
  BY <1>1, AppendProperties
<1>3. /\ DOMAIN r = 1 .. n + 1 /\ DOMAIN s \subseteq DOMAIN r /\ n + 1 \in DOMAIN r
      /\ \A k \in DOMAIN r : k \in DOMAIN s \/ k = n + 1
  BY <1>1, <1>2, LenProperties
<1> HIDE DEF n
<1>4. \A k \in DOMAIN s : r[k] = s[k] /\ s[k].step # i
  BY <1>1, <1>2 DEF IsTracking
<1>5. TracksOnce'
  BY <1>2, <1>3, <1>4 DEF TracksOnce
<1>6. NoticedAreGone'
  BY <1>2, <1>3, <1>4 DEF NoticedAreGone
<1>7. \A j : IsTracking(j)' <=> IsTracking(j) \/ j = i
  BY <1>2, <1>3, <1>4 DEF IsTracking
<1>8. \A j, id : Tracks(j, id)' <=> Tracks(j, id) \/ (j = i /\ id = t.identity)
  BY <1>2, <1>3, <1>4 DEF Tracks
<1> QED BY <1>5, <1>6, <1>7, <1>8

(* The list without its entry p.                                           *)
Loses(p) ==
  LET s == run.tracked
      r == run'.tracked
  IN  /\ \A k \in DOMAIN r : \E j \in DOMAIN s \ {p} : /\ r[k] = s[j]
                                                       /\ j = IF k < p THEN k ELSE k + 1
      /\ \A j \in DOMAIN s \ {p} : \E k \in DOMAIN r : r[k] = s[j]
      /\ DOMAIN r \subseteq Nat

LEMMA Shrunk ==
  ASSUME run \in Runs, TracksOnce, NoticedAreGone, NEW p \in DOMAIN run.tracked, Loses(p),
         children' \subseteq children
  PROVE  /\ TracksOnce' /\ NoticedAreGone'
         /\ \A j : IsTracking(j)' <=> IsTracking(j) /\ j # run.tracked[p].step
         /\ \A j, id : Tracks(j, id)' <=> Tracks(j, id) /\ j # run.tracked[p].step
<1> DEFINE s == run.tracked
           r == run'.tracked
           from(k) == IF k < p THEN k ELSE k + 1
<1>1. p \in Nat
  BY TrackedTypes
<1>2. \A k \in DOMAIN r : k \in Nat /\ from(k) \in DOMAIN s \ {p} /\ r[k] = s[from(k)]
  BY DEF Loses
<1>3. \A k, l \in DOMAIN r : from(k) = from(l) => k = l
  BY <1>1, <1>2
<1>4. \A j \in DOMAIN s \ {p} : (\E k \in DOMAIN r : r[k] = s[j]) /\ s[j].step # s[p].step
  BY DEF Loses, TracksOnce
<1> HIDE DEF from, r
<1>5. TracksOnce'
  BY <1>2, <1>3 DEF TracksOnce, r
<1>6. NoticedAreGone'
  BY <1>2 DEF NoticedAreGone, Matches, r
<1>7. \A j : IsTracking(j)' <=> IsTracking(j) /\ j # s[p].step
  BY <1>2, <1>4 DEF IsTracking, r
<1>8. \A j, id : Tracks(j, id)' <=> Tracks(j, id) /\ j # s[p].step
  BY <1>2, <1>4 DEF Tracks, r
<1> QED BY <1>5, <1>6, <1>7, <1>8

LEMMA RemovedLoses ==
  ASSUME run \in Runs, NEW p \in DOMAIN run.tracked, run'.tracked = RemoveAt(run.tracked, p)
  PROVE  Loses(p) /\ RemoveAt(run.tracked, p) \in Seq(TrackedProcess)
<1>1. run.tracked \in Seq(TrackedProcess)
  BY TrackedTypes
<1>2. RemoveAt(run.tracked, p) \in Seq(TrackedProcess)
  BY <1>1, RemovedElements
<1>3. DOMAIN RemoveAt(run.tracked, p) \subseteq Nat
  BY <1>2, LenProperties
<1> QED BY <1>1, <1>2, <1>3, RemovedElements DEF Loses

LEMMA TailLoses ==
  ASSUME run \in Runs, run.tracked # <<>>, run'.tracked = Tail(run.tracked)
  PROVE  /\ Loses(1) /\ 1 \in DOMAIN run.tracked /\ Tail(run.tracked) \in Seq(TrackedProcess)
         /\ Head(run.tracked) = run.tracked[1]
<1> DEFINE s == run.tracked
           r == Tail(s)
           n == Len(s)
<1>1. s \in Seq(TrackedProcess) /\ n \in Nat /\ DOMAIN s = 1 .. n /\ n # 0
  BY TrackedTypes, LenProperties, EmptySeq
<1>2. /\ r \in Seq(TrackedProcess) /\ Len(r) = n - 1
      /\ \A k \in 1 .. n - 1 : r[k] = s[k + 1]
      /\ Head(s) = s[1]
  BY <1>1, HeadTailProperties
<1>3. DOMAIN r = 1 .. n - 1
  BY <1>2, LenProperties
<1> HIDE DEF r, n
<1>4. ASSUME NEW k \in DOMAIN r
      PROVE  \E j \in DOMAIN s \ {1} : r[k] = s[j] /\ j = IF k < 1 THEN k ELSE k + 1
  BY <1>1, <1>2, <1>3
<1>5. ASSUME NEW j \in DOMAIN s \ {1}
      PROVE  \E k \in DOMAIN r : r[k] = s[j]
  <2>1. j - 1 \in DOMAIN r /\ r[j - 1] = s[j]
    BY <1>1, <1>2, <1>3
  <2> QED BY <2>1
<1>6. DOMAIN r \subseteq Nat /\ 1 \in DOMAIN s
  BY <1>1, <1>3
<1> QED BY <1>2, <1>4, <1>5, <1>6 DEF Loses, r

LEMMA FoundPosition ==
  ASSUME NEW i, IsTracking(i)
  PROVE  Position(i) \in DOMAIN run.tracked /\ Tracked(i).step = i
BY DEF IsTracking, Position, Tracked

-----------------------------------------------------------------------------
(* What launch and resume come to                                          *)

Returns(pc) ==
  /\ run'.pc = pc
  /\ run'.why = run.why
  /\ run'.ret = run.ret
  /\ run' \in Runs

(* stopAll goes on.                                                        *)
GoesOn ==
  /\ Returns("stop")
  /\ \A j \in Indexes \ {run.cur} : run'.held[j] = run.held[j]

LEMMA HandledFields ==
  ASSUME NEW next \in Runs, NEW i \in Indexes
  PROVE  /\ Handled(next, i) \in Runs /\ Handled(next, i).pc = "stop"
         /\ Handled(next, i).ret = next.ret /\ Handled(next, i).why = next.why
         /\ Handled(next, i).cur = next.cur /\ Handled(next, i).outcome = next.outcome
         /\ Handled(next, i).tracked = next.tracked
         /\ \A j \in Indexes \ {i} : Handled(next, i).held[j] = next.held[j]
<1> DEFINE phase == IF run.why = "throw" THEN "finished" ELSE next.held[i].phase
           held == [next.held EXCEPT ![i] = [next.held[i] EXCEPT !.phase = phase]]
<1>1. next.held \in [Indexes -> Process] /\ next.held[i] \in Process
  BY DEF Runs
<1>2. [next.held[i] EXCEPT !.phase = phase] \in Process
  BY <1>1 DEF Process
<1>3. held \in [Indexes -> Process] /\ \A j \in Indexes \ {i} : held[j] = next.held[j]
  BY <1>1, <1>2
<1>4. Handled(next, i) = [next EXCEPT !.pc = "stop", !.held = held]
  BY <1>1 DEF Handled, Runs
<1> HIDE DEF held
<1> QED BY <1>3, <1>4, ProgramFacts DEF Runs

LEMMA OnAcceptedFields ==
  ASSUME run \in Runs, run.cur \in Indexes, NEW tr \in Seq(TrackedProcess),
         NEW document \in Document,
         run' = OnAccepted([run EXCEPT !.tracked = tr], document)
  PROVE  /\ run' \in Runs /\ run'.tracked = tr /\ run'.outcome = run.outcome
         /\ run.ret = "reconcile" =>
              Returns("reconcile") /\ run'.cur = run.cur + 1 /\ run'.held = run.held
         /\ run.ret = "started" => Returns("succeed") /\ run'.held = run.held
         /\ run.ret = "main" =>
              IF canceled THEN Stops("throw") /\ run'.held = run.held
              ELSE Returns("succeed") /\ run'.held = document.processes
         /\ run.ret = "stop" => GoesOn
<1> DEFINE next == [run EXCEPT !.tracked = tr]
           to == [next EXCEPT !.child = NoChild]
           held == document.processes
<1>1. held \in [Indexes -> Process]
  BY DEF Document
<1>2. run.cur + 1 \in 0 .. StepCount
  BY PlanAssumption DEF Indexes
<1>3. to = [run EXCEPT !.tracked = tr, !.child = NoChild] /\ NoChild \in Identity
  BY ProgramFacts DEF Runs
<1>4. run' = CASE run.ret = "reconcile" -> [to EXCEPT !.pc = "reconcile", !.cur = @ + 1]
               [] run.ret = "started" -> [to EXCEPT !.pc = "succeed"]
               [] run.ret = "main" ->
                    IF canceled THEN [StopAll("throw") EXCEPT !.tracked = to.tracked]
                    ELSE Holding([to EXCEPT !.pc = "succeed"], document)
               [] run.ret = "stop" -> Handled(to, run.cur)
  BY DEF OnAccepted
<1> HIDE DEF to, next, held
<1>5. CASE run.ret = "reconcile"
  <2>1. run' = [to EXCEPT !.pc = "reconcile", !.cur = @ + 1]
    BY <1>4, <1>5
  <2>2. /\ Returns("reconcile") /\ run'.cur = run.cur + 1 /\ run'.held = run.held
        /\ run'.tracked = tr /\ run'.outcome = run.outcome
    BY <1>2, <1>3, <2>1, ProgramFacts DEF Runs, Returns
  <2> QED BY <1>5, <2>2 DEF Returns
<1>6. CASE run.ret = "started"
  <2>1. run' = [to EXCEPT !.pc = "succeed"]
    BY <1>4, <1>6
  <2>2. /\ Returns("succeed") /\ run'.held = run.held
        /\ run'.tracked = tr /\ run'.outcome = run.outcome
    BY <1>3, <2>1, ProgramFacts DEF Runs, Returns
  <2> QED BY <1>6, <2>2 DEF Returns
<1>7. CASE run.ret = "main" /\ canceled
  <2>1. run' = [StopAll("throw") EXCEPT !.tracked = to.tracked] /\ to.tracked = tr
    BY <1>3, <1>4, <1>7 DEF Runs
  <2>2. /\ run' \in Runs /\ run'.pc = "stop" /\ run'.ret = "stop" /\ run'.why = "throw"
        /\ run'.cur = run.cur /\ run'.outcome = run.outcome
        /\ run'.tracked = tr /\ run'.held = run.held
    BY <2>1, ProgramFacts DEF Runs, StopAll
  <2> QED BY <1>7, <2>2 DEF Stops, ChangesOnly, Fields
<1>8. CASE run.ret = "main" /\ ~canceled
  <2>1. run' = [[to EXCEPT !.pc = "succeed"] EXCEPT !.held = held]
    BY <1>4, <1>8 DEF Holding, held
  <2>2. /\ Returns("succeed") /\ run'.held = held
        /\ run'.tracked = tr /\ run'.outcome = run.outcome
    BY <1>1, <1>3, <2>1, ProgramFacts DEF Runs, Returns
  <2> QED BY <1>8, <2>2 DEF Returns, held
<1>9. CASE run.ret = "stop"
  <2>1. run' = Handled(to, run.cur)
    BY <1>4, <1>9
  <2>2. /\ to \in Runs /\ to.ret = run.ret /\ to.why = run.why /\ to.held = run.held
        /\ to.tracked = tr /\ to.outcome = run.outcome
    BY <1>3 DEF Runs
  <2> DEFINE handled == Handled(to, run.cur)
  <2>3. /\ handled \in Runs /\ handled.pc = "stop" /\ handled.ret = run.ret
        /\ handled.why = run.why /\ handled.tracked = tr /\ handled.outcome = run.outcome
        /\ \A j \in Indexes \ {run.cur} : handled.held[j] = run.held[j]
    BY <2>2, HandledFields
  <2> HIDE DEF handled
  <2>4. GoesOn /\ run'.tracked = tr /\ run'.outcome = run.outcome
    BY <2>1, <2>3 DEF GoesOn, Returns, handled
  <2> QED BY <1>9, <2>4 DEF GoesOn, Returns
<1>10. run.ret \in {"main", "started", "reconcile", "stop"}
  BY DEF Runs
<1> QED BY <1>5, <1>6, <1>7, <1>8, <1>9, <1>10

LEMMA OnFailedFields ==
  ASSUME run \in Runs, run.cur \in Indexes, NEW tr \in Seq(TrackedProcess),
         NEW document \in Document,
         run' = OnFailed([run EXCEPT !.tracked = tr], document)
  PROVE  /\ run' \in Runs /\ run'.tracked = tr /\ run'.outcome = run.outcome
         /\ run.ret = "reconcile" => Stops("fail") /\ run'.held = document.processes
         /\ run.ret = "started" => Returns("record") /\ run'.held = run.held
         /\ run.ret = "main" =>
              IF canceled THEN Stops("throw") /\ run'.held = run.held
              ELSE Returns("record") /\ run'.held = document.processes
         /\ run.ret = "stop" => GoesOn
<1> DEFINE next == [run EXCEPT !.tracked = tr]
           to == [next EXCEPT !.child = NoChild]
           failing == [StopAll("fail") EXCEPT !.tracked = to.tracked]
           held == document.processes
<1>1. held \in [Indexes -> Process]
  BY DEF Document
<1>2. to = [run EXCEPT !.tracked = tr, !.child = NoChild] /\ NoChild \in Identity
  BY ProgramFacts DEF Runs
<1>3. failing = [StopAll("fail") EXCEPT !.tracked = tr]
  BY <1>2 DEF Runs
<1>4. run' = CASE run.ret = "reconcile" -> Holding(failing, document)
               [] run.ret = "started" -> [to EXCEPT !.pc = "record"]
               [] run.ret = "main" -> IF canceled THEN [failing EXCEPT !.why = "throw"]
                                      ELSE Holding([to EXCEPT !.pc = "record"], document)
               [] run.ret = "stop" -> [Handled(to, run.cur) EXCEPT !.late = TRUE]
  BY DEF OnFailed
<1> HIDE DEF failing, to, next, held
<1>5. CASE run.ret = "reconcile"
  <2>1. run' = [[StopAll("fail") EXCEPT !.tracked = tr] EXCEPT !.held = held]
    BY <1>3, <1>4, <1>5 DEF Holding, held
  <2>2. /\ run' \in Runs /\ run'.pc = "stop" /\ run'.ret = "stop" /\ run'.why = "fail"
        /\ run'.cur = run.cur /\ run'.outcome = run.outcome
        /\ run'.tracked = tr /\ run'.held = held
    BY <1>1, <2>1, ProgramFacts DEF Runs, StopAll
  <2> QED BY <1>5, <2>2 DEF Stops, ChangesOnly, Fields, held
<1>6. CASE run.ret = "started"
  <2>1. run' = [to EXCEPT !.pc = "record"]
    BY <1>4, <1>6
  <2>2. /\ Returns("record") /\ run'.held = run.held
        /\ run'.tracked = tr /\ run'.outcome = run.outcome
    BY <1>2, <2>1, ProgramFacts DEF Runs, Returns
  <2> QED BY <1>6, <2>2 DEF Returns
<1>7. CASE run.ret = "main" /\ canceled
  <2>1. run' = [[StopAll("fail") EXCEPT !.tracked = tr] EXCEPT !.why = "throw"]
    BY <1>3, <1>4, <1>7
  <2>2. /\ run' \in Runs /\ run'.pc = "stop" /\ run'.ret = "stop" /\ run'.why = "throw"
        /\ run'.cur = run.cur /\ run'.outcome = run.outcome
        /\ run'.tracked = tr /\ run'.held = run.held
    BY <2>1, ProgramFacts DEF Runs, StopAll
  <2> QED BY <1>7, <2>2 DEF Stops, ChangesOnly, Fields
<1>8. CASE run.ret = "main" /\ ~canceled
  <2>1. run' = [[to EXCEPT !.pc = "record"] EXCEPT !.held = held]
    BY <1>4, <1>8 DEF Holding, held
  <2>2. /\ Returns("record") /\ run'.held = held
        /\ run'.tracked = tr /\ run'.outcome = run.outcome
    BY <1>1, <1>2, <2>1, ProgramFacts DEF Runs, Returns
  <2> QED BY <1>8, <2>2 DEF Returns, held
<1>9. CASE run.ret = "stop"
  <2>1. run' = [Handled(to, run.cur) EXCEPT !.late = TRUE]
    BY <1>4, <1>9
  <2>2. /\ to \in Runs /\ to.ret = run.ret /\ to.why = run.why /\ to.held = run.held
        /\ to.tracked = tr /\ to.outcome = run.outcome
    BY <1>2 DEF Runs
  <2> DEFINE handled == Handled(to, run.cur)
  <2>3. /\ handled \in Runs /\ handled.pc = "stop" /\ handled.ret = run.ret
        /\ handled.why = run.why /\ handled.tracked = tr /\ handled.outcome = run.outcome
        /\ \A j \in Indexes \ {run.cur} : handled.held[j] = run.held[j]
    BY <2>2, HandledFields
  <2>4. run' = [handled EXCEPT !.late = TRUE]
    BY <2>1
  <2> HIDE DEF handled
  <2>5. /\ run' \in Runs /\ run'.pc = "stop" /\ run'.ret = run.ret /\ run'.why = run.why
        /\ run'.tracked = tr /\ run'.outcome = run.outcome /\ run'.held = handled.held
    BY <2>3, <2>4 DEF Runs
  <2>6. GoesOn
    BY <2>3, <2>5 DEF GoesOn, Returns
  <2> QED BY <1>9, <2>5, <2>6 DEF GoesOn, Returns
<1>10. run.ret \in {"main", "started", "reconcile", "stop"}
  BY DEF Runs
<1> QED BY <1>5, <1>6, <1>7, <1>8, <1>9, <1>10

(* What a step that follows from a process may rely on.                    *)
LEMMA AtLaunch ==
  ASSUME TypeOK, RunInvariant, run.pc \in Launching
  PROVE  /\ run \in Runs /\ run.cur \in Indexes /\ run.outcome = "running"
         /\ run.ret \in {"main", "started", "reconcile", "stop"}
         /\ run.ret # "stop" => run.why = "none" /\ disk.terminal = "none" /\ Supervised(run.cur)
         /\ run.ret = "stop" => run.why # "none" /\ run.pc \in {"resume", "window"}
         /\ disk.terminal # "none" => run.why = "throw"
         /\ run.ret = "reconcile" => Completed(run.cur) /\ Reconciling
         /\ run.ret \in {"main", "started"} =>
              /\ run.cur = disk.step.index /\ disk.step.phase = "started"
              /\ Stepping /\ ~Completed(run.cur)
<1>1. run \in Runs /\ run.outcome = "running" /\ run.ret \in {"main", "started", "reconcile", "stop"}
  BY DEF TypeOK, Runs, RunInvariant, Control, Launching
<1>2. run.cur \in Indexes /\ (run.ret # "stop" => Supervised(run.cur))
  BY DEF RunInvariant, Place
<1>3. run.ret # "stop" => run.why = "none" /\ disk.terminal = "none"
  BY <1>1 DEF RunInvariant, Control, Launching, Reconciling, Stepping
<1>4. run.ret = "stop" => run.why # "none" /\ run.pc \in {"resume", "window"}
  BY DEF RunInvariant, Control, Launching
<1>5. disk.terminal # "none" => run.why = "throw"
  BY DEF RunInvariant, Control, Launching
<1>6. run.ret = "reconcile" => Completed(run.cur) /\ Reconciling
  BY DEF RunInvariant, Place, Reconciling
<1>7. run.ret \in {"main", "started"} =>
        run.cur = disk.step.index /\ disk.step.phase = "started" /\ Stepping
  BY DEF RunInvariant, Place, Stepping, Launching
<1>8. run.ret \in {"main", "started"} => ~Completed(run.cur)
  BY <1>7, StepTypes DEF Completed
<1> QED BY <1>1, <1>2, <1>3, <1>4, <1>5, <1>6, <1>7, <1>8

LEMMA OnAcceptedKeeps ==
  ASSUME TypeOK, RunInvariant, CheckpointInvariant', run.pc \in {"resume", "window"},
         NEW tr \in Seq(TrackedProcess), disk' \in Document,
         run' = OnAccepted([run EXCEPT !.tracked = tr], disk'),
         disk'.step = disk.step, disk'.terminal = disk.terminal,
         ran' = ran, children' \subseteq children,
         TracksOnce', NoticedAreGone',
         \A j : IsTracking(j)' <=> IsTracking(j) \/ j = run.cur,
         \A j \in Indexes : Serves(j) /\ j # run.cur => Serves(j)',
         \A j \in Indexes : j = run.cur /\ run.ret # "stop" => Serves(j)',
         \A child \in children' : child.known =>
           (IsTracking(child.step)' => Tracks(child.step, child.identity)'),
         \A i \in Indexes : disk.processes[i].accepted => disk'.processes[i].accepted
  PROVE  RunInvariant' /\ run' \in Runs
<1>1. /\ run' \in Runs /\ run'.tracked = tr /\ run'.outcome = run.outcome
      /\ run.ret = "reconcile" =>
           Returns("reconcile") /\ run'.cur = run.cur + 1 /\ run'.held = run.held
      /\ run.ret = "started" => Returns("succeed") /\ run'.held = run.held
      /\ run.ret = "main" => IF canceled THEN Stops("throw") /\ run'.held = run.held
                             ELSE Returns("succeed") /\ run'.held = disk'.processes
      /\ run.ret = "stop" => GoesOn
  BY AtLaunch, OnAcceptedFields DEF Launching
<1>2. /\ run \in Runs /\ run.cur \in Indexes /\ run.outcome = "running"
      /\ run.ret \in {"main", "started", "reconcile", "stop"}
      /\ run.ret # "stop" => run.why = "none" /\ disk.terminal = "none" /\ Supervised(run.cur)
      /\ run.ret = "stop" => run.why # "none"
      /\ disk.terminal # "none" => run.why = "throw"
      /\ run.ret = "reconcile" => Completed(run.cur) /\ Reconciling
      /\ run.ret \in {"main", "started"} =>
           /\ run.cur = disk.step.index /\ disk.step.phase = "started"
           /\ Stepping /\ ~Completed(run.cur)
  BY AtLaunch DEF Launching
<1>3. run'.pc \in {"reconcile", "succeed", "stop"} /\ run'.outcome = "running"
  BY <1>1, <1>2 DEF Returns, Stops, GoesOn
<1>4. ChildrenAreWithinReach'
  <2>1. ASSUME NEW child \in children', child.known, ~IsTracking(child.step)'
        PROVE  HeldAs(child)'
    <3>1. child.step \in Indexes \ {run.cur} /\ ~IsTracking(child.step) /\ child \in children
      BY <2>1 DEF TypeOK, Child
    <3>2. HeldAs(child)
      BY <2>1, <3>1 DEF RunInvariant, ChildrenAreWithinReach
    <3>3. CASE run'.held = disk'.processes
      BY <2>1, <3>3 DEF CheckpointInvariant, LiveChildIsRecorded, HeldAs
    <3>4. CASE run'.held[child.step] = run.held[child.step]
      BY <3>2, <3>4 DEF HeldAs
    <3> QED BY <1>1, <1>2, <3>1, <3>3, <3>4 DEF GoesOn
  <2> QED BY <1>3, <2>1 DEF ChildrenAreWithinReach
<1>5. StoppedIsGone' /\ LaunchIsKnown' /\ RunLeavesNoChild'
  BY <1>3 DEF StoppedIsGone, LaunchIsKnown, RunLeavesNoChild
<1>6. \A i \in Indexes : Completed(i)' <=> Completed(i)
  BY DEF Completed
<1>7. run.cur \in Nat /\ run.cur + 1 \in Nat
  BY <1>2, StepTypes
<1>8. CASE run.ret = "reconcile"
  <2>1. /\ run'.pc = "reconcile" /\ run'.why = "none" /\ run'.cur = run.cur + 1
        /\ disk'.terminal = "none"
    BY <1>1, <1>2, <1>8 DEF Returns
  <2>2. Control' /\ Place' /\ SuccessIsEarned'
    BY <1>3, <2>1 DEF Control, Place, SuccessIsEarned, Launching, Reconciling, Stepping
  <2>3. Reconciling' /\ ~Stepping'
    BY <2>1 DEF Reconciling, Stepping, Launching
  <2>4. \A i \in Indexes : IsTracking(i)' => Completed(i) /\ i < run.cur + 1
    <3>1. \A i \in Indexes : IsTracking(i) => Completed(i) /\ (i < run.cur \/ i = run.cur)
      BY <1>2, <1>8 DEF RunInvariant, TracksCompleted
    <3> QED BY <1>2, <1>7, <1>8, <3>1, StepTypes
  <2>5. TracksCompleted'
    BY <1>6, <2>1, <2>3, <2>4 DEF TracksCompleted
  <2>6. \A i \in Indexes : Supervised(i) /\ Completed(i) /\ i < run.cur + 1 => Serves(i)'
    <3>1. \A i \in Indexes : Supervised(i) /\ Completed(i) /\ i < run.cur => Serves(i)
      BY <1>2, <1>8 DEF RunInvariant, ServicesAreThere
    <3>2. \A i \in Indexes : i < run.cur + 1 => i = run.cur \/ (i < run.cur /\ i # run.cur)
      BY <1>7, StepTypes
    <3> QED BY <1>8, <3>1, <3>2
  <2>7. ServicesAreThere'
    BY <1>6, <2>1, <2>3, <2>6 DEF ServicesAreThere, Supervised
  <2> QED BY <1>1, <1>4, <1>5, <2>2, <2>5, <2>7 DEF RunInvariant
<1>9. CASE Returns("succeed") /\ run.ret \in {"main", "started"}
  <2>1. /\ run'.pc = "succeed" /\ run'.why = "none" /\ disk'.terminal = "none"
        /\ disk'.step.phase = "started"
    BY <1>1, <1>2, <1>9 DEF Returns
  <2>2. Control' /\ SuccessIsEarned'
    BY <1>3, <2>1 DEF Control, SuccessIsEarned, Launching, Reconciling, Stepping
  <2>3. Place'
    BY <1>2, <1>9, <2>1 DEF Place, Foreground, Supervised, Launching
  <2>4. ~Reconciling' /\ Stepping'
    BY <2>1 DEF Reconciling, Stepping, Launching
  <2>5. TracksCompleted'
    <3>1. \A i \in Indexes : IsTracking(i) => Completed(i) \/ i = disk.step.index
      BY <1>2, <1>9 DEF RunInvariant, TracksCompleted
    <3> QED BY <1>2, <1>6, <1>9, <2>1, <2>4, <3>1 DEF TracksCompleted
  <2>6. \A i \in Indexes : Supervised(i) /\ Completed(i) => Serves(i)'
    BY <1>2, <1>9 DEF RunInvariant, ServicesAreThere
  <2>7. ServicesAreThere'
    BY <1>2, <1>6, <1>9, <2>4, <2>6 DEF ServicesAreThere, Supervised
  <2> QED BY <1>1, <1>4, <1>5, <2>2, <2>3, <2>5, <2>7 DEF RunInvariant
<1>10. CASE Stops("throw") /\ run.ret = "main"
  <2>1. SuccessIsEarned'
    BY <1>10 DEF Stops, SuccessIsEarned
  <2>2. run.pc # "off"
    OBVIOUS
  <2> QED BY <1>1, <1>4, <1>10, <2>1, <2>2, StoppingKeeps
<1>11. CASE run.ret = "stop"
  <2>1. run'.pc = "stop" /\ run'.why = run.why /\ run'.ret = "stop"
    BY <1>1, <1>11 DEF GoesOn, Returns
  <2>2. SuccessIsEarned'
    BY <2>1 DEF SuccessIsEarned, RunInvariant, Supervised
  <2>3. Control' /\ Place' /\ TracksCompleted' /\ ServicesAreThere'
    BY <1>2, <1>3, <1>11, <2>1 DEF Control, Place, TracksCompleted, ServicesAreThere,
       Launching, Reconciling, Stepping
  <2> QED BY <1>1, <1>4, <1>5, <2>2, <2>3 DEF RunInvariant
<1> QED BY <1>1, <1>2, <1>8, <1>9, <1>10, <1>11

LEMMA OnFailedKeeps ==
  ASSUME TypeOK, RunInvariant, CheckpointInvariant', run.pc \in {"spawn", "register", "window"},
         NEW tr \in Seq(TrackedProcess), disk' \in Document,
         run' = OnFailed([run EXCEPT !.tracked = tr], disk'),
         disk'.step = disk.step, disk'.terminal = disk.terminal,
         ran' = ran, children' \subseteq children,
         TracksOnce', NoticedAreGone',
         \A j : IsTracking(j)' <=> IsTracking(j) /\ j # run.cur,
         \A j \in Indexes : Serves(j) /\ j # run.cur => Serves(j)',
         \A child \in children' : child.known /\ IsTracking(child.step) =>
           IsTracking(child.step)' /\ Tracks(child.step, child.identity)',
         \A i \in Indexes : disk.processes[i].accepted => disk'.processes[i].accepted
  PROVE  RunInvariant' /\ run' \in Runs
<1>1. /\ run' \in Runs /\ run'.tracked = tr /\ run'.outcome = run.outcome
      /\ run.ret = "reconcile" => Stops("fail") /\ run'.held = disk'.processes
      /\ run.ret = "started" => Returns("record") /\ run'.held = run.held
      /\ run.ret = "main" => IF canceled THEN Stops("throw") /\ run'.held = run.held
                             ELSE Returns("record") /\ run'.held = disk'.processes
      /\ run.ret = "stop" => GoesOn
  BY AtLaunch, OnFailedFields DEF Launching
<1>2. /\ run \in Runs /\ run.cur \in Indexes /\ run.outcome = "running"
      /\ run.ret \in {"main", "started", "reconcile", "stop"}
      /\ run.ret # "stop" => run.why = "none" /\ disk.terminal = "none" /\ Supervised(run.cur)
      /\ run.ret = "stop" => run.why # "none" /\ run.pc = "window"
      /\ disk.terminal # "none" => run.why = "throw"
      /\ run.ret \in {"main", "started"} =>
           /\ run.cur = disk.step.index /\ disk.step.phase = "started"
           /\ Stepping /\ ~Completed(run.cur)
  BY AtLaunch DEF Launching
<1>3. run'.pc \in {"record", "stop"} /\ run'.outcome = "running"
  BY <1>1, <1>2 DEF Returns, Stops, GoesOn
<1>4. ChildrenAreWithinReach'
  <2>1. ASSUME NEW child \in children', child.known
        PROVE  /\ IsTracking(child.step)' => Tracks(child.step, child.identity)'
               /\ ~IsTracking(child.step)' => HeldAs(child)'
    <3>1. child \in children /\ child.step \in Indexes
      BY DEF TypeOK, Child
    <3>2. IsTracking(child.step)' => Tracks(child.step, child.identity)'
      BY <2>1
    <3>3. ASSUME ~IsTracking(child.step)'
          PROVE  HeldAs(child)'
      <4>1. ~IsTracking(child.step)
        BY <2>1, <3>3
      <4>2. HeldAs(child)
        BY <2>1, <3>1, <4>1 DEF RunInvariant, ChildrenAreWithinReach
      <4>3. CASE run'.held = disk'.processes
        BY <2>1, <4>3 DEF CheckpointInvariant, LiveChildIsRecorded, HeldAs
      <4>4. CASE run'.held[child.step] = run.held[child.step]
        BY <4>2, <4>4 DEF HeldAs
      <4>5. run.ret = "stop" => child.step # run.cur
        BY <1>2, <4>1 DEF RunInvariant, LaunchIsKnown
      <4> QED BY <1>1, <1>2, <3>1, <4>3, <4>4, <4>5 DEF GoesOn
    <3> QED BY <3>2, <3>3
  <2> QED BY <1>3, <2>1 DEF ChildrenAreWithinReach
<1>5. StoppedIsGone' /\ LaunchIsKnown' /\ RunLeavesNoChild'
  BY <1>3 DEF StoppedIsGone, LaunchIsKnown, RunLeavesNoChild
<1>6. \A i \in Indexes : Completed(i)' <=> Completed(i)
  BY DEF Completed
<1>7. CASE Stops("fail") /\ run.ret = "reconcile"
  <2>1. SuccessIsEarned'
    BY <1>7 DEF Stops, SuccessIsEarned
  <2>2. run.pc # "off"
    OBVIOUS
  <2> QED BY <1>1, <1>2, <1>4, <1>7, <2>1, <2>2, StoppingKeeps
<1>8. CASE Returns("record") /\ run.ret \in {"main", "started"}
  <2>1. /\ run'.pc = "record" /\ run'.why = "none" /\ disk'.terminal = "none"
        /\ disk'.step.phase = "started"
    BY <1>1, <1>2, <1>8 DEF Returns
  <2>2. Control' /\ Place' /\ SuccessIsEarned'
    BY <1>3, <2>1 DEF Control, Place, SuccessIsEarned, Launching, Reconciling, Stepping
  <2>3. ~Reconciling' /\ Stepping'
    BY <2>1 DEF Reconciling, Stepping, Launching
  <2>4. TracksCompleted'
    <3>1. \A i \in Indexes : IsTracking(i) => Completed(i) \/ i = disk.step.index
      BY <1>2, <1>8 DEF RunInvariant, TracksCompleted
    <3> QED BY <1>2, <1>6, <1>8, <2>3, <3>1 DEF TracksCompleted
  <2>5. \A i \in Indexes : Supervised(i) /\ Completed(i) => Serves(i)'
    BY <1>2, <1>8 DEF RunInvariant, ServicesAreThere
  <2>6. ServicesAreThere'
    BY <1>6, <2>1, <2>3, <2>5 DEF ServicesAreThere, Supervised
  <2> QED BY <1>1, <1>4, <1>5, <2>2, <2>4, <2>6 DEF RunInvariant
<1>9. CASE Stops("throw") /\ run.ret = "main"
  <2>1. SuccessIsEarned'
    BY <1>9 DEF Stops, SuccessIsEarned
  <2>2. run.pc # "off"
    OBVIOUS
  <2> QED BY <1>1, <1>4, <1>9, <2>1, <2>2, StoppingKeeps
<1>10. CASE run.ret = "stop"
  <2>1. run'.pc = "stop" /\ run'.why = run.why /\ run'.ret = "stop"
    BY <1>1, <1>10 DEF GoesOn, Returns
  <2>2. SuccessIsEarned'
    BY <2>1 DEF SuccessIsEarned, RunInvariant, Supervised
  <2>3. Control' /\ Place' /\ TracksCompleted' /\ ServicesAreThere'
    BY <1>2, <1>3, <1>10, <2>1 DEF Control, Place, TracksCompleted, ServicesAreThere,
       Launching, Reconciling, Stepping
  <2> QED BY <1>1, <1>4, <1>5, <2>2, <2>3 DEF RunInvariant
<1> QED BY <1>1, <1>2, <1>7, <1>8, <1>9, <1>10

(* A fire-and-forget step that is being launched has no tracked process;   *)
(* one whose process is watched has.                                       *)
LEMMA LaunchedAreUntracked ==
  ASSUME TypeOK, RunInvariant, run.pc \in {"spawn", "register"}
  PROVE  ~IsTracking(run.cur)
<1>1. /\ run.cur \in Indexes
      /\ run.ret \in {"main", "started", "reconcile"}
      /\ run.ret = "reconcile" => Reconciling
      /\ run.ret \in {"main", "started"} => Stepping /\ ~Completed(run.cur)
  BY AtLaunch DEF Launching
<1>2. run.ret = "reconcile" => ~IsTracking(run.cur)
  BY <1>1, StepTypes DEF RunInvariant, TracksCompleted
<1>3. run.ret \in {"main", "started"} => ~IsTracking(run.cur)
  BY <1>1 DEF RunInvariant, TracksCompleted
<1> QED BY <1>1, <1>2, <1>3

(* The command could not be started, or the process was killed again.      *)
LEMMA NotLaunchedKeeps ==
  ASSUME TypeOK, RunInvariant, CheckpointInvariant', run.pc \in {"spawn", "register"},
         run' = OnFailed(run, disk), disk' = disk, ran' = ran, children' \subseteq children
  PROVE  RunInvariant' /\ run' \in Runs
<1>1. run \in Runs /\ run.cur \in Indexes /\ disk \in Document /\ ~IsTracking(run.cur)
  BY AtLaunch, LaunchedAreUntracked DEF Launching, TypeOK
<1>2. [run EXCEPT !.tracked = run.tracked] = run /\ run.tracked \in Seq(TrackedProcess)
  BY <1>1 DEF Runs
<1>3. run'.tracked = run.tracked
  BY <1>1, <1>2, OnFailedFields
<1>4. /\ TracksOnce' /\ NoticedAreGone'
      /\ \A j : IsTracking(j)' <=> IsTracking(j) /\ j # run.cur
      /\ \A j : Serves(j)' <=> Serves(j)
  BY <1>1, <1>3, SameServices DEF RunInvariant, TracksOnce, NoticedAreGone, Matches
<1>5. \A child \in children' : child.known /\ IsTracking(child.step) =>
        IsTracking(child.step)' /\ Tracks(child.step, child.identity)'
  BY <1>3 DEF RunInvariant, ChildrenAreWithinReach, IsTracking, Tracks
<1> DEFINE tr == run.tracked
<1> HIDE DEF tr
<1>6. tr \in Seq(TrackedProcess) /\ run' = OnFailed([run EXCEPT !.tracked = tr], disk')
  BY <1>2 DEF tr
<1> QED BY <1>1, <1>4, <1>5, <1>6, OnFailedKeeps

(* An exception is no launch.                                              *)
LEMMA ThrownElsewhere ==
  ASSUME run \in Runs, run' = Thrown PROVE run'.pc \in {"off", "stop"}
<1>1. Ended("error").pc = "off"
  BY EndedFields
<1>2. StopAll("throw").pc = "stop"
  BY DEF StopAll, Runs
<1> QED BY <1>1, <1>2 DEF Thrown

LEMMA SpawnPreserves == ASSUME EngineInvariant, Spawn PROVE EngineInvariant'
<1> USE DEF EngineInvariant
<1>1. /\ run.pc = "spawn" /\ run \in Runs /\ disk \in Document
      /\ disk' = disk /\ ran' = ran /\ boot' = boot /\ canceled' = canceled /\ budget' = budget
  BY DEF Spawn, TypeOK
<1>2. /\ run.cur \in Indexes /\ run.outcome = "running" /\ run.why = "none"
      /\ run.ret \in {"main", "started", "reconcile"}
      /\ disk.terminal = "none" /\ ~IsTracking(run.cur)
  BY <1>1, AtLaunch, LaunchedAreUntracked DEF Launching
<1>3. CASE run' = OnFailed(run, disk) /\ children' = children
  <2>1. CheckpointInvariant'
    BY <1>1, <1>3, SameCheckpointKeeps
  <2>2. RunInvariant' /\ run' \in Runs
    BY <1>1, <1>3, <2>1, NotLaunchedKeeps
  <2>3. TypeOK'
    BY <1>1, <1>3, <2>2, TypesKept DEF TypeOK
  <2> QED BY <2>1, <2>2, <2>3
<1>4. CASE /\ FreshIdentities # {}
           /\ run' = [Goto("register") EXCEPT !.child = FreshIdentity]
           /\ children' = children \cup {[step |-> run.cur, identity |-> FreshIdentity,
                                          known |-> FALSE]}
  <2> DEFINE fresh == FreshIdentity
             child == [step |-> run.cur, identity |-> fresh, known |-> FALSE]
  <2>1. /\ fresh \in [pid : Pids, boot : {boot}]
        /\ \A c \in children : c.identity # fresh
        /\ \A k \in DOMAIN run.tracked : run.tracked[k].identity # fresh
    BY <1>4 DEF FreshIdentity, FreshIdentities
  <2>2. fresh \in Identity
    BY <2>1 DEF TypeOK, Identity
  <2> HIDE DEF fresh
  <2>3. /\ child \in Child /\ ~child.known /\ child.step = run.cur /\ child.identity = fresh
    BY <1>2, <2>2 DEF Child
  <2> HIDE DEF child
  <2>4. run' = [run EXCEPT !.pc = "register", !.child = fresh]
    BY <1>4 DEF Goto, fresh
  <2>5. /\ run' \in Runs /\ run'.pc = "register" /\ run'.child = fresh
        /\ run'.cur = run.cur /\ run'.ret = run.ret /\ run'.why = run.why
        /\ run'.tracked = run.tracked /\ run'.held = run.held /\ run'.outcome = run.outcome
    BY <1>1, <2>2, <2>4, ProgramFacts DEF Runs
  <2>6. children' = children \cup {child}
    BY <1>4 DEF child, fresh
  <2>7. TypeOK'
    BY <1>1, <2>3, <2>5, <2>6 DEF TypeOK
  <2>8. CheckpointInvariant'
    BY <1>1, <2>3, <2>6, SameCheckpointKeeps
  <2>9. /\ \A i : Serves(i)' <=> Serves(i)
        /\ \A i : IsTracking(i)' <=> IsTracking(i)
        /\ \A i, id : Tracks(i, id)' <=> Tracks(i, id)
    BY <1>1, <2>5, SameServices DEF Tracks
  <2>10. /\ Reconciling' <=> Reconciling
         /\ Stepping' <=> Stepping
    BY <1>1, <2>5 DEF Reconciling, Stepping, Launching
  <2>11. Control' /\ SuccessIsEarned' /\ StoppedIsGone' /\ RunLeavesNoChild'
    BY <1>1, <1>2, <2>5, <2>10
       DEF RunInvariant, Control, SuccessIsEarned, StoppedIsGone, RunLeavesNoChild, Launching
  <2>12. Place'
    BY <1>1, <2>5, <2>10 DEF RunInvariant, Place, Launching, Supervised, Completed
  <2>13. TracksOnce' /\ NoticedAreGone'
    BY <2>1, <2>3, <2>5, <2>6 DEF RunInvariant, TracksOnce, NoticedAreGone, Matches
  <2>14. LaunchIsKnown'
    BY <2>1, <2>3, <2>5, <2>6 DEF LaunchIsKnown
  <2>15. TracksCompleted'
    BY <1>1, <2>5, <2>9, <2>10 DEF RunInvariant, TracksCompleted, Completed
  <2>16. ServicesAreThere'
    BY <1>1, <2>5, <2>9, <2>10 DEF RunInvariant, ServicesAreThere, Completed, Supervised
  <2>17. ChildrenAreWithinReach'
    BY <1>1, <2>3, <2>5, <2>6, <2>9 DEF RunInvariant, ChildrenAreWithinReach, HeldAs
  <2> QED BY <2>7, <2>8, <2>11, <2>12, <2>13, <2>14, <2>15, <2>16, <2>17 DEF RunInvariant
<1> QED BY <1>3, <1>4 DEF Spawn

(* A process that is to be taken back is gone.                             *)
LEMMA OnMissingKeeps ==
  ASSUME TypeOK, RunInvariant, CheckpointInvariant', run.pc = "resume",
         disk' \in Document, disk'.step = disk.step, disk.terminal = "none", disk'.terminal = "none",
         NEW process, run' = OnMissing(process, disk'),
         ran' = ran, children' = children,
         \A child \in children : child.known => child.step # run.cur,
         \A j \in Indexes \ {run.cur} : disk'.processes[j] = disk.processes[j],
         \A i \in Indexes : disk.processes[i].accepted => disk'.processes[i].accepted
  PROVE  RunInvariant' /\ run' \in Runs
<1>1. /\ run \in Runs /\ run.cur \in Indexes /\ run.outcome = "running"
      /\ run.ret \in {"main", "started", "reconcile", "stop"}
      /\ run.ret # "stop" => run.why = "none" /\ Supervised(run.cur)
      /\ run.ret = "stop" => run.why # "none"
      /\ run.ret = "reconcile" => Completed(run.cur) /\ Reconciling
      /\ run.ret \in {"main", "started"} =>
           /\ run.cur = disk.step.index /\ disk.step.phase = "started"
           /\ Stepping /\ ~Completed(run.cur)
  BY AtLaunch DEF Launching
<1>2. run.ret # "main" /\ ~IsTracking(run.cur)
  BY DEF RunInvariant, Control, LaunchIsKnown
<1>3. \A i \in Indexes : Completed(i)' <=> Completed(i)
  BY DEF Completed
<1>4. ASSUME run'.tracked = run.tracked
      PROVE  /\ \A i \in Indexes : Serves(i) /\ i # run.cur => Serves(i)'
             /\ \A i : IsTracking(i)' <=> IsTracking(i)
  BY <1>4 DEF Serves, Tracks, IsTracking
<1>5. CASE run' = Holding(StopAll("fail"), disk')
  BY <1>5, FailingKeeps
<1>6. CASE run.ret = "reconcile" /\ run' = Goto("spawn")
  <2>1. ChangesOnly({"pc"}) /\ run'.pc = "spawn"
    BY <1>1, <1>6, GotoFields, ProgramFacts
  <2>2. /\ run' \in Runs /\ run'.cur = run.cur /\ run'.ret = "reconcile" /\ run'.why = "none"
        /\ run'.tracked = run.tracked /\ run'.held = run.held /\ run'.outcome = "running"
    BY <1>1, <1>6, <2>1 DEF ChangesOnly, Fields
  <2>3. /\ TracksOnce' /\ NoticedAreGone' /\ StoppedIsGone'
        /\ ChildrenAreWithinReach' /\ RunLeavesNoChild'
    BY <2>1, <2>2, CarriesOn
  <2>4. Reconciling' /\ ~Stepping'
    BY <2>1, <2>2 DEF Reconciling, Stepping, Launching
  <2>5. Control' /\ SuccessIsEarned' /\ LaunchIsKnown'
    BY <2>1, <2>2 DEF Control, SuccessIsEarned, LaunchIsKnown, Launching, Reconciling, Stepping
  <2>6. Place'
    BY <1>1, <1>3, <1>6, <2>1, <2>2, <2>4 DEF Place, Supervised
  <2>7. TracksCompleted'
    BY <1>1, <1>3, <1>4, <1>6, <2>1, <2>2, <2>4 DEF RunInvariant, TracksCompleted
  <2>8. \A i \in Indexes : i < run.cur => i # run.cur
    BY <1>1, StepTypes
  <2>9. ServicesAreThere'
    BY <1>1, <1>3, <1>4, <1>6, <2>1, <2>2, <2>4, <2>8
       DEF RunInvariant, ServicesAreThere, Supervised
  <2> QED BY <2>2, <2>3, <2>5, <2>6, <2>7, <2>9 DEF RunInvariant
<1>7. CASE run.ret = "started" /\ run' = Goto("record")
  <2>1. ChangesOnly({"pc"}) /\ run'.pc = "record"
    BY <1>1, <1>7, GotoFields, ProgramFacts
  <2>2. /\ run' \in Runs /\ run'.why = "none"
        /\ run'.tracked = run.tracked /\ run'.held = run.held /\ run'.outcome = "running"
    BY <1>1, <1>7, <2>1 DEF ChangesOnly, Fields
  <2>3. /\ TracksOnce' /\ NoticedAreGone' /\ StoppedIsGone'
        /\ ChildrenAreWithinReach' /\ RunLeavesNoChild'
    BY <2>1, <2>2, CarriesOn
  <2>4. ~Reconciling' /\ Stepping'
    BY <2>1 DEF Reconciling, Stepping, Launching
  <2>5. Control' /\ SuccessIsEarned' /\ LaunchIsKnown' /\ Place'
    BY <1>1, <1>7, <2>1, <2>2
       DEF Control, Place, SuccessIsEarned, LaunchIsKnown, Launching, Reconciling, Stepping
  <2>6. TracksCompleted'
    BY <1>1, <1>3, <1>4, <1>7, <2>2, <2>4 DEF RunInvariant, TracksCompleted
  <2>7. ServicesAreThere'
    BY <1>1, <1>3, <1>4, <1>7, <2>1, <2>2, <2>4
       DEF RunInvariant, ServicesAreThere, Supervised
  <2> QED BY <2>2, <2>3, <2>5, <2>6, <2>7 DEF RunInvariant
<1>8. CASE run.ret = "stop" /\ run' = Handled(run, run.cur)
  <2> DEFINE handled == Handled(run, run.cur)
  <2>1. /\ handled \in Runs /\ handled.pc = "stop" /\ handled.ret = run.ret
        /\ handled.why = run.why /\ handled.tracked = run.tracked
        /\ handled.outcome = run.outcome
        /\ \A j \in Indexes \ {run.cur} : handled.held[j] = run.held[j]
    BY <1>1, HandledFields
  <2> HIDE DEF handled
  <2>2. /\ run' \in Runs /\ run'.pc = "stop" /\ run'.ret = "stop" /\ run'.why = run.why
        /\ run'.tracked = run.tracked /\ run'.outcome = "running"
        /\ \A j \in Indexes \ {run.cur} : run'.held[j] = run.held[j]
    BY <1>1, <1>8, <2>1 DEF handled
  <2>3. TracksOnce' /\ NoticedAreGone'
    BY <2>2 DEF RunInvariant, TracksOnce, NoticedAreGone, Matches
  <2>4. ASSUME NEW child \in children, child.known
        PROVE  /\ IsTracking(child.step)' => Tracks(child.step, child.identity)'
               /\ ~IsTracking(child.step)' => HeldAs(child)'
    <3>1. child.step \in Indexes \ {run.cur}
      BY <2>4 DEF TypeOK, Child
    <3>2. /\ IsTracking(child.step) => Tracks(child.step, child.identity)
          /\ ~IsTracking(child.step) => HeldAs(child)
      BY <2>4 DEF RunInvariant, ChildrenAreWithinReach
    <3>3. HeldAs(child) => HeldAs(child)'
      BY <2>2, <3>1 DEF HeldAs
    <3> QED BY <2>2, <3>2, <3>3 DEF IsTracking, Tracks
  <2>5. ChildrenAreWithinReach'
    BY <2>2, <2>4 DEF ChildrenAreWithinReach
  <2>6. SuccessIsEarned'
    BY <2>2 DEF SuccessIsEarned, RunInvariant, Supervised
  <2>7. /\ Control' /\ Place' /\ TracksCompleted' /\ ServicesAreThere'
        /\ StoppedIsGone' /\ LaunchIsKnown' /\ RunLeavesNoChild'
    BY <1>1, <1>8, <2>2 DEF Control, Place, TracksCompleted, ServicesAreThere,
       StoppedIsGone, LaunchIsKnown, RunLeavesNoChild, Launching, Reconciling, Stepping
  <2> QED BY <2>2, <2>3, <2>5, <2>6, <2>7 DEF RunInvariant
<1> QED BY <1>1, <1>2, <1>5, <1>6, <1>7, <1>8 DEF OnMissing

(* The process is watched, be it launched or taken back.                   *)
LEMMA WatchingKeeps ==
  ASSUME TypeOK, RunInvariant, run.pc \in {"resume", "register"},
         run' \in Runs, run'.pc = "window", run'.outcome = run.outcome,
         run'.cur = run.cur, run'.ret = run.ret, run'.why = run.why, run'.held = run.held,
         disk'.step = disk.step, disk'.terminal = disk.terminal, ran' = ran,
         TracksOnce', NoticedAreGone', ChildrenAreWithinReach',
         \A j : IsTracking(j)' <=> IsTracking(j) \/ j = run.cur,
         \A j \in Indexes : Serves(j) /\ j # run.cur => Serves(j)',
         run.why = "succeed" =>
           \A i \in Indexes : disk.processes[i].accepted => disk'.processes[i].accepted
  PROVE  RunInvariant'
<1>1. /\ run.outcome = "running" /\ run.cur \in Indexes
      /\ run.ret \in {"main", "started", "reconcile", "stop"}
      /\ run.ret = "reconcile" => Completed(run.cur) /\ Reconciling
      /\ run.ret \in {"main", "started"} =>
           /\ run.cur = disk.step.index /\ disk.step.phase = "started"
           /\ Stepping /\ ~Completed(run.cur)
  BY AtLaunch DEF Launching
<1>2. (Reconciling' <=> Reconciling) /\ (Stepping' <=> Stepping)
  BY DEF Reconciling, Stepping, Launching
<1>3. \A i : Completed(i)' <=> Completed(i)
  BY DEF Completed
<1>4. SuccessIsEarned' /\ StoppedIsGone' /\ RunLeavesNoChild'
  BY <1>1 DEF RunInvariant, SuccessIsEarned, StoppedIsGone, RunLeavesNoChild, Supervised
<1>5. Control'
  BY <1>1, <1>2 DEF RunInvariant, Control, Launching
<1>6. Place'
  BY <1>2, <1>3 DEF RunInvariant, Place, Launching, Supervised
<1>7. LaunchIsKnown'
  <2>1. \A j : j = run.cur => IsTracking(j)'
    OBVIOUS
  <2> QED BY <2>1 DEF LaunchIsKnown
<1>8. Reconciling => run.ret = "reconcile"
  BY DEF Reconciling, Launching
<1>9. Stepping => run.ret \in {"main", "started"}
  BY DEF Stepping, Launching
<1>10. TracksCompleted'
  BY <1>1, <1>2, <1>3, <1>8, <1>9 DEF RunInvariant, TracksCompleted
<1>11. \A i \in Indexes : i < run.cur => i # run.cur
  BY <1>1, StepTypes
<1>12. ServicesAreThere'
  BY <1>1, <1>2, <1>3, <1>8, <1>9, <1>11 DEF RunInvariant, ServicesAreThere, Supervised
<1> QED BY <1>4, <1>5, <1>6, <1>7, <1>10, <1>12 DEF RunInvariant

LEMMA ResumePreserves == ASSUME EngineInvariant, Resume PROVE EngineInvariant'
<1> USE DEF EngineInvariant
<1> DEFINE process == Given(run.cur)
           missing == [step |-> run.cur, identity |-> process.identity]
           t == [step |-> run.cur, identity |-> process.identity, own |-> FALSE, result |-> FALSE]
<1>1. /\ run.pc = "resume" /\ disk \in Document
      /\ children' = children /\ ran' = ran /\ boot' = boot /\ canceled' = canceled
  BY DEF Resume, TypeOK
<1>2. /\ run \in Runs /\ run.cur \in Indexes /\ run.outcome = "running"
      /\ run.ret # "stop" => run.why = "none"
      /\ ~IsTracking(run.cur)
  BY <1>1, AtLaunch DEF Launching, RunInvariant, LaunchIsKnown
<1>3. /\ process \in Process
      /\ process = disk.processes[run.cur] \/ process = run.held[run.cur]
      /\ run.why = "none" => process = disk.processes[run.cur]
  BY <1>1, <1>2, StepTypes DEF Given, Runs
<1> HIDE DEF process
<1>4. ASSUME FinishProcess(missing, "reconciled-missing", "unknown",
               OnMissing(process, Finished(missing, "reconciled-missing", "unknown"))),
             ~Matches(process.identity)
      PROVE  EngineInvariant'
  <2>1. missing.step = run.cur /\ missing.identity = process.identity
    OBVIOUS
  <2> HIDE DEF missing
  <2> DEFINE generation == disk.processes[run.cur].generation
             document == FinishResult(disk, run.cur, "reconciled-missing", "unknown")
  <2>2. Store(FinishAllowed(disk, run.cur, generation, process.identity,
                            "reconciled-missing", "unknown"),
              document, OnMissing(process, document))
    BY <1>4, <2>1 DEF FinishProcess, Finished
  <2>3. /\ budget' \in 0 .. MaxDisturbances - boot
        /\ \/ disk' = disk /\ run' = Thrown
           \/ /\ FinishAllowed(disk, run.cur, generation, process.identity,
                               "reconciled-missing", "unknown")
              /\ disk' = document /\ (run' = OnMissing(process, disk') \/ run' = Thrown)
    BY <2>2, StoreCases
  <2>4. CASE disk' = disk /\ run' = Thrown
    BY <1>1, <2>3, <2>4, SameCheckpointKeeps, ThrownKeeps, TypesKept DEF TypeOK
  <2>5. CASE /\ FinishAllowed(disk, run.cur, generation, process.identity,
                               "reconciled-missing", "unknown")
             /\ disk' = document /\ (run' = OnMissing(process, disk') \/ run' = Thrown)
    <3>1. "reconciled-missing" \in Outcomes
      BY DEF Outcomes
    <3>2. CheckpointInvariant'
      BY <1>1, <1>2, <1>4, <2>5, <3>1, FinishKeeps
    <3>3. /\ Rerecords(run.cur) /\ disk.processes[run.cur].identity = process.identity
          /\ disk'.processes[run.cur].accepted = disk.processes[run.cur].accepted
      BY <1>2, <2>5, <3>1, FinishFacts
    <3>4. \A child \in children : child.known => child.step # run.cur
      BY <1>4, <3>3 DEF CheckpointInvariant, LiveChildIsRecorded, Matches
    <3>5. RunInvariant' /\ run' \in Runs
      <4>1. CASE run' = Thrown
        BY <1>1, <4>1, ThrownKeeps
      <4>2. CASE run' = OnMissing(process, disk')
        <5>1. \A i \in Indexes : disk.processes[i].accepted => disk'.processes[i].accepted
          BY <3>3 DEF Rerecords
        <5> QED BY <1>1, <3>2, <3>3, <3>4, <4>2, <5>1, OnMissingKeeps DEF Rerecords
      <4> QED BY <2>5, <4>1, <4>2
    <3>6. TypeOK'
      BY <1>1, <2>3, <3>3, <3>5, TypesKept DEF TypeOK, Rerecords
    <3> QED BY <3>2, <3>5, <3>6
  <2> QED BY <2>3, <2>4, <2>5
<1>5. ASSUME run' = IF process.phase = "accepted" THEN OnAccepted(Track(run, run.cur, process.identity, FALSE), disk)
                    ELSE [Track(run, run.cur, process.identity, FALSE) EXCEPT !.pc = "window"],
             disk' = disk, budget' = budget
      PROVE  EngineInvariant'
  <2> DEFINE tr == Append(run.tracked, t)
             adopted == [run EXCEPT !.tracked = tr]
  <2>1. /\ t \in TrackedProcess /\ t.step = run.cur /\ t.identity = process.identity /\ ~t.result
    BY <1>2, <1>3 DEF TrackedProcess, Process, Identity, NoChild
  <2> HIDE DEF t
  <2>2. tr \in Seq(TrackedProcess) /\ run.tracked \in Seq(TrackedProcess)
    BY <1>2, <2>1 DEF Runs
  <2>3. Track(run, run.cur, process.identity, FALSE) = adopted
    BY <1>2 DEF Track, Runs, t
  <2> HIDE DEF tr
  <2>4. run'.tracked = tr
    <3>1. CASE run' = OnAccepted(adopted, disk)
      BY <1>1, <1>2, <2>2, <3>1, OnAcceptedFields
    <3>2. CASE run' = [adopted EXCEPT !.pc = "window"]
      BY <1>2, <2>2, <3>2 DEF Runs
    <3> QED BY <1>5, <2>3, <3>1, <3>2
  <2>5. /\ TracksOnce' /\ NoticedAreGone'
        /\ \A j : IsTracking(j)' <=> IsTracking(j) \/ j = run.cur
        /\ \A j, id : Tracks(j, id)' <=> Tracks(j, id) \/ (j = run.cur /\ id = process.identity)
    <3>1. run'.tracked = Append(run.tracked, t)
      BY <2>4 DEF tr
    <3>2. \A id : Matches(id)' => Matches(id)
      BY <1>1 DEF Matches
    <3> QED BY <1>1, <1>2, <2>1, <3>1, <3>2, Grown DEF RunInvariant
  <2>6. CheckpointInvariant'
    BY <1>1, <1>5, SameCheckpointKeeps
  <2>7. \A j \in Indexes : Serves(j) => Serves(j)'
    BY <1>5, <2>5 DEF Serves
  <2>8. ASSUME NEW child \in children, child.known
        PROVE  /\ IsTracking(child.step)' => Tracks(child.step, child.identity)'
               /\ ~IsTracking(child.step)' => ~IsTracking(child.step) /\ HeldAs(child)
    <3>1. /\ IsTracking(child.step) => Tracks(child.step, child.identity)
          /\ ~IsTracking(child.step) => HeldAs(child)
      BY <1>1, <2>8 DEF RunInvariant, ChildrenAreWithinReach
    <3>2. disk.processes[child.step].identity = child.identity
      BY <2>8 DEF CheckpointInvariant, LiveChildIsRecorded
    <3>3. child.step = run.cur => child.identity = process.identity
      BY <1>2, <1>3, <3>1, <3>2 DEF HeldAs
    <3> QED BY <2>5, <3>1, <3>3
  <2>9. run' \in Runs /\ RunInvariant'
    <3>1. CASE process.phase = "accepted" /\ run' = OnAccepted(adopted, disk')
      <4>1. \A j \in Indexes : j = run.cur /\ run.ret # "stop" => Serves(j)'
        BY <1>2, <1>3, <1>5, <2>5, <3>1 DEF Serves
      <4>2. \A child \in children' : child.known =>
              (IsTracking(child.step)' => Tracks(child.step, child.identity)')
        BY <1>1, <2>8
      <4> QED BY <1>1, <1>5, <2>2, <2>5, <2>6, <2>7, <3>1, <4>1, <4>2, OnAcceptedKeeps
    <3>2. CASE run' = [adopted EXCEPT !.pc = "window"]
      <4>1. /\ run' \in Runs /\ run'.pc = "window" /\ run'.outcome = "running"
            /\ run'.cur = run.cur /\ run'.ret = run.ret /\ run'.why = run.why
            /\ run'.held = run.held
        BY <1>2, <2>2, <3>2, ProgramFacts DEF Runs
      <4>2. ChildrenAreWithinReach'
        BY <1>1, <2>8, <4>1 DEF ChildrenAreWithinReach, HeldAs
      <4>3. disk'.step = disk.step /\ disk'.terminal = disk.terminal /\ disk'.processes = disk.processes
        BY <1>5
      <4>4. RunInvariant'
        BY <1>1, <1>2, <2>5, <2>7, <4>1, <4>2, <4>3, WatchingKeeps
      <4> QED BY <4>1, <4>4
    <3> QED BY <1>5, <2>3, <3>1, <3>2
  <2>10. TypeOK'
    BY <1>1, <1>5, <2>9, TypesKept DEF TypeOK
  <2> QED BY <2>6, <2>9, <2>10
<1> QED BY <1>4, <1>5 DEF Resume, process

LEMMA RegisterPreserves == ASSUME EngineInvariant, Register PROVE EngineInvariant'
<1> USE DEF EngineInvariant
<1> DEFINE i == run.cur
           generation == disk.processes[i].generation + 1
           document == RegisterResult(disk, i, generation, run.child)
           known == {[child EXCEPT !.known = TRUE] :
                       child \in {c \in children : c.identity = run.child}}
           next == Track(Goto("window"), i, run.child, TRUE)
<1>1. /\ run.pc = "register" /\ run \in Runs /\ disk \in Document
      /\ ran' = ran /\ boot' = boot /\ canceled' = canceled
      /\ Without(run.child) \subseteq children
  BY DEF Register, TypeOK, Without
<1>2. /\ run.cur \in Indexes /\ run.outcome = "running" /\ run.why = "none"
      /\ Supervised(run.cur) /\ disk.terminal = "none" /\ ~IsTracking(run.cur)
      /\ disk.step.phase # "none" /\ run.cur <= disk.step.index
      /\ run.child \in Identity /\ disk.processes[run.cur].generation + 1 \in Nat
  <2>1. /\ run.cur \in Indexes /\ run.outcome = "running" /\ run.why = "none"
        /\ run.ret \in {"main", "started", "reconcile"}
        /\ Supervised(run.cur) /\ disk.terminal = "none" /\ ~IsTracking(run.cur)
    BY <1>1, AtLaunch, LaunchedAreUntracked DEF Launching
  <2>2. disk.step.phase # "none" /\ run.cur <= disk.step.index
    <3>1. run.ret \in {"main", "started"} => run.cur = disk.step.index /\ disk.step.phase = "started"
      BY <1>1, AtLaunch DEF Launching
    <3>2. run.ret = "reconcile" => Completed(run.cur)
      BY <1>1, AtLaunch DEF Launching
    <3> QED BY <2>1, <3>1, <3>2, StepTypes DEF Completed
  <2>3. run.child \in Identity /\ disk.processes[run.cur].generation + 1 \in Nat
    BY <1>1, <2>1, StepTypes DEF Runs, Process
  <2> QED BY <2>1, <2>2, <2>3
<1>3. CASE run' = OnFailed(run, disk) /\ children' = Without(run.child) /\ UNCHANGED <<disk, budget>>
  <2>1. CheckpointInvariant'
    BY <1>1, <1>3, SameCheckpointKeeps
  <2>2. RunInvariant' /\ run' \in Runs
    BY <1>1, <1>3, <2>1, NotLaunchedKeeps
  <2>3. TypeOK'
    BY <1>1, <1>3, <2>2, TypesKept DEF TypeOK
  <2> QED BY <2>1, <2>2, <2>3
<1>4. CASE /\ Matches(run.child)
           /\ Store(RegisterAllowed(disk, i, generation), document, next)
           /\ children' = Without(run.child) \cup IF run'.pc = "window" THEN known ELSE {}
  <2> HIDE DEF document, next
  <2>1. /\ budget' \in 0 .. MaxDisturbances - boot
        /\ \/ disk' = disk /\ run' = Thrown
           \/ /\ RegisterAllowed(disk, i, generation)
              /\ disk' = document /\ (run' = next \/ run' = Thrown)
    BY <1>4, StoreCases
  <2>2. CASE run' = Thrown
    <3>1. children' \subseteq children
      BY <1>1, <1>4, <2>2, ThrownElsewhere
    <3>2. CheckpointInvariant' /\ disk' \in Document
      <4>1. CASE disk' = disk
        BY <1>1, <3>1, <4>1, SameCheckpointKeeps
      <4>2. CASE RegisterAllowed(disk, i, generation) /\ disk' = document
        BY <1>1, <1>2, <3>1, <4>2, RegisterFacts, RegisterKeeps DEF document, Rerecords
      <4> QED BY <2>1, <4>1, <4>2
    <3>3. RunInvariant' /\ run' \in Runs
      BY <1>1, <2>2, <3>1, ThrownKeeps
    <3>4. TypeOK'
      BY <1>1, <2>1, <3>1, <3>2, <3>3, TypesKept DEF TypeOK
    <3> QED BY <3>2, <3>3, <3>4
  <2>3. CASE RegisterAllowed(disk, i, generation) /\ disk' = document /\ run' = next
    <3> DEFINE t == [step |-> i, identity |-> run.child, own |-> TRUE, result |-> FALSE]
               tr == Append(run.tracked, t)
    <3>1. /\ t \in TrackedProcess /\ t.step = run.cur /\ t.identity = run.child /\ ~t.result
      BY <1>2 DEF TrackedProcess
    <3> HIDE DEF t
    <3>2. tr \in Seq(TrackedProcess)
      BY <1>1, <3>1 DEF Runs
    <3>3. next = [run EXCEPT !.pc = "window", !.tracked = tr]
      BY <1>1 DEF next, Track, Goto, Runs, t
    <3>4. /\ run' \in Runs /\ run'.pc = "window" /\ run'.outcome = run.outcome
          /\ run'.cur = run.cur /\ run'.ret = run.ret /\ run'.why = run.why
          /\ run'.held = run.held /\ run'.tracked = tr
      <4> HIDE DEF tr
      <4> QED BY <1>1, <2>3, <3>2, <3>3, ProgramFacts DEF Runs
    <3>5. children' = Without(run.child) \cup known
      BY <1>4, <3>4
    <3>6. ASSUME NEW child \in known
          PROVE  /\ child \in Child /\ child.step = run.cur /\ child.identity = run.child
                 /\ Matches(run.child)
      <4>1. PICK c \in children : c.identity = run.child /\ child = [c EXCEPT !.known = TRUE]
        OBVIOUS
      <4>2. c \in Child /\ c.step = run.cur
        BY <1>1, <4>1 DEF TypeOK, RunInvariant, LaunchIsKnown
      <4> QED BY <4>1, <4>2 DEF Child, Matches
    <3>7. \A child \in children' :
            \/ child \in children
            \/ child \in Child /\ child.step = run.cur /\ child.identity = run.child
      BY <1>1, <3>5, <3>6
    <3>8. \A id : Matches(id)' => Matches(id)
      BY <1>4, <3>7 DEF Matches
    <3> HIDE DEF known
    <3>9. /\ TracksOnce' /\ NoticedAreGone'
          /\ \A j : IsTracking(j)' <=> IsTracking(j) \/ j = run.cur
          /\ \A j, id : Tracks(j, id)' <=> Tracks(j, id) \/ (j = run.cur /\ id = run.child)
      <4>1. run'.tracked = Append(run.tracked, t)
        BY <3>4
      <4> QED BY <1>1, <1>2, <3>1, <3>8, <4>1, Grown DEF RunInvariant
    <3>10. /\ Rerecords(run.cur) /\ ~Unfinished(disk.processes[run.cur])
           /\ CheckpointInvariant'
      BY <1>1, <1>2, <2>3, <3>7, RegisterFacts, RegisterKeeps DEF document
    <3>11. ChildrenAreWithinReach'
      <4>1. ASSUME NEW child \in children', child.known
            PROVE  /\ IsTracking(child.step)' => Tracks(child.step, child.identity)'
                   /\ ~IsTracking(child.step)' => HeldAs(child)'
        <5>1. CASE child.step = run.cur /\ child.identity = run.child
          BY <3>9, <5>1
        <5>2. CASE child \in children
          <6>1. child.step # run.cur
            BY <3>10, <4>1, <5>2 DEF CheckpointInvariant, LiveChildIsRecorded
          <6>2. /\ IsTracking(child.step) => Tracks(child.step, child.identity)
                /\ ~IsTracking(child.step) => HeldAs(child)
            BY <1>1, <4>1, <5>2 DEF RunInvariant, ChildrenAreWithinReach
          <6> QED BY <3>4, <3>9, <6>1, <6>2 DEF HeldAs
        <5> QED BY <3>7, <5>1, <5>2
      <4> QED BY <3>4, <4>1 DEF ChildrenAreWithinReach
    <3>12. \A j \in Indexes : Serves(j) /\ j # run.cur => Serves(j)'
      BY <3>9, <3>10 DEF Serves, Rerecords
    <3>13. RunInvariant'
      BY <1>1, <1>2, <3>4, <3>9, <3>10, <3>11, <3>12, WatchingKeeps DEF Rerecords
    <3>14. TypeOK'
      BY <1>1, <2>1, <3>4, <3>7, <3>10 DEF TypeOK, Rerecords
    <3> QED BY <3>10, <3>13, <3>14
  <2> QED BY <2>1, <2>2, <2>3
<1> QED BY <1>3, <1>4 DEF Register

(* A store call that records the end of a process that is gone; either     *)
(* nothing but an exception comes of it, or the runner goes on.            *)
LEMMA FinishingCases ==
  ASSUME TypeOK, CheckpointInvariant, NEW t, t.step \in Indexes, ~Matches(t.identity),
         NEW outcome \in Outcomes, NEW exit \in {"unknown", "status"}, NEW next,
         FinishProcess(t, outcome, exit, next), ran' = ran, children' \subseteq children
  PROVE  /\ budget' \in 0 .. MaxDisturbances - boot
         /\ CheckpointInvariant' /\ disk' \in Document
         /\ disk'.step = disk.step /\ disk'.terminal = disk.terminal
         /\ \/ run' = Thrown
            \/ /\ Rerecords(t.step)
               /\ disk.processes[t.step].phase # "none"
               /\ disk.processes[t.step].identity = t.identity
               /\ disk'.processes[t.step].phase = "finished"
               /\ disk'.processes[t.step].accepted = disk.processes[t.step].accepted
               /\ disk' = Finished(t, outcome, exit)
               /\ run' = next
<1> DEFINE allowed == FinishAllowed(disk, t.step, disk.processes[t.step].generation, t.identity,
                                    outcome, exit)
           document == FinishResult(disk, t.step, outcome, exit)
<1>1. /\ budget' \in 0 .. MaxDisturbances - boot
      /\ \/ disk' = disk /\ run' = Thrown
         \/ allowed /\ disk' = document /\ (run' = next \/ run' = Thrown)
  <2>1. Store(allowed, document, next)
    BY DEF FinishProcess, Finished
  <2> HIDE DEF allowed, document
  <2> QED BY <2>1, StoreCases
<1>2. CASE disk' = disk /\ run' = Thrown
  BY <1>1, <1>2, SameCheckpointKeeps DEF TypeOK
<1>3. CASE allowed /\ disk' = document /\ (run' = next \/ run' = Thrown)
  <2>1. CheckpointInvariant'
    BY <1>3, FinishKeeps
  <2>2. /\ Rerecords(t.step)
        /\ disk.processes[t.step].phase # "none" /\ disk.processes[t.step].identity = t.identity
        /\ disk'.processes[t.step].phase = "finished"
        /\ disk'.processes[t.step].accepted = disk.processes[t.step].accepted
    BY <1>3, FinishFacts
  <2> QED BY <1>1, <1>3, <2>1, <2>2 DEF Finished, Rerecords
<1> QED BY <1>1, <1>2, <1>3

LEMMA AcceptanceWindowPreserves == ASSUME EngineInvariant, AcceptanceWindow PROVE EngineInvariant'
<1> USE DEF EngineInvariant
<1> DEFINE t == Tracked(run.cur)
           generation == disk.processes[run.cur].generation
           accepted == AcceptResult(disk, run.cur)
           gone == t.result \/ ~Matches(t.identity)
           exit == IF t.result THEN "status" ELSE "unknown"
           finished == Finished(t, "exited-before-acceptance", exit)
<1>1. /\ run.pc = "window" /\ run \in Runs /\ disk \in Document
      /\ children' = children /\ ran' = ran /\ boot' = boot /\ canceled' = canceled
  BY DEF AcceptanceWindow, TypeOK
<1>2. /\ run.cur \in Indexes /\ run.outcome = "running" /\ IsTracking(run.cur)
  BY <1>1, AtLaunch DEF Launching, RunInvariant, LaunchIsKnown
<1>3. /\ Position(run.cur) \in DOMAIN run.tracked /\ t.step = run.cur
      /\ t = run.tracked[Position(run.cur)] /\ t \in TrackedProcess
      /\ t.identity \in Identity /\ exit \in {"unknown", "status"}
  BY <1>1, <1>2, FoundPosition, TrackedTypes DEF Tracked, TrackedProcess
<1>4. \A id : Tracks(run.cur, id) => id = t.identity
  BY <1>3 DEF Tracks, TracksOnce, RunInvariant
<1>5. /\ Tracks(run.cur, t.identity)
      /\ gone => ~Matches(t.identity)
  BY <1>3 DEF Tracks, NoticedAreGone, RunInvariant
<1>6. \A child \in children : child.known /\ IsTracking(child.step) => Tracks(child.step, child.identity)
  BY <1>1 DEF RunInvariant, ChildrenAreWithinReach
<1> HIDE DEF t, exit
<1>7. CASE run' = Thrown /\ UNCHANGED <<disk, budget>>
  BY <1>1, <1>7, SameCheckpointKeeps, ThrownKeeps, TypesKept DEF TypeOK
<1>8. CASE /\ gone
           /\ FinishProcess(t, "exited-before-acceptance", exit,
                            OnFailed(Untrack(run, run.cur), finished))
  <2>1. "exited-before-acceptance" \in Outcomes
    BY DEF Outcomes
  <2>2. /\ budget' \in 0 .. MaxDisturbances - boot
        /\ CheckpointInvariant' /\ disk' \in Document
        /\ disk'.step = disk.step /\ disk'.terminal = disk.terminal
        /\ \/ run' = Thrown
           \/ /\ Rerecords(run.cur)
              /\ disk'.processes[run.cur].accepted = disk.processes[run.cur].accepted
              /\ disk' = finished
              /\ run' = OnFailed(Untrack(run, run.cur), finished)
    BY <1>1, <1>2, <1>3, <1>5, <1>8, <2>1, FinishingCases
  <2> HIDE DEF finished
  <2>3. run' \in Runs /\ RunInvariant'
    <3>1. CASE run' = Thrown
      BY <1>1, <3>1, ThrownKeeps
    <3>2. CASE /\ Rerecords(run.cur)
               /\ disk'.processes[run.cur].accepted = disk.processes[run.cur].accepted
               /\ disk' = finished
               /\ run' = OnFailed(Untrack(run, run.cur), finished)
      <4> DEFINE p == Position(run.cur)
                 tr == RemoveAt(run.tracked, p)
      <4>1. Untrack(run, run.cur) = [run EXCEPT !.tracked = tr]
        BY <1>1 DEF Untrack, Runs
      <4>2. run.tracked \in Seq(TrackedProcess) /\ p \in DOMAIN run.tracked
        BY <1>1, <1>3, TrackedTypes
      <4>3. tr \in Seq(TrackedProcess)
        BY <4>2, RemovedElements
      <4> HIDE DEF tr, p
      <4>4. run' = OnFailed([run EXCEPT !.tracked = tr], disk')
        BY <3>2, <4>1
      <4>5. run'.tracked = tr
        BY <1>1, <1>2, <2>2, <4>3, <4>4, OnFailedFields
      <4>6. Loses(p)
        BY <1>1, <4>2, <4>5, RemovedLoses DEF tr
      <4>7. run.tracked[p].step = run.cur
        BY <1>3 DEF p
      <4>8. /\ TracksOnce' /\ NoticedAreGone'
            /\ \A j : IsTracking(j)' <=> IsTracking(j) /\ j # run.cur
            /\ \A j, id : Tracks(j, id)' <=> Tracks(j, id) /\ j # run.cur
        BY <1>1, <4>2, <4>6, <4>7, Shrunk DEF RunInvariant
      <4>9. \A j \in Indexes : Serves(j) /\ j # run.cur => Serves(j)'
        BY <3>2, <4>8 DEF Serves, Rerecords
      <4>10. \A child \in children' : child.known /\ IsTracking(child.step) =>
               IsTracking(child.step)' /\ Tracks(child.step, child.identity)'
        BY <1>1, <1>4, <1>5, <1>6, <1>8, <4>8 DEF Matches
      <4>11. \A i \in Indexes : disk.processes[i].accepted => disk'.processes[i].accepted
        BY <3>2 DEF Rerecords
      <4> QED BY <1>1, <2>2, <4>3, <4>4, <4>8, <4>9, <4>10, <4>11, OnFailedKeeps
    <3> QED BY <2>2, <3>1, <3>2
  <2>4. TypeOK'
    BY <1>1, <2>2, <2>3, TypesKept DEF TypeOK
  <2> QED BY <2>2, <2>3, <2>4
<1>9. CASE Store(AcceptAllowed(disk, run.cur, generation, t.identity), accepted,
                 OnAccepted(run, accepted))
  <2> DEFINE allowed == AcceptAllowed(disk, run.cur, generation, t.identity)
  <2>1. /\ budget' \in 0 .. MaxDisturbances - boot
        /\ \/ disk' = disk /\ run' = Thrown
           \/ allowed /\ disk' = accepted /\ (run' = OnAccepted(run, accepted) \/ run' = Thrown)
    <3> HIDE DEF allowed, accepted
    <3>1. Store(allowed, accepted, OnAccepted(run, accepted))
      BY <1>9 DEF allowed
    <3> QED BY <3>1, StoreCases
  <2>2. CASE disk' = disk /\ run' = Thrown
    BY <1>1, <2>1, <2>2, SameCheckpointKeeps, ThrownKeeps, TypesKept DEF TypeOK
  <2>3. CASE allowed /\ disk' = accepted /\ (run' = OnAccepted(run, accepted) \/ run' = Thrown)
    <3>1. CheckpointInvariant'
      BY <1>1, <1>2, <2>3, AcceptKeeps
    <3>2. /\ Rerecords(run.cur) /\ disk'.processes[run.cur].phase = "accepted"
          /\ disk'.processes[run.cur].accepted /\ disk'.processes[run.cur].identity = t.identity
      BY <1>2, <2>3, AcceptFacts
    <3>3. /\ disk' \in Document /\ disk'.step = disk.step /\ disk'.terminal = disk.terminal
          /\ \A i \in Indexes : disk.processes[i].accepted => disk'.processes[i].accepted
      BY <3>2 DEF Rerecords
    <3> HIDE DEF accepted
    <3>4. run' \in Runs /\ RunInvariant'
      <4>1. CASE run' = Thrown
        BY <1>1, <4>1, ThrownKeeps
      <4>2. CASE run' = OnAccepted(run, disk')
        <5> DEFINE tr == run.tracked
        <5>1. [run EXCEPT !.tracked = tr] = run /\ tr \in Seq(TrackedProcess)
          BY <1>1 DEF Runs
        <5> HIDE DEF tr
        <5>2. run' = OnAccepted([run EXCEPT !.tracked = tr], disk')
          BY <4>2, <5>1
        <5>3. run'.tracked = run.tracked
          BY <1>1, <1>2, <3>3, <5>1, <5>2, OnAcceptedFields DEF tr
        <5>4. /\ TracksOnce' /\ NoticedAreGone'
              /\ \A j : IsTracking(j)' <=> IsTracking(j)
              /\ \A j, id : Tracks(j, id)' <=> Tracks(j, id)
          BY <1>1, <5>3 DEF RunInvariant, TracksOnce, NoticedAreGone, Matches, IsTracking, Tracks
        <5>5. \A j \in Indexes : Serves(j) /\ j # run.cur => Serves(j)'
          BY <3>2, <5>4 DEF Serves, Rerecords
        <5>6. \A j \in Indexes : j = run.cur /\ run.ret # "stop" => Serves(j)'
          BY <1>5, <3>2, <5>4 DEF Serves
        <5>7. \A j : IsTracking(j)' <=> IsTracking(j) \/ j = run.cur
          BY <1>2, <5>4
        <5>8. \A child \in children' : child.known =>
                (IsTracking(child.step)' => Tracks(child.step, child.identity)')
          BY <1>1, <1>6, <5>4
        <5> QED BY <1>1, <3>1, <3>3, <5>1, <5>2, <5>4, <5>5, <5>6, <5>7, <5>8, OnAcceptedKeeps
      <4> QED BY <2>3, <4>1, <4>2
    <3>5. TypeOK'
      BY <1>1, <2>1, <3>3, <3>4, TypesKept DEF TypeOK
    <3> QED BY <3>1, <3>4, <3>5
  <2> QED BY <2>1, <2>2, <2>3
<1> QED BY <1>7, <1>8, <1>9 DEF AcceptanceWindow, t, exit

-----------------------------------------------------------------------------
(* The sequence                                                            *)

(* What may follow a step, and when.                                       *)
Follows(next, step) ==
  \/ next = Exhausted
  \/ next = Complete /\ step.phase = "succeeded" /\ step.index + 1 = StepCount
  \/ /\ next.attempt # 0
     /\ \/ /\ ~next.fresh /\ step.phase = "started" /\ next.index = step.index
        \/ /\ next.fresh /\ step.phase = "none" /\ next.index = 0 /\ next.attempt = 1
        \/ /\ next.fresh /\ step.phase = "succeeded" /\ step.index + 1 # StepCount
           /\ next.index = step.index + 1 /\ next.attempt = 1
        \/ /\ next.fresh /\ step.phase = "failed"
           /\ next.index = step.index /\ next.attempt = step.attempt + 1

LEMMA PendingCases ==
  ASSUME TypeOK
  PROVE  Follows(NextPendingStep, disk.step)
<1> DEFINE step == disk.step
<1>1. /\ step.phase \in {"none", "started", "succeeded", "failed"} /\ step.attempt \in Nat
      /\ step.phase # "none" => step.attempt # 0
  BY DEF TypeOK, Document, StepTarget, NoStep, StepPhases
<1>2. \/ NextPendingStep = Exhausted
      \/ step.phase = "none" /\ NextPendingStep = Pending(1, 0, TRUE)
      \/ /\ step.phase = "succeeded"
         /\ IF step.index + 1 = StepCount THEN NextPendingStep = Complete
            ELSE NextPendingStep = Pending(1, step.index + 1, TRUE)
      \/ step.phase = "started" /\ NextPendingStep = Pending(step.attempt, step.index, FALSE)
      \/ step.phase = "failed" /\ NextPendingStep = Pending(step.attempt + 1, step.index, TRUE)
  BY <1>1 DEF NextPendingStep
<1>3. ASSUME NEW attempt, NEW index, NEW fresh \in BOOLEAN,
             NextPendingStep = Pending(attempt, index, fresh)
      PROVE  /\ NextPendingStep.attempt = attempt /\ NextPendingStep.index = index
             /\ NextPendingStep.fresh <=> fresh
  BY <1>3 DEF Pending
<1>4. step.attempt + 1 # 0 /\ 1 # 0
  BY <1>1
<1> DEFINE next == NextPendingStep
<1>5. CASE step.phase = "none" /\ next = Pending(1, 0, TRUE)
  <2>1. next.attempt = 1 /\ next.index = 0 /\ next.fresh
    BY <1>3, <1>5
  <2> HIDE DEF next
  <2>2. Follows(next, step)
    BY <1>4, <1>5, <2>1 DEF Follows
  <2> QED BY <2>2 DEF next
<1>6. CASE /\ step.phase = "succeeded" /\ step.index + 1 # StepCount
           /\ next = Pending(1, step.index + 1, TRUE)
  <2>1. next.attempt = 1 /\ next.index = step.index + 1 /\ next.fresh
    BY <1>3, <1>6
  <2> HIDE DEF next
  <2>2. Follows(next, step)
    BY <1>4, <1>6, <2>1 DEF Follows
  <2> QED BY <2>2 DEF next
<1>7. CASE step.phase = "started" /\ next = Pending(step.attempt, step.index, FALSE)
  <2>1. next.attempt = step.attempt /\ next.index = step.index /\ ~next.fresh
    BY <1>3, <1>7
  <2> HIDE DEF next
  <2>2. Follows(next, step)
    BY <1>1, <1>7, <2>1 DEF Follows
  <2> QED BY <2>2 DEF next
<1>8. CASE step.phase = "failed" /\ next = Pending(step.attempt + 1, step.index, TRUE)
  <2>1. next.attempt = step.attempt + 1 /\ next.index = step.index /\ next.fresh
    BY <1>3, <1>8
  <2> HIDE DEF next
  <2>2. Follows(next, step)
    BY <1>4, <1>8, <2>1 DEF Follows
  <2> QED BY <2>2 DEF next
<1> HIDE DEF step, next
<1> QED BY <1>2, <1>5, <1>6, <1>7, <1>8 DEF step, next, Follows

LEMMA NotExecutedYet ==
  ASSUME TypeOK, CheckpointInvariant, NEW target \in StepTarget,
         \/ disk.step.phase = "none"
         \/ disk.step.phase = "succeeded" /\ target.index = disk.step.index + 1
         \/ disk.step.phase = "failed" /\ target.index = disk.step.index
                                       /\ target.attempt = disk.step.attempt + 1
  PROVE  <<target.index, target.attempt>> \notin ran
<1> SUFFICES ASSUME NEW attempt \in ran, attempt[1] = target.index, attempt[2] = target.attempt
             PROVE  FALSE
  OBVIOUS
<1>1. /\ disk.step.phase # "none" /\ attempt[1] <= disk.step.index
      /\ attempt[1] = disk.step.index => attempt[2] <= disk.step.attempt
  BY DEF CheckpointInvariant, RanIsRecorded
<1>2. CASE target.index = disk.step.index + 1
  BY <1>1, <1>2, StepTypes
<1>3. CASE target.index = disk.step.index /\ target.attempt = disk.step.attempt + 1
  BY <1>1, <1>3, StepTypes
<1> QED BY <1>1, <1>2, <1>3

(* A move within the sequence that is no launch; a step being executed or  *)
(* returning brings its own facts.                                         *)
LEMMA MovingKeeps ==
  ASSUME TypeOK, RunInvariant, CheckpointInvariant',
         Stepping, run.pc \notin Launching, run' \in Runs,
         run'.pc \in {"loop", "exec", "running", "succeed", "record"},
         run'.ret = run.ret, run'.why = run.why, run'.outcome = run.outcome,
         run'.tracked = run.tracked, run'.held = run.held \/ run'.held = disk'.processes,
         disk'.processes = disk.processes, disk'.terminal = "none",
         children' \subseteq children,
         run'.pc # "loop" => disk'.step.phase = "started",
         run'.pc = "exec" /\ Kind[disk'.step.index] \in {"automatic", "provider"} =>
           <<disk'.step.index, disk'.step.attempt>> \notin ran',
         \A i : i = disk'.step.index /\ run'.pc = "running" => Foreground(i) /\ InRan(i)',
         \A i : i = disk'.step.index /\ run'.pc = "succeed" /\ Foreground(i) => InRan(i)',
         \A i \in Indexes : IsTracking(i) => Completed(i)',
         \A i \in Indexes : Supervised(i) /\ Completed(i)' => Serves(i),
         \A i \in Indexes : run'.pc = "succeed" /\ Supervised(i) /\ i = disk'.step.index => Serves(i)
  PROVE  RunInvariant'
<1>1. run.pc \notin {"off", "start"} /\ run.why = "none" /\ run.outcome = "running"
  BY DEF Stepping, Launching, RunInvariant, Control
<1>2. /\ TracksOnce' /\ NoticedAreGone' /\ StoppedIsGone'
      /\ ChildrenAreWithinReach' /\ RunLeavesNoChild'
  BY <1>1, CarriesOn DEF CheckpointInvariant
<1>3. ~Reconciling' /\ Stepping'
  BY DEF Reconciling, Stepping, Launching
<1>4. Control' /\ SuccessIsEarned' /\ LaunchIsKnown'
  BY <1>1 DEF Control, SuccessIsEarned, LaunchIsKnown, Launching, Reconciling, Stepping
<1>5. Place'
  <2>1. \A i : Foreground(i)' <=> Foreground(i)
    BY DEF Foreground, Supervised
  <2> QED BY <1>1, <2>1 DEF Place, Launching
<1>6. TracksCompleted'
  BY <1>3, SameServices DEF TracksCompleted
<1>7. ServicesAreThere'
  BY <1>3, SameServices DEF ServicesAreThere, Supervised
<1> QED BY <1>2, <1>4, <1>5, <1>6, <1>7 DEF RunInvariant

LEMMA StopAllKeeps ==
  ASSUME TypeOK, RunInvariant, CheckpointInvariant', run.pc # "off",
         NEW why \in {"fail", "succeed"}, run' = StopAll(why), run.pc # "start",
         disk'.terminal = "none", children' \subseteq children, SuccessIsEarned'
  PROVE  RunInvariant' /\ run' \in Runs
<1>1. Stops(why) /\ run'.tracked = run.tracked /\ run'.held = run.held
  BY StopAllFields DEF TypeOK
<1>2. run'.pc = "stop" /\ run' \in Runs /\ run'.outcome = "running"
  BY <1>1 DEF Stops, ChangesOnly, Fields, RunInvariant, Control
<1>3. TracksOnce' /\ NoticedAreGone' /\ ChildrenAreWithinReach'
  BY <1>1, <1>2, CarriesOn
<1> QED BY <1>1, <1>2, <1>3, StoppingKeeps

(* A tracked process has ended: it is recorded, and the run fails.         *)
LEMMA UnhealthyKeeps ==
  ASSUME TypeOK, RunInvariant, CheckpointInvariant', run.pc = "loop",
         NEW k \in DOMAIN run.tracked,
         disk' \in Document, disk'.terminal = "none", children' \subseteq children,
         run' = Holding(Untrack(StopAll("fail"), run.tracked[k].step), disk')
  PROVE  RunInvariant' /\ run' \in Runs
<1> DEFINE i == run.tracked[k].step
           p == Position(i)
           tr == RemoveAt(run.tracked, p)
           held == disk'.processes
<1>1. run \in Runs /\ IsTracking(i)
  BY DEF TypeOK, IsTracking
<1>2. p \in DOMAIN run.tracked /\ run.tracked[p].step = i
  BY <1>1, FoundPosition DEF Tracked
<1>3. tr \in Seq(TrackedProcess)
  BY <1>1, <1>2, TrackedTypes, RemovedElements
<1>4. held \in [Indexes -> Process]
  BY DEF Document
<1>5. run' = [[StopAll("fail") EXCEPT !.tracked = tr] EXCEPT !.held = held]
  BY <1>1 DEF Holding, Untrack, StopAll, Runs
<1> HIDE DEF tr, held, p, i
<1>6. /\ run' \in Runs /\ run'.pc = "stop" /\ run'.ret = "stop" /\ run'.why = "fail"
      /\ run'.cur = run.cur /\ run'.outcome = run.outcome
      /\ run'.tracked = tr /\ run'.held = held
  BY <1>1, <1>3, <1>4, <1>5, ProgramFacts DEF Runs, StopAll
<1>7. Stops("fail")
  BY <1>6 DEF Stops, ChangesOnly, Fields
<1>8. Loses(p)
  BY <1>1, <1>2, <1>6, RemovedLoses DEF tr
<1>9. /\ TracksOnce' /\ NoticedAreGone'
      /\ \A j : IsTracking(j)' <=> IsTracking(j) /\ j # i
      /\ \A j, id : Tracks(j, id)' <=> Tracks(j, id) /\ j # i
  BY <1>1, <1>2, <1>8, Shrunk DEF RunInvariant
<1>10. ChildrenAreWithinReach'
  <2>1. ASSUME NEW child \in children', child.known
        PROVE  /\ IsTracking(child.step)' => Tracks(child.step, child.identity)'
               /\ ~IsTracking(child.step)' => HeldAs(child)'
    <3>1. IsTracking(child.step) => Tracks(child.step, child.identity)
      BY <2>1 DEF RunInvariant, ChildrenAreWithinReach
    <3>2. HeldAs(child)'
      BY <1>6, <2>1 DEF CheckpointInvariant, LiveChildIsRecorded, HeldAs, held
    <3> QED BY <1>9, <3>1, <3>2
  <2> QED BY <1>6, <2>1 DEF ChildrenAreWithinReach
<1>11. SuccessIsEarned'
  BY <1>6 DEF SuccessIsEarned
<1>12. run.pc # "off"
  OBVIOUS
<1> QED BY <1>6, <1>7, <1>9, <1>10, <1>11, <1>12, StoppingKeeps

(* A step that an earlier run left started.                                *)
LEMMA ResumeStartedKeeps ==
  ASSUME EngineInvariant, CheckpointInvariant', run.pc = "loop", disk.step.phase = "started",
         run' = ResumeStarted(disk.step.index),
         disk' = disk, children' = children, ran' = ran
  PROVE  RunInvariant' /\ run' \in Runs
<1> USE DEF EngineInvariant
<1> DEFINE i == disk.step.index
<1>1. /\ run \in Runs /\ Stepping /\ run.why = "none" /\ disk.terminal = "none"
      /\ run.outcome = "running" /\ i \in Indexes /\ run.pc \notin Launching
  BY StepTypes DEF Stepping, RunInvariant, Control, TypeOK, Launching
<1>2. \A j \in Indexes : IsTracking(j) => Completed(j)
  BY <1>1 DEF RunInvariant, TracksCompleted
<1>3. \A j \in Indexes : Supervised(j) /\ Completed(j) => Serves(j)
  BY <1>1 DEF RunInvariant, ServicesAreThere
<1>4. ~Completed(i)
  BY <1>1, StepTypes DEF Completed
<1>5. \A j : Completed(j)' <=> Completed(j)
  BY DEF Completed
<1>6. \/ \E pc \in {"record", "exec"} :
           /\ run' = Goto(pc)
           /\ pc = "exec" => Kind[i] \notin {"automatic", "provider"}
      \/ Supervised(i) /\ \E pc \in {"spawn", "resume"} : run' = Call(pc, i, "started")
  BY DEF ResumeStarted
<1>7. CASE \E pc \in {"record", "exec"} :
             /\ run' = Goto(pc)
             /\ pc = "exec" => Kind[i] \notin {"automatic", "provider"}
  <2>1. PICK pc \in {"record", "exec"} :
          /\ run' = Goto(pc)
          /\ pc = "exec" => Kind[i] \notin {"automatic", "provider"}
    BY <1>7
  <2>2. ChangesOnly({"pc"}) /\ run'.pc = pc
    BY <1>1, <2>1, GotoFields, ProgramFacts
  <2>3. /\ run' \in Runs /\ run'.ret = run.ret /\ run'.why = run.why
        /\ run'.tracked = run.tracked /\ run'.held = run.held /\ run'.outcome = run.outcome
    BY <2>2 DEF ChangesOnly, Fields
  <2>4. /\ disk'.processes = disk.processes /\ disk'.terminal = "none"
        /\ disk'.step.phase = "started" /\ disk'.step.index = i
    BY <1>1
  <2> QED BY <1>1, <1>2, <1>3, <1>5, <2>1, <2>2, <2>3, <2>4, MovingKeeps
<1>8. CASE Supervised(i) /\ \E pc \in {"spawn", "resume"} : run' = Call(pc, i, "started")
  <2> DEFINE at == i
  <2>1. PICK pc \in {"spawn", "resume"} : run' = Call(pc, at, "started")
    BY <1>8
  <2>2. /\ at \in Indexes /\ at = disk.step.index /\ Supervised(at) /\ ~IsTracking(at)
    BY <1>1, <1>2, <1>4, <1>8
  <2> HIDE DEF at, i
  <2>3. /\ ChangesOnly({"pc", "cur", "ret"}) /\ run'.pc = pc /\ run'.cur = at
        /\ run'.ret = "started"
    BY <1>1, <2>1, <2>2, CallFields, ProgramFacts
  <2>4. run'.tracked = run.tracked /\ ~Reconciling' /\ Stepping' /\ run'.pc # "succeed"
    BY <2>3 DEF ChangesOnly, Fields, Reconciling, Stepping, Launching
  <2>5. TracksCompleted'
    BY <1>2, <1>5, <2>4, SameServices DEF TracksCompleted
  <2>6. ServicesAreThere'
    BY <1>3, <1>5, <2>4, SameServices DEF ServicesAreThere, Supervised
  <2> QED BY <1>1, <2>1, <2>2, <2>5, <2>6, LaunchingKeeps
<1> QED BY <1>6, <1>7, <1>8

(* The sequence is over, and all of it was done.                           *)
LEMMA DoneIsEarned ==
  ASSUME EngineInvariant, run.pc = "loop", disk' = disk,
         disk.step.phase = "succeeded", disk.step.index + 1 = StepCount
  PROVE  SuccessIsEarned'
<1>1. \A i \in Indexes : Completed(i)
  BY StepTypes DEF EngineInvariant, Completed
<1>2. \A i \in Indexes : Supervised(i) => disk.processes[i].phase = "accepted"
  BY <1>1 DEF EngineInvariant, RunInvariant, ServicesAreThere, Serves, Stepping
<1>3. \A i \in Indexes : Supervised(i) => disk.processes[i].accepted
  BY <1>2 DEF EngineInvariant, CheckpointInvariant, ProcessesAreSettled
<1> QED BY <1>3 DEF SuccessIsEarned, Supervised

(* A step is recorded as started, and comes to be executed.                *)
LEMMA StartingKeeps ==
  ASSUME EngineInvariant, run.pc = "loop", NEW target \in StepTarget, Steps(target),
         children' = children, ran' = ran, target.phase = "started",
         run' = Holding(Goto("exec"), disk') \/ run' = Thrown,
         \/ disk.step.phase = "none" /\ target.index = 0
         \/ disk.step.phase = "succeeded" /\ target.index = disk.step.index + 1
         \/ disk.step.phase = "failed" /\ target.index = disk.step.index
                                       /\ target.attempt = disk.step.attempt + 1
  PROVE  CheckpointInvariant' /\ RunInvariant' /\ run' \in Runs
<1> USE DEF EngineInvariant
<1>1. /\ run \in Runs /\ Stepping /\ run.why = "none" /\ run.pc \notin Launching
      /\ run.outcome = "running"
  BY DEF Stepping, RunInvariant, Control, TypeOK, Launching
<1>2. CheckpointInvariant' /\ \A i \in Indexes : Completed(i)' <=> Completed(i)
  <2>1. CASE disk.step.phase = "failed"
    <3>1. target.attempt >= disk.step.attempt
      BY <2>1, StepTypes
    <3> QED BY <2>1, <3>1, SameStepKeeps
  <2>2. CASE disk.step.phase \in {"none", "succeeded"}
    BY <2>2, NextStepKeeps
  <2> QED BY <2>1, <2>2
<1>3. CASE run' = Thrown
  BY <1>2, <1>3, ThrownKeeps
<1>4. CASE run' = Holding(Goto("exec"), disk')
  <2>1. disk' \in Document
    BY DEF Steps
  <2>2. ChangesOnly({"pc", "held"}) /\ run'.pc = "exec" /\ run'.held = disk'.processes
    BY <1>1, <1>4, <2>1, HoldingFields, ProgramFacts
  <2>3. /\ run' \in Runs /\ run'.ret = run.ret /\ run'.why = run.why
        /\ run'.tracked = run.tracked /\ run'.outcome = run.outcome
    BY <2>2 DEF ChangesOnly, Fields
  <2>4. \A j \in Indexes : IsTracking(j) => Completed(j)'
    BY <1>1, <1>2 DEF RunInvariant, TracksCompleted
  <2>5. \A j \in Indexes : Supervised(j) /\ Completed(j)' => Serves(j)
    BY <1>1, <1>2 DEF RunInvariant, ServicesAreThere
  <2>6. <<target.index, target.attempt>> \notin ran
    BY NotExecutedYet
  <2>7. /\ disk'.processes = disk.processes /\ disk'.terminal = "none"
        /\ disk'.step.phase = "started"
        /\ <<disk'.step.index, disk'.step.attempt>> \notin ran'
    BY <2>6 DEF Steps
  <2>8. RunInvariant'
    BY <1>1, <1>2, <2>2, <2>3, <2>4, <2>5, <2>7, MovingKeeps
  <2> QED BY <1>2, <2>3, <2>8
<1> QED BY <1>3, <1>4

LEMMA LoopPreserves == ASSUME EngineInvariant, Loop PROVE EngineInvariant'
<1> USE DEF EngineInvariant
<1> DEFINE unhealthy == {k \in DOMAIN run.tracked : Unhealthy(k)}
           least == Min(unhealthy)
           t == run.tracked[least]
           exit == IF t.result THEN "status" ELSE "unknown"
           finished == Finished(t, "exited-after-acceptance", exit)
           failing == Holding(Untrack(StopAll("fail"), t.step), finished)
           pending == NextPendingStep
           target == [index |-> pending.index, attempt |-> pending.attempt, phase |-> "started"]
           started == StepResult(disk, target)
           next == Holding(Goto("exec"), started)
<1>1. /\ run.pc = "loop" /\ run \in Runs /\ disk \in Document /\ run.why = "none"
      /\ disk.terminal = "none" /\ Stepping
      /\ children' = children /\ ran' = ran /\ boot' = boot /\ canceled' = canceled
  BY DEF Loop, TypeOK, RunInvariant, Control, Stepping
<1>2. /\ Follows(pending, disk.step)
      /\ Exhausted.attempt = 0 /\ Complete.attempt = 0 /\ Complete # Exhausted
  BY PendingCases DEF Complete, Exhausted, Pending
<1>3. ASSUME disk' = disk
      PROVE  CheckpointInvariant'
  BY <1>1, <1>3, SameCheckpointKeeps
<1>4. ASSUME disk' = disk, budget' = budget, RunInvariant', run' \in Runs
      PROVE  EngineInvariant'
  BY <1>1, <1>3, <1>4, TypesKept DEF TypeOK
<1>5. CASE run' = Thrown /\ UNCHANGED <<disk, budget>>
  BY <1>1, <1>4, <1>5, ThrownKeeps
<1>6. CASE /\ unhealthy # {}
           /\ FinishProcess(t, "exited-after-acceptance", exit, failing)
  <2>1. least \in unhealthy
    BY <1>1, <1>6, TrackedTypes, MinIsLeast
  <2> HIDE DEF least
  <2>2. /\ t.step \in Indexes /\ exit \in {"unknown", "status"} /\ least \in DOMAIN run.tracked
    BY <1>1, <2>1, TrackedTypes
  <2>3. ~Matches(t.identity)
    BY <2>1 DEF Unhealthy, RunInvariant, NoticedAreGone
  <2>4. "exited-after-acceptance" \in Outcomes
    BY DEF Outcomes
  <2> HIDE DEF exit, failing
  <2>5. /\ budget' \in 0 .. MaxDisturbances - boot
        /\ CheckpointInvariant' /\ disk' \in Document /\ disk'.terminal = disk.terminal
        /\ \/ run' = Thrown
           \/ disk' = finished /\ run' = failing
    BY <1>1, <1>6, <2>2, <2>3, <2>4, FinishingCases
  <2>6. run' \in Runs /\ RunInvariant'
    <3>1. CASE run' = Thrown
      BY <1>1, <3>1, ThrownKeeps
    <3>2. CASE disk' = finished /\ run' = failing
      <4>1. run' = Holding(Untrack(StopAll("fail"), run.tracked[least].step), disk')
        BY <3>2 DEF failing
      <4> QED BY <1>1, <2>2, <2>5, <4>1, UnhealthyKeeps
    <3> QED BY <2>5, <3>1, <3>2
  <2>7. TypeOK'
    BY <1>1, <2>5, <2>6, TypesKept DEF TypeOK
  <2> QED BY <2>5, <2>6, <2>7
<1>7. CASE /\ pending \in {Complete, Exhausted}
           /\ run' = StopAll(IF pending = Complete THEN "succeed" ELSE "fail")
           /\ UNCHANGED <<disk, budget>>
  <2>1. run' \in Runs /\ RunInvariant'
    <3>1. CASE pending = Complete
      <4>1. disk.step.phase = "succeeded" /\ disk.step.index + 1 = StepCount
        BY <1>2, <3>1 DEF Follows
      <4>2. SuccessIsEarned'
        BY <1>1, <1>7, <4>1, DoneIsEarned
      <4> QED BY <1>1, <1>3, <1>7, <3>1, <4>2, StopAllKeeps
    <3>2. CASE pending # Complete
      <4>1. run' = StopAll("fail") /\ run.pc \notin {"off", "start"}
        BY <1>1, <1>7, <3>2
      <4> QED BY <1>1, <1>7, <4>1, FailingKeeps
    <3> QED BY <3>1, <3>2
  <2> QED BY <1>4, <1>7, <2>1
<1>8. CASE /\ pending.attempt # 0 /\ ~pending.fresh
           /\ run' = ResumeStarted(pending.index)
           /\ UNCHANGED <<disk, budget>>
  <2>1. disk.step.phase = "started" /\ pending.index = disk.step.index
    BY <1>2, <1>8 DEF Follows
  <2>2. run' \in Runs /\ RunInvariant'
    BY <1>1, <1>3, <1>8, <2>1, ResumeStartedKeeps
  <2> QED BY <1>4, <1>8, <2>2
<1>9. CASE /\ pending.attempt # 0 /\ pending.fresh
           /\ Store(StepAllowed(disk, target), started, next)
  <2>1. \/ disk.step.phase = "none" /\ pending.index = 0 /\ pending.attempt = 1
        \/ /\ disk.step.phase = "succeeded" /\ disk.step.index + 1 # StepCount
           /\ pending.index = disk.step.index + 1 /\ pending.attempt = 1
        \/ /\ disk.step.phase = "failed" /\ pending.index = disk.step.index
           /\ pending.attempt = disk.step.attempt + 1
    BY <1>2, <1>9 DEF Follows
  <2>2. pending.index \in Indexes /\ pending.attempt \in Nat \ {0}
    <3>1. disk.step.index + 1 # StepCount => disk.step.index + 1 \in Indexes
      BY StepTypes, PlanAssumption DEF Indexes
    <3>2. disk.step.attempt + 1 \in Nat \ {0} /\ 1 \in Nat \ {0}
      BY StepTypes
    <3> QED BY <2>1, <3>1, <3>2, StepTypes
  <2> HIDE DEF pending
  <2>3. /\ target \in StepTarget /\ target.phase = "started" /\ target.index = pending.index
        /\ target.attempt = pending.attempt
    BY <2>2 DEF StepTarget, StepPhases
  <2> HIDE DEF target, next, started
  <2>4. /\ budget' \in 0 .. MaxDisturbances - boot
        /\ \/ disk' = disk /\ run' = Thrown
           \/ /\ StepAllowed(disk, target) /\ disk' = started
              /\ run' = next \/ run' = Thrown
    BY <1>9, StoreCases
  <2>5. disk' \in Document /\ CheckpointInvariant' /\ RunInvariant' /\ run' \in Runs
    <3>1. CASE disk' = disk /\ run' = Thrown
      BY <1>1, <1>3, <3>1, ThrownKeeps
    <3>2. CASE StepAllowed(disk, target) /\ disk' = started /\ (run' = next \/ run' = Thrown)
      <4>1. Steps(target)
        BY <2>3, <3>2, StepFacts DEF started
      <4>2. run' = Holding(Goto("exec"), disk') \/ run' = Thrown
        BY <3>2 DEF next
      <4> QED BY <1>1, <2>1, <2>3, <4>1, <4>2, StartingKeeps DEF Steps
    <3> QED BY <2>4, <3>1, <3>2
  <2>6. TypeOK'
    BY <1>1, <2>4, <2>5, TypesKept DEF TypeOK
  <2> QED BY <2>5, <2>6
<1> QED BY <1>5, <1>6, <1>7, <1>8, <1>9 DEF Loop

LEMMA CheckpointStepCases ==
  ASSUME TypeOK, disk.step.phase = "started", NEW phase \in {"succeeded", "failed"}, NEW next,
         CheckpointStep(phase, next)
  PROVE  /\ budget' \in 0 .. MaxDisturbances - boot
         /\ \/ disk' = disk /\ run' = Thrown
            \/ \E target \in StepTarget :
                 /\ Steps(target) /\ target.phase = phase
                 /\ target.index = disk.step.index /\ target.attempt = disk.step.attempt
                 /\ disk' = Checkpointed(phase)
                 /\ run' = next \/ run' = Thrown
<1> DEFINE target == [disk.step EXCEPT !.phase = phase]
           document == StepResult(disk, target)
<1>1. disk.step \in StepTarget
  BY DEF TypeOK, Document, NoStep
<1>2. /\ target \in StepTarget /\ target.phase = phase
      /\ target.index = disk.step.index /\ target.attempt = disk.step.attempt
  BY <1>1 DEF StepTarget, StepPhases
<1>3. document = Checkpointed(phase)
  BY DEF Checkpointed
<1>4. Store(StepAllowed(disk, target), document, next)
  BY DEF CheckpointStep, Checkpointed
<1> HIDE DEF target, document
<1>5. /\ budget' \in 0 .. MaxDisturbances - boot
      /\ \/ disk' = disk /\ run' = Thrown
         \/ /\ StepAllowed(disk, target) /\ disk' = document
            /\ run' = next \/ run' = Thrown
  BY <1>4, StoreCases
<1>6. CASE StepAllowed(disk, target) /\ disk' = document /\ (run' = next \/ run' = Thrown)
  <2>1. Steps(target)
    BY <1>2, <1>6, StepFacts DEF document
  <2> QED BY <1>2, <1>3, <1>5, <1>6, <2>1
<1> QED BY <1>5, <1>6

(* A step has failed: another attempt, or a terminal failure.              *)
LEMMA FailedStepKeeps ==
  ASSUME EngineInvariant, Stepping, run.pc \in {"running", "record"},
         CheckpointStep("failed", Holding(StopAll("fail"), Checkpointed("failed")))
         \/ CheckpointStep("failed", Holding(Goto("loop"), Checkpointed("failed")))
         \/ CheckpointStep("failed", StopAll("fail")),
         children' = children, ran' = ran, boot' = boot, canceled' = canceled
  PROVE  EngineInvariant'
<1> USE DEF EngineInvariant
<1>1. /\ run \in Runs /\ disk.step.phase = "started" /\ disk \in Document
      /\ run.pc \notin {"off", "start", "loop"} /\ run.why = "none" /\ run.outcome = "running"
      /\ run.pc \notin Launching
  BY DEF TypeOK, RunInvariant, Place, Control, Stepping, Launching
<1>2. PICK next :
        /\ CheckpointStep("failed", next)
        /\ \/ next = Holding(StopAll("fail"), Checkpointed("failed"))
           \/ next = Holding(Goto("loop"), Checkpointed("failed"))
           \/ next = StopAll("fail")
  OBVIOUS
<1>3. /\ budget' \in 0 .. MaxDisturbances - boot
      /\ \/ disk' = disk /\ run' = Thrown
         \/ \E target \in StepTarget :
              /\ Steps(target) /\ target.phase = "failed"
              /\ target.index = disk.step.index /\ target.attempt = disk.step.attempt
              /\ disk' = Checkpointed("failed")
              /\ run' = next \/ run' = Thrown
  BY <1>1, <1>2, CheckpointStepCases
<1>4. CASE disk' = disk /\ run' = Thrown
  BY <1>1, <1>3, <1>4, SameCheckpointKeeps, ThrownKeeps, TypesKept DEF TypeOK
<1>5. ASSUME NEW target \in StepTarget, Steps(target), target.phase = "failed",
             target.index = disk.step.index, target.attempt = disk.step.attempt,
             disk' = Checkpointed("failed"),
             run' = next \/ run' = Thrown
      PROVE  EngineInvariant'
  <2>1. CheckpointInvariant' /\ \A i : Completed(i)' <=> Completed(i)
    <3>1. target.attempt >= disk.step.attempt
      BY <1>5, StepTypes
    <3> QED BY <1>1, <1>5, <3>1, SameStepKeeps
  <2>2. disk' \in Document /\ disk'.terminal = "none" /\ disk'.processes = disk.processes
    BY <1>5 DEF Steps
  <2>3. RunInvariant' /\ run' \in Runs
    <3>1. CASE run' = Thrown
      BY <1>1, <3>1, ThrownKeeps
    <3>2. CASE run' = Holding(StopAll("fail"), disk')
      BY <1>1, <2>1, <2>2, <3>2, FailingKeeps
    <3>3. CASE run' = StopAll("fail")
      BY <1>1, <2>2, <3>3, FailingKeeps
    <3>4. CASE run' = Holding(Goto("loop"), disk')
      <4>1. ChangesOnly({"pc", "held"}) /\ run'.pc = "loop" /\ run'.held = disk'.processes
        BY <1>1, <2>2, <3>4, HoldingFields, ProgramFacts
      <4>2. /\ run' \in Runs /\ run'.ret = run.ret /\ run'.why = run.why
            /\ run'.tracked = run.tracked /\ run'.outcome = run.outcome
        BY <4>1 DEF ChangesOnly, Fields
      <4>3. \A j \in Indexes : IsTracking(j) => Completed(j)'
        BY <1>1, <2>1 DEF RunInvariant, TracksCompleted
      <4>4. \A j \in Indexes : Supervised(j) /\ Completed(j)' => Serves(j)
        BY <1>1, <2>1 DEF RunInvariant, ServicesAreThere
      <4>5. RunInvariant'
        BY <1>1, <2>1, <2>2, <4>1, <4>2, <4>3, <4>4, MovingKeeps
      <4> QED BY <4>2, <4>5
    <3> QED BY <1>2, <1>5, <3>1, <3>2, <3>3, <3>4
  <2>4. TypeOK'
    BY <1>1, <1>3, <2>2, <2>3, TypesKept DEF TypeOK
  <2> QED BY <2>1, <2>3, <2>4
<1> QED BY <1>3, <1>4, <1>5

LEMMA RecordFailurePreserves == ASSUME EngineInvariant, RecordFailure PROVE EngineInvariant'
<1>1. Stepping /\ run.pc = "record"
  BY DEF RecordFailure, Stepping
<1>2. \/ CheckpointStep("failed", StopAll("fail"))
      \/ CheckpointStep("failed", Holding(Goto("loop"), Checkpointed("failed")))
  BY DEF RecordFailure
<1>3. children' = children /\ ran' = ran /\ boot' = boot /\ canceled' = canceled
  BY DEF RecordFailure
<1> QED BY <1>1, <1>2, <1>3, FailedStepKeeps

(* A step that is executed or has returned turns to `pc`.                  *)
LEMMA TurningKeeps ==
  ASSUME EngineInvariant, Stepping, run.pc \in {"exec", "running"},
         NEW pc \in {"succeed", "record"}, run' = Goto(pc),
         disk'.step = disk.step, disk'.processes = disk.processes, disk'.terminal = disk.terminal,
         CheckpointInvariant', children' = children, ran' = ran,
         ~Supervised(disk.step.index),
         pc = "record" \/ run.pc = "running" \/ ~Foreground(disk.step.index)
  PROVE  RunInvariant' /\ run' \in Runs
<1> USE DEF EngineInvariant
<1>1. /\ run \in Runs /\ disk.step.phase = "started" /\ disk.terminal = "none"
      /\ run.pc \notin {"off", "start", "loop"}
      /\ run.pc \notin Launching
  BY DEF TypeOK, RunInvariant, Place, Control, Stepping, Launching
<1>2. ChangesOnly({"pc"}) /\ run'.pc = pc
  BY <1>1, GotoFields, ProgramFacts
<1>3. /\ run' \in Runs /\ run'.ret = run.ret /\ run'.why = run.why /\ run'.held = run.held
      /\ run'.tracked = run.tracked /\ run'.outcome = run.outcome
  BY <1>2 DEF ChangesOnly, Fields
<1>4. \A j : Completed(j)' <=> Completed(j)
  BY DEF Completed
<1>5. \A j \in Indexes : IsTracking(j) => Completed(j)'
  BY <1>1, <1>4 DEF RunInvariant, TracksCompleted
<1>6. \A j \in Indexes : Supervised(j) /\ Completed(j)' => Serves(j)
  BY <1>1, <1>4 DEF RunInvariant, ServicesAreThere
<1>7. run.pc = "running" => InRan(disk.step.index)
  BY DEF RunInvariant, Place
<1>8. \A i : i = disk'.step.index /\ run'.pc = "succeed" /\ Foreground(i) => InRan(i)'
  BY <1>2, <1>7 DEF InRan
<1> QED BY <1>1, <1>2, <1>3, <1>5, <1>6, <1>8, MovingKeeps

LEMMA ReturnForegroundPreserves == ASSUME EngineInvariant, ReturnForeground PROVE EngineInvariant'
<1> USE DEF EngineInvariant
<1>1. /\ run.pc = "running" /\ Stepping /\ ~Supervised(disk.step.index)
      /\ disk' = disk /\ children' = children /\ ran' = ran /\ boot' = boot
      /\ canceled' = canceled /\ budget' = budget
  BY DEF ReturnForeground, Stepping, Supervised
<1>2. CheckpointInvariant'
  BY <1>1, SameCheckpointKeeps
<1>3. run' = Thrown \/ \E pc \in {"succeed", "record"} : run' = Goto(pc)
  BY DEF ReturnForeground
<1>4. RunInvariant' /\ run' \in Runs
  <2>1. CASE run' = Thrown
    BY <1>1, <2>1, ThrownKeeps
  <2>2. CASE \E pc \in {"succeed", "record"} : run' = Goto(pc)
    BY <1>1, <1>2, <2>2, TurningKeeps
  <2> QED BY <1>3, <2>1, <2>2
<1>5. TypeOK'
  BY <1>1, <1>4, TypesKept DEF TypeOK
<1> QED BY <1>2, <1>4, <1>5

LEMMA ReturnManualPreserves == ASSUME EngineInvariant, ReturnManual PROVE EngineInvariant'
<1> USE DEF EngineInvariant
<1>1. /\ run.pc = "running" /\ Stepping /\ ~Supervised(disk.step.index)
      /\ children' = children /\ ran' = ran /\ boot' = boot /\ canceled' = canceled
  BY DEF ReturnManual, Stepping, Supervised
<1>2. CASE (run' = Thrown \/ run' = Goto("succeed")) /\ UNCHANGED <<disk, budget>>
  <2>1. CheckpointInvariant'
    BY <1>1, <1>2, SameCheckpointKeeps
  <2>2. RunInvariant' /\ run' \in Runs
    <3>1. CASE run' = Thrown
      BY <1>1, <3>1, ThrownKeeps
    <3>2. CASE run' = Goto("succeed")
      BY <1>1, <1>2, <2>1, <3>2, TurningKeeps
    <3> QED BY <1>2, <3>1, <3>2
  <2>3. TypeOK'
    BY <1>1, <1>2, <2>2, TypesKept DEF TypeOK
  <2> QED BY <2>1, <2>2, <2>3
<1>3. CASE CheckpointStep("failed", Holding(StopAll("fail"), Checkpointed("failed")))
  BY <1>1, <1>3, FailedStepKeeps
<1> QED BY <1>2, <1>3 DEF ReturnManual

LEMMA SecretInstallerPreserves == ASSUME EngineInvariant, SecretInstaller PROVE EngineInvariant'
<1> USE DEF EngineInvariant
<1>1. /\ run.pc = "running" /\ Stepping /\ ~Supervised(disk.step.index) /\ run \in Runs
      /\ disk.step.phase = "started" /\ run.pc \notin Launching /\ disk \in Document
      /\ disk.terminal = "none"
      /\ children' = children /\ ran' = ran /\ boot' = boot /\ canceled' = canceled
  BY DEF SecretInstaller, Stepping, Supervised, TypeOK, RunInvariant, Place, Control, Launching
<1>2. CASE (run' = Goto("record") \/ run' = Goto("succeed")) /\ UNCHANGED <<disk, budget>>
  <2>1. CheckpointInvariant'
    BY <1>1, <1>2, SameCheckpointKeeps
  <2>2. RunInvariant' /\ run' \in Runs
    BY <1>1, <1>2, <2>1, TurningKeeps
  <2>3. TypeOK'
    BY <1>1, <1>2, <2>2, TypesKept DEF TypeOK
  <2> QED BY <2>1, <2>2, <2>3
<1>3. ASSUME NEW phase \in SecretPhases,
             SecretAllowed(disk, [step |-> disk.step.index, phase |-> phase]),
             disk' = SecretResult(disk, [step |-> disk.step.index, phase |-> phase]),
             \/ run' = run /\ UNCHANGED budget
             \/ Disturb("storage") /\ run' = Goto("record")
      PROVE  EngineInvariant'
  <2>1. /\ CheckpointInvariant' /\ disk' \in Document
        /\ disk'.step = disk.step /\ disk'.processes = disk.processes
        /\ disk'.terminal = disk.terminal
    BY <1>1, <1>3, SecretKeeps
  <2>2. budget' \in 0 .. MaxDisturbances - boot
    BY <1>3, DisturbedBudget DEF TypeOK
  <2>3. RunInvariant' /\ run' \in Runs
    <3>1. CASE run' = run
      <4>1. \A j : Completed(j)' <=> Completed(j)
        BY <2>1 DEF Completed
      <4>2. \A j \in Indexes : IsTracking(j) => Completed(j)'
        BY <1>1, <4>1 DEF RunInvariant, TracksCompleted
      <4>3. \A j \in Indexes : Supervised(j) /\ Completed(j)' => Serves(j)
        BY <1>1, <4>1 DEF RunInvariant, ServicesAreThere
      <4>4. \A i : i = disk'.step.index => Foreground(i) /\ InRan(i)'
        BY <1>1, <2>1 DEF RunInvariant, Place, InRan
      <4>5. run' \in Runs /\ run'.pc = "running" /\ run'.ret = run.ret /\ run'.why = run.why
            /\ run'.outcome = run.outcome /\ run'.tracked = run.tracked /\ run'.held = run.held
        BY <1>1, <3>1
      <4> QED BY <1>1, <2>1, <4>2, <4>3, <4>4, <4>5, MovingKeeps
    <3>2. CASE run' = Goto("record")
      BY <1>1, <2>1, <3>2, TurningKeeps
    <3> QED BY <1>3, <3>1, <3>2
  <2>4. TypeOK'
    BY <1>1, <2>1, <2>2, <2>3, TypesKept DEF TypeOK
  <2> QED BY <2>1, <2>3, <2>4
<1> QED BY <1>2, <1>3 DEF SecretInstaller

LEMMA SucceedStepPreserves == ASSUME EngineInvariant, SucceedStep PROVE EngineInvariant'
<1> USE DEF EngineInvariant
<1> DEFINE next == Holding(Goto("loop"), Checkpointed("succeeded"))
<1>1. /\ run.pc = "succeed" /\ Stepping /\ run \in Runs
      /\ disk.step.phase = "started" /\ run.pc \notin Launching /\ disk \in Document
      /\ CheckpointStep("succeeded", next)
      /\ children' = children /\ ran' = ran /\ boot' = boot /\ canceled' = canceled
  BY DEF SucceedStep, Stepping, TypeOK, RunInvariant, Place, Launching
<1>2. /\ budget' \in 0 .. MaxDisturbances - boot
      /\ \/ disk' = disk /\ run' = Thrown
         \/ \E target \in StepTarget :
              /\ Steps(target) /\ target.phase = "succeeded"
              /\ target.index = disk.step.index /\ target.attempt = disk.step.attempt
              /\ disk' = Checkpointed("succeeded")
              /\ run' = next \/ run' = Thrown
  <2> HIDE DEF next
  <2> QED BY <1>1, CheckpointStepCases
<1>3. CASE disk' = disk /\ run' = Thrown
  BY <1>1, <1>2, <1>3, SameCheckpointKeeps, ThrownKeeps, TypesKept DEF TypeOK
<1>4. ASSUME NEW target \in StepTarget, Steps(target), target.phase = "succeeded",
             target.index = disk.step.index, target.attempt = disk.step.attempt,
             disk' = Checkpointed("succeeded"),
             run' = next \/ run' = Thrown
      PROVE  EngineInvariant'
  <2>1. /\ Foreground(disk.step.index) => InRan(disk.step.index)
        /\ \A i \in Indexes : i = disk.step.index /\ Supervised(i) => Serves(i)
    BY <1>1 DEF RunInvariant, Place, ServicesAreThere
  <2>2. Supervised(disk.step.index) => disk.processes[disk.step.index].phase # "none"
    BY <2>1, StepTypes DEF Serves
  <2>3. CheckpointInvariant' /\ \A i : Completed(i)' <=> Completed(i) \/ i = disk.step.index
    BY <1>1, <1>4, <2>1, <2>2, SucceedingKeeps
  <2>4. disk' \in Document /\ disk'.terminal = "none" /\ disk'.processes = disk.processes
    BY <1>4 DEF Steps
  <2>5. RunInvariant' /\ run' \in Runs
    <3>1. CASE run' = Thrown
      BY <1>1, <3>1, ThrownKeeps
    <3>2. CASE run' = Holding(Goto("loop"), disk')
      <4>1. ChangesOnly({"pc", "held"}) /\ run'.pc = "loop" /\ run'.held = disk'.processes
        BY <1>1, <2>4, <3>2, HoldingFields, ProgramFacts
      <4>2. /\ run' \in Runs /\ run'.ret = run.ret /\ run'.why = run.why
            /\ run'.tracked = run.tracked /\ run'.outcome = run.outcome
        BY <4>1 DEF ChangesOnly, Fields
      <4>3. \A j \in Indexes : IsTracking(j) => Completed(j)'
        BY <1>1, <2>3 DEF RunInvariant, TracksCompleted
      <4>4. \A j \in Indexes : Supervised(j) /\ Completed(j)' => Serves(j)
        BY <1>1, <2>1, <2>3 DEF RunInvariant, ServicesAreThere
      <4>5. RunInvariant'
        BY <1>1, <2>3, <2>4, <4>1, <4>2, <4>3, <4>4, MovingKeeps
      <4> QED BY <4>2, <4>5
    <3> QED BY <1>4, <3>1, <3>2
  <2>6. TypeOK'
    BY <1>1, <1>2, <2>4, <2>5, TypesKept DEF TypeOK
  <2> QED BY <2>3, <2>5, <2>6
<1> QED BY <1>2, <1>3, <1>4

LEMMA ExecutePreserves == ASSUME EngineInvariant, Execute PROVE EngineInvariant'
<1> USE DEF EngineInvariant
<1> DEFINE i == disk.step.index
<1>1. /\ run.pc = "exec" /\ Stepping /\ run \in Runs /\ i \in Indexes
      /\ disk.step.phase = "started" /\ run.pc \notin Launching /\ disk \in Document
      /\ disk.terminal = "none" /\ run.why = "none"
      /\ disk' = disk /\ children' = children /\ boot' = boot /\ canceled' = canceled
      /\ budget' = budget
  BY StepTypes DEF Execute, Stepping, TypeOK, RunInvariant, Place, Control, Launching
<1>2. \A j \in Indexes : IsTracking(j) => Completed(j)
  BY <1>1 DEF RunInvariant, TracksCompleted
<1>3. \A j \in Indexes : Supervised(j) /\ Completed(j) => Serves(j)
  BY <1>1 DEF RunInvariant, ServicesAreThere
<1>4. ~Completed(i) /\ \A j : Completed(j)' <=> Completed(j)
  BY <1>1, StepTypes DEF Completed
<1>5. CASE Kind[i] = "environment" /\ run' = Goto("succeed") /\ ran' = ran
  <2>1. CheckpointInvariant'
    BY <1>1, <1>5, SameCheckpointKeeps
  <2>2. ~Supervised(i) /\ ~Foreground(i)
    BY <1>5 DEF Supervised, Foreground
  <2>3. RunInvariant' /\ run' \in Runs
    BY <1>1, <1>5, <2>1, <2>2, TurningKeeps
  <2>4. TypeOK'
    BY <1>1, <1>5, <2>3, TypesKept DEF TypeOK
  <2> QED BY <2>1, <2>3, <2>4
<1>6. CASE Supervised(i) /\ run' = Call("spawn", i, "main") /\ ran' = ran
  <2> DEFINE at == i
  <2>1. CheckpointInvariant'
    BY <1>1, <1>6, SameCheckpointKeeps
  <2>2. /\ at \in Indexes /\ at = disk.step.index /\ Supervised(at) /\ ~IsTracking(at)
        /\ run' = Call("spawn", at, "main")
    BY <1>1, <1>2, <1>4, <1>6
  <2> HIDE DEF at, i
  <2>3. /\ ChangesOnly({"pc", "cur", "ret"}) /\ run'.pc = "spawn" /\ run'.cur = at
        /\ run'.ret = "main"
    BY <1>1, <2>2, CallFields, ProgramFacts
  <2>4. run'.tracked = run.tracked /\ ~Reconciling' /\ Stepping' /\ run'.pc # "succeed"
    BY <2>3 DEF ChangesOnly, Fields, Reconciling, Stepping, Launching
  <2>5. TracksCompleted'
    BY <1>1, <1>2, <1>4, <2>4, SameServices DEF TracksCompleted
  <2>6. ServicesAreThere'
    BY <1>1, <1>3, <1>4, <2>4, SameServices DEF ServicesAreThere, Supervised
  <2>7. RunInvariant' /\ run' \in Runs
    BY <1>1, <1>6, <2>2, <2>5, <2>6, LaunchingKeeps
  <2>8. TypeOK'
    BY <1>1, <1>6, <2>7, TypesKept DEF TypeOK
  <2> QED BY <2>1, <2>7, <2>8
<1>7. CASE Foreground(i) /\ run' = Goto("running") /\ ran' = ran \cup {<<i, disk.step.attempt>>}
  <2>1. CheckpointInvariant' /\ ran' \subseteq Indexes \X Nat /\ \A j : j = i => InRan(j)'
    <3>1. CheckpointInvariant' /\ ran' \subseteq Indexes \X Nat
      BY <1>1, <1>7, ExecutingKeeps
    <3>2. <<i, disk.step.attempt>> \in ran'
      BY <1>7
    <3> QED BY <3>1, <3>2 DEF InRan
  <2>2. ChangesOnly({"pc"}) /\ run'.pc = "running"
    BY <1>1, <1>7, GotoFields, ProgramFacts
  <2>3. /\ run' \in Runs /\ run'.ret = run.ret /\ run'.why = run.why /\ run'.held = run.held
        /\ run'.tracked = run.tracked /\ run'.outcome = run.outcome
    BY <2>2 DEF ChangesOnly, Fields
  <2>4. /\ disk'.processes = disk.processes /\ disk'.terminal = "none"
        /\ disk'.step.phase = "started" /\ disk'.step.index = i
    BY <1>1
  <2>5. RunInvariant'
    BY <1>1, <1>2, <1>3, <1>4, <1>7, <2>1, <2>2, <2>3, <2>4, MovingKeeps
  <2>6. TypeOK'
    BY <1>1, <2>1, <2>3 DEF TypeOK
  <2> QED BY <2>1, <2>5, <2>6
<1> QED BY <1>5, <1>6, <1>7 DEF Execute, Foreground

-----------------------------------------------------------------------------
(* stopAll                                                                 *)

(* While stopAll works, only what its processes are is left to be said.    *)
LEMMA EndingKeeps ==
  ASSUME TypeOK, RunInvariant, run.pc \in {"stop", "shutdown"}, run' \in Runs,
         run'.pc \in {"stop", "shutdown"}, run'.ret = "stop", run'.why = run.why,
         run'.outcome = run.outcome,
         disk'.terminal # "none" => disk.terminal # "none",
         disk'.step = disk.step,
         \A i \in Indexes : disk.processes[i].accepted => disk'.processes[i].accepted,
         TracksOnce', NoticedAreGone', StoppedIsGone', ChildrenAreWithinReach'
  PROVE  RunInvariant'
<1>1. run.outcome = "running" /\ run.why # "none"
  BY DEF RunInvariant, Control
<1>2. SuccessIsEarned'
  BY DEF SuccessIsEarned, RunInvariant, Supervised
<1>3. Control'
  BY <1>1 DEF RunInvariant, Control, Launching, Reconciling, Stepping
<1>4. /\ Place' /\ LaunchIsKnown' /\ TracksCompleted' /\ ServicesAreThere' /\ RunLeavesNoChild'
  BY <1>1 DEF Place, LaunchIsKnown, TracksCompleted, ServicesAreThere, RunLeavesNoChild,
              Launching, Reconciling, Stepping
<1> QED BY <1>2, <1>3, <1>4 DEF RunInvariant

LEMMA AdoptUntrackedPreserves == ASSUME EngineInvariant, AdoptUntracked PROVE EngineInvariant'
<1> USE DEF EngineInvariant
<1> DEFINE least == Min(ToAdopt)
<1>1. /\ run.pc = "stop" /\ run \in Runs /\ disk \in Document /\ run.outcome = "running"
      /\ run.why # "none" /\ run.ret = "stop"
      /\ disk' = disk /\ children' = children /\ ran' = ran /\ boot' = boot
      /\ canceled' = canceled /\ budget' = budget
  BY DEF AdoptUntracked, TypeOK, RunInvariant, Control
<1>2. CheckpointInvariant'
  BY <1>1, SameCheckpointKeeps
<1>3. CASE ToAdopt = {} /\ run' = [Goto("shutdown") EXCEPT !.stopping = FALSE]
  <2>1. /\ run' \in Runs /\ run'.pc = "shutdown" /\ ~run'.stopping
        /\ run'.ret = run.ret /\ run'.why = run.why
        /\ run'.tracked = run.tracked /\ run'.outcome = run.outcome
    <3>1. run' = [run EXCEPT !.pc = "shutdown", !.stopping = FALSE]
      BY <1>3 DEF Goto
    <3> QED BY <1>1, <3>1, ProgramFacts DEF Runs
  <2>2. TracksOnce' /\ NoticedAreGone' /\ StoppedIsGone'
    BY <1>1, <2>1 DEF RunInvariant, TracksOnce, NoticedAreGone, StoppedIsGone, Matches
  <2>3. ASSUME NEW child \in children, child.known
        PROVE  IsTracking(child.step) /\ Tracks(child.step, child.identity)
    <3>1. child.step \in Indexes
      BY <2>3 DEF TypeOK, Child
    <3>2. /\ IsTracking(child.step) => Tracks(child.step, child.identity)
          /\ ~IsTracking(child.step) => Unfinished(run.held[child.step])
      BY <1>1, <2>3 DEF RunInvariant, ChildrenAreWithinReach, HeldAs
    <3>3. Unfinished(disk.processes[child.step])
      BY <2>3 DEF CheckpointInvariant, LiveChildIsRecorded
    <3>4. ~IsTracking(child.step) => ~Unfinished(Given(child.step))
      BY <1>3, <3>1 DEF ToAdopt
    <3> QED BY <3>2, <3>3, <3>4 DEF Given
  <2>4. ChildrenAreWithinReach'
    BY <1>1, <2>1, <2>3 DEF ChildrenAreWithinReach, IsTracking, Tracks
  <2>5. RunInvariant'
    BY <1>1, <2>1, <2>2, <2>4, EndingKeeps
  <2>6. TypeOK'
    BY <1>1, <2>1, TypesKept DEF TypeOK
  <2> QED BY <1>2, <2>5, <2>6
<1>4. CASE ToAdopt # {} /\ run' = Call("resume", least, "stop")
  <2>1. least \in Indexes /\ ~IsTracking(least)
    <3>1. ToAdopt \in SUBSET Nat
      BY StepTypes DEF ToAdopt
    <3>2. least \in ToAdopt
      BY <1>4, <3>1, MinIsLeast
    <3> QED BY <3>2 DEF ToAdopt
  <2> HIDE DEF least
  <2>2. /\ ChangesOnly({"pc", "cur", "ret"}) /\ run'.pc = "resume" /\ run'.cur = least
        /\ run'.ret = "stop"
    BY <1>1, <1>4, <2>1, CallFields, ProgramFacts
  <2>3. /\ run' \in Runs /\ run'.why = run.why /\ run'.held = run.held
        /\ run'.tracked = run.tracked /\ run'.outcome = run.outcome
    BY <2>2 DEF ChangesOnly, Fields
  <2>4. /\ TracksOnce' /\ NoticedAreGone' /\ StoppedIsGone'
        /\ ChildrenAreWithinReach' /\ RunLeavesNoChild'
    BY <1>1, <2>2, <2>3, CarriesOn
  <2>5. ~Reconciling' /\ ~Stepping'
    BY <2>2 DEF Reconciling, Stepping, Launching
  <2>6. TracksCompleted' /\ ServicesAreThere'
    BY <2>2, <2>5 DEF TracksCompleted, ServicesAreThere
  <2>7. Control' /\ SuccessIsEarned'
    BY <1>1, <2>2, <2>3, <2>5
       DEF RunInvariant, Control, SuccessIsEarned, Launching, Supervised
  <2>8. Place' /\ LaunchIsKnown'
    BY <1>1, <2>1, <2>2, <2>3, <2>5, SameServices DEF Place, LaunchIsKnown, Launching
  <2>9. RunInvariant'
    BY <2>4, <2>6, <2>7, <2>8 DEF RunInvariant
  <2>10. TypeOK'
    BY <1>1, <2>3, TypesKept DEF TypeOK
  <2> QED BY <1>2, <2>9, <2>10
<1> QED BY <1>3, <1>4 DEF AdoptUntracked

(* A process is noticed to have ended, or is stopped.                      *)
LEMMA Marked ==
  ASSUME run \in Runs, NEW p \in DOMAIN run.tracked, NEW noticed \in BOOLEAN,
         run'.tracked = [run.tracked EXCEPT ![p] = [@ EXCEPT !.result = noticed]],
         TracksOnce
  PROVE  /\ run'.tracked \in Seq(TrackedProcess)
         /\ run'.tracked # <<>>
         /\ run'.tracked[1].identity = run.tracked[1].identity
         /\ TracksOnce'
         /\ \A i : IsTracking(i)' <=> IsTracking(i)
         /\ \A i, id : Tracks(i, id)' <=> Tracks(i, id)
<1> DEFINE s == run.tracked
           e == [s[p] EXCEPT !.result = noticed]
           r == [s EXCEPT ![p] = e]
<1>1. /\ s \in Seq(TrackedProcess) /\ p \in 1 .. Len(s) /\ DOMAIN s = 1 .. Len(s)
      /\ s[p] \in TrackedProcess
  BY TrackedTypes
<1>2. /\ e \in TrackedProcess /\ e.step = s[p].step /\ e.identity = s[p].identity
      /\ e.result = noticed
  BY <1>1 DEF TrackedProcess
<1> HIDE DEF e
<1>3. /\ r \in Seq(TrackedProcess) /\ Len(r) = Len(s)
      /\ \A k \in 1 .. Len(s) : r[k] = IF k = p THEN e ELSE s[k]
  BY <1>1, <1>2, ExceptSeq
<1>4. run'.tracked = r /\ DOMAIN r = DOMAIN s
  BY <1>1, <1>3 DEF e
<1> HIDE DEF r
<1>5. \A k \in DOMAIN s : /\ r[k].step = s[k].step /\ r[k].identity = s[k].identity
  BY <1>1, <1>2, <1>3
<1>6. r # <<>> /\ 1 \in DOMAIN s
  BY <1>1, <1>3, EmptySeq
<1>7. TracksOnce'
  BY <1>4, <1>5 DEF TracksOnce
<1>8. /\ \A i : IsTracking(i)' <=> IsTracking(i)
      /\ \A i, id : Tracks(i, id)' <=> Tracks(i, id)
  BY <1>4, <1>5 DEF IsTracking, Tracks
<1> QED BY <1>3, <1>4, <1>5, <1>6, <1>7, <1>8

LEMMA MarkedAreGone ==
  ASSUME run \in Runs, NEW p \in DOMAIN run.tracked, NEW noticed \in BOOLEAN,
         run'.tracked = [run.tracked EXCEPT ![p] = [@ EXCEPT !.result = noticed]],
         NoticedAreGone, children' \subseteq children,
         \A child \in children' : noticed => child.identity # run.tracked[p].identity
  PROVE  NoticedAreGone'
<1> DEFINE s == run.tracked
           e == [s[p] EXCEPT !.result = noticed]
<1>1. \A k \in DOMAIN s : s[k] \in TrackedProcess
  BY TrackedTypes
<1>2. e.identity = s[p].identity /\ e.result = noticed
  BY <1>1 DEF TrackedProcess
<1>3. /\ DOMAIN run'.tracked = DOMAIN s
      /\ \A k \in DOMAIN s : run'.tracked[k] = IF k = p THEN e ELSE s[k]
  OBVIOUS
<1> HIDE DEF e
<1> QED BY <1>2, <1>3 DEF NoticedAreGone, Matches

(* The process that shutdown has dealt with leaves the list.               *)
LEMMA LeavingKeeps ==
  ASSUME EngineInvariant, run.pc = "shutdown", run.tracked # <<>>,
         ~Matches(Head(run.tracked).identity),
         run' \in Runs, run'.tracked = Tail(run.tracked), ~run'.stopping,
         run'.pc = "shutdown", run'.ret = "stop", run'.why = run.why,
         run'.outcome = run.outcome,
         disk'.step = disk.step, disk'.terminal = disk.terminal, children' = children,
         \A i \in Indexes : disk.processes[i].accepted => disk'.processes[i].accepted
  PROVE  RunInvariant'
<1> USE DEF EngineInvariant
<1> DEFINE t == run.tracked[1]
<1>1. run \in Runs
  BY DEF TypeOK
<1>2. Loses(1) /\ 1 \in DOMAIN run.tracked /\ Head(run.tracked) = t
  BY <1>1, TailLoses
<1>3. /\ TracksOnce' /\ NoticedAreGone'
      /\ \A j : IsTracking(j)' <=> IsTracking(j) /\ j # t.step
      /\ \A j, id : Tracks(j, id)' <=> Tracks(j, id) /\ j # t.step
  BY <1>1, <1>2, Shrunk DEF RunInvariant
<1>4. ChildrenAreWithinReach'
  <2>1. ASSUME NEW child \in children, child.known
        PROVE  Tracks(child.step, child.identity)' /\ IsTracking(child.step)'
    <3>1. Tracks(child.step, child.identity)
      BY <2>1 DEF RunInvariant, ChildrenAreWithinReach
    <3>2. child.identity # t.identity
      BY <1>2, <2>1 DEF Matches
    <3>3. child.step # t.step
      BY <1>2, <3>1, <3>2 DEF Tracks, RunInvariant, TracksOnce
    <3>4. IsTracking(child.step)
      BY <3>1 DEF Tracks, IsTracking
    <3> QED BY <1>3, <3>1, <3>3, <3>4
  <2> QED BY <2>1 DEF ChildrenAreWithinReach
<1>5. StoppedIsGone'
  BY DEF StoppedIsGone
<1> QED BY <1>3, <1>4, <1>5, EndingKeeps

LEMMA ShutdownPreserves == ASSUME EngineInvariant, Shutdown PROVE EngineInvariant'
<1> USE DEF EngineInvariant
<1> DEFINE t == Head(run.tracked)
           rest == [run EXCEPT !.tracked = Tail(@), !.stopping = FALSE]
<1>1. /\ run.pc = "shutdown" /\ run \in Runs /\ disk \in Document /\ run.tracked # <<>>
      /\ run.ret = "stop" /\ run.outcome = "running"
      /\ ran' = ran /\ boot' = boot /\ canceled' = canceled
  BY DEF Shutdown, TypeOK, RunInvariant, Control
<1>2. /\ 1 \in DOMAIN run.tracked /\ t = run.tracked[1] /\ Tail(run.tracked) \in Seq(TrackedProcess)
      /\ t \in TrackedProcess /\ t.step \in Indexes
  <2>1. 1 \in DOMAIN run.tracked /\ Head(run.tracked) = run.tracked[1]
    <3> DEFINE s == run.tracked
    <3>1. s \in Seq(TrackedProcess) /\ Len(s) \in Nat /\ DOMAIN s = 1 .. Len(s)
      BY <1>1, TrackedTypes, LenProperties
    <3>2. Len(s) # 0
      BY <1>1, <3>1, EmptySeq
    <3> QED BY <1>1, <3>1, <3>2, HeadTailProperties
  <2>2. Tail(run.tracked) \in Seq(TrackedProcess)
    BY <1>1, TrackedTypes, HeadTailProperties
  <2> QED BY <1>1, <2>1, <2>2, TrackedTypes
<1>3. ASSUME NEW outcome \in Outcomes, NEW exit \in {"unknown", "status"}, NEW next \in Runs,
             FinishProcess(t, outcome, exit, next), ~Matches(t.identity), children' = children,
             next.tracked = Tail(run.tracked), ~next.stopping,
             next.pc = "shutdown", next.ret = "stop", next.why = run.why,
             next.outcome = run.outcome
      PROVE  EngineInvariant'
  <2> HIDE DEF t
  <2>1. /\ budget' \in 0 .. MaxDisturbances - boot
        /\ CheckpointInvariant' /\ disk' \in Document
        /\ disk'.step = disk.step /\ disk'.terminal = disk.terminal
        /\ \/ run' = Thrown
           \/ /\ Rerecords(t.step)
              /\ disk'.processes[t.step].accepted = disk.processes[t.step].accepted
              /\ run' = next
    BY <1>1, <1>2, <1>3, FinishingCases
  <2>2. RunInvariant' /\ run' \in Runs
    <3>1. CASE run' = Thrown
      BY <1>1, <1>3, <3>1, ThrownKeeps
    <3>2. CASE /\ Rerecords(t.step)
               /\ disk'.processes[t.step].accepted = disk.processes[t.step].accepted
               /\ run' = next
      <4>1. \A i \in Indexes : disk.processes[i].accepted => disk'.processes[i].accepted
        BY <3>2 DEF Rerecords
      <4> QED BY <1>1, <1>3, <2>1, <3>2, <4>1, LeavingKeeps DEF t
    <3> QED BY <2>1, <3>1, <3>2
  <2>3. TypeOK'
    BY <1>1, <1>3, <2>1, <2>2, TypesKept DEF TypeOK
  <2> QED BY <2>1, <2>2, <2>3
<1>4. CASE /\ t.result /\ ~run.stopping
           /\ FinishProcess(t, "exited-after-acceptance", "status", [rest EXCEPT !.late = TRUE])
           /\ UNCHANGED children
  <2> DEFINE next == [rest EXCEPT !.late = TRUE]
  <2>1. /\ next \in Runs /\ next.tracked = Tail(run.tracked) /\ ~next.stopping
        /\ next.pc = "shutdown" /\ next.ret = "stop" /\ next.why = run.why
        /\ next.outcome = run.outcome
    BY <1>1, <1>2 DEF Runs
  <2>2. ~Matches(t.identity)
    BY <1>2, <1>4 DEF RunInvariant, NoticedAreGone
  <2>3. "exited-after-acceptance" \in Outcomes
    BY DEF Outcomes
  <2> HIDE DEF next
  <2>4. FinishProcess(t, "exited-after-acceptance", "status", next)
    BY <1>4 DEF next
  <2> QED BY <1>3, <1>4, <2>1, <2>2, <2>3, <2>4
<1>5. CASE /\ run.stopping
           /\ FinishProcess(t, "runner-shutdown", IF t.own THEN "status" ELSE "unknown", rest)
           /\ UNCHANGED children
  <2> DEFINE exit == IF t.own THEN "status" ELSE "unknown"
             next == rest
  <2>1. /\ next \in Runs /\ next.tracked = Tail(run.tracked) /\ ~next.stopping
        /\ next.pc = "shutdown" /\ next.ret = "stop" /\ next.why = run.why
        /\ next.outcome = run.outcome
    BY <1>1, <1>2 DEF Runs
  <2>2. ~Matches(t.identity)
    BY <1>1, <1>2, <1>5 DEF RunInvariant, StoppedIsGone
  <2>3. "runner-shutdown" \in Outcomes /\ exit \in {"unknown", "status"}
    BY DEF Outcomes
  <2>4. FinishProcess(t, "runner-shutdown", exit, next)
    BY <1>5
  <2> HIDE DEF exit, next, rest
  <2> QED BY <1>3, <1>5, <2>1, <2>2, <2>3, <2>4
<1>6. CASE /\ ~t.result /\ ~run.stopping
           /\ children' = Without(t.identity)
           /\ run' = [run EXCEPT !.stopping = TRUE, !.tracked[1].result = t.own]
           /\ UNCHANGED <<disk, budget>>
  <2> DEFINE s == run.tracked
             own == t.own
             tr == [s EXCEPT ![1] = [@ EXCEPT !.result = own]]
  <2>1. own \in BOOLEAN
    BY <1>2 DEF TrackedProcess
  <2>2. run' = [run EXCEPT !.stopping = TRUE, !.tracked = tr]
    BY <1>1, <1>6 DEF Runs
  <2> HIDE DEF own
  <2>3. run'.tracked = tr
    BY <1>1, <2>2 DEF Runs
  <2>4. children' \subseteq children /\ \A child \in children' : child.identity # t.identity
    BY <1>6 DEF Without
  <2>5. /\ run'.tracked \in Seq(TrackedProcess) /\ run'.tracked # <<>>
        /\ run'.tracked[1].identity = t.identity
        /\ TracksOnce'
        /\ \A i : IsTracking(i)' <=> IsTracking(i)
        /\ \A i, id : Tracks(i, id)' <=> Tracks(i, id)
    BY <1>1, <1>2, <2>1, <2>3, Marked DEF RunInvariant
  <2>6. NoticedAreGone'
    BY <1>1, <1>2, <2>1, <2>3, <2>4, MarkedAreGone DEF RunInvariant
  <2>7. tr \in Seq(TrackedProcess)
    BY <2>3, <2>5
  <2> HIDE DEF tr
  <2>8. /\ run' \in Runs /\ run'.pc = "shutdown" /\ run'.ret = "stop" /\ run'.why = run.why
        /\ run'.outcome = run.outcome /\ run'.held = run.held
    BY <1>1, <2>2, <2>7 DEF Runs
  <2>9. StoppedIsGone'
    BY <2>4, <2>5 DEF StoppedIsGone, Matches
  <2>10. ChildrenAreWithinReach'
    BY <1>1, <2>4, <2>5, <2>8 DEF RunInvariant, ChildrenAreWithinReach, HeldAs
  <2>11. CheckpointInvariant'
    BY <1>1, <1>6, <2>4, SameCheckpointKeeps
  <2>12. RunInvariant'
    BY <1>1, <1>6, <2>5, <2>6, <2>8, <2>9, <2>10, EndingKeeps
  <2>13. TypeOK'
    BY <1>1, <1>6, <2>4, <2>8, TypesKept DEF TypeOK
  <2> QED BY <2>11, <2>12, <2>13
<1> QED BY <1>4, <1>5, <1>6 DEF Shutdown

LEMMA CompletionPreserves ==
  ASSUME EngineInvariant, NEW k \in DOMAIN run.tracked, Completion(k) PROVE EngineInvariant'
<1> USE DEF EngineInvariant
<1> DEFINE s == run.tracked
           tr == [s EXCEPT ![k] = [@ EXCEPT !.result = TRUE]]
<1>1. /\ run \in Runs /\ disk' = disk /\ children' = children /\ ran' = ran /\ boot' = boot
      /\ canceled' = canceled /\ budget' = budget
      /\ ~Matches(run.tracked[k].identity)
  BY DEF Completion, TypeOK
<1>2. run' = [run EXCEPT !.tracked = tr]
  BY <1>1 DEF Completion, Runs
<1>3. run'.tracked = tr
  BY <1>1, <1>2 DEF Runs
<1>4. /\ run'.tracked \in Seq(TrackedProcess) /\ run'.tracked # <<>>
      /\ run'.tracked[1].identity = run.tracked[1].identity
      /\ TracksOnce'
      /\ \A i : IsTracking(i)' <=> IsTracking(i)
      /\ \A i, id : Tracks(i, id)' <=> Tracks(i, id)
  BY <1>1, <1>3, Marked DEF RunInvariant
<1>5. NoticedAreGone'
  BY <1>1, <1>3, MarkedAreGone DEF RunInvariant, Matches
<1>6. tr \in Seq(TrackedProcess)
  BY <1>3, <1>4
<1> HIDE DEF tr
<1>7. run' \in Runs /\ \A f \in Fields \ {"tracked"} : run'[f] = run[f]
  BY <1>1, <1>2, <1>6 DEF Runs, Fields
<1>8. /\ run'.pc = run.pc /\ run'.cur = run.cur /\ run'.ret = run.ret /\ run'.why = run.why
      /\ run'.stopping = run.stopping /\ run'.child = run.child /\ run'.held = run.held
      /\ run'.outcome = run.outcome
  BY <1>7 DEF Fields
<1>9. run.tracked # <<>>
  BY <1>1, TrackedTypes, EmptySeq
<1>10. /\ Reconciling' <=> Reconciling
       /\ Stepping' <=> Stepping
       /\ \A i : Serves(i)' <=> Serves(i)
       /\ \A i : Completed(i)' <=> Completed(i)
  BY <1>1, <1>4, <1>8 DEF Reconciling, Stepping, Serves, Completed
<1>11. Control' /\ SuccessIsEarned' /\ RunLeavesNoChild'
  BY <1>1, <1>8, <1>9, <1>10 DEF RunInvariant, Control, SuccessIsEarned, RunLeavesNoChild, Supervised
<1>12. Place'
  BY <1>1, <1>8, <1>10 DEF RunInvariant, Place, Foreground, Supervised, InRan
<1>13. StoppedIsGone' /\ ChildrenAreWithinReach'
  BY <1>1, <1>4, <1>8 DEF RunInvariant, StoppedIsGone, ChildrenAreWithinReach, HeldAs, Matches
<1>14. LaunchIsKnown' /\ TracksCompleted' /\ ServicesAreThere'
  BY <1>1, <1>4, <1>8, <1>10
     DEF RunInvariant, LaunchIsKnown, TracksCompleted, ServicesAreThere, Supervised
<1>15. CheckpointInvariant'
  BY <1>1, SameCheckpointKeeps
<1>16. TypeOK'
  BY <1>1, <1>7, TypesKept DEF TypeOK
<1> QED BY <1>4, <1>5, <1>11, <1>12, <1>13, <1>14, <1>15, <1>16 DEF RunInvariant

LEMMA MarkTerminalPreserves == ASSUME EngineInvariant, MarkTerminal PROVE EngineInvariant'
<1> USE DEF EngineInvariant
<1>1. /\ run.pc = "shutdown" /\ run \in Runs /\ disk \in Document /\ run.tracked = <<>>
      /\ children' = children /\ ran' = ran /\ boot' = boot /\ canceled' = canceled
  BY DEF MarkTerminal, Stopped, TypeOK
<1>2. \A child \in children : ~child.known
  BY <1>1 DEF RunInvariant, ChildrenAreWithinReach, Tracks
<1>3. CASE run.why = "succeed" /\ run' = StopAll("fail") /\ UNCHANGED <<disk, budget>>
  <2>1. disk'.terminal = "none"
    BY <1>1, <1>3 DEF RunInvariant, Control
  <2>2. CheckpointInvariant'
    BY <1>1, <1>3, SameCheckpointKeeps
  <2>3. RunInvariant' /\ run' \in Runs
    BY <1>1, <1>3, <2>1, FailingKeeps
  <2>4. TypeOK'
    BY <1>1, <1>3, <2>3, TypesKept DEF TypeOK
  <2> QED BY <2>2, <2>3, <2>4
<1>4. ASSUME NEW terminal \in {"succeeded", "failed"}, NEW allowed,
             Store(allowed, [disk EXCEPT !.terminal = terminal], Ended(terminal)),
             terminal = "succeeded" => run.why = "succeed"
      PROVE  EngineInvariant'
  <2> DEFINE document == [disk EXCEPT !.terminal = terminal]
             next == Ended(terminal)
  <2>1. /\ budget' \in 0 .. MaxDisturbances - boot
        /\ \/ disk' = disk /\ run' = Thrown
           \/ Schema(document) /\ disk' = document /\ (run' = next \/ run' = Thrown)
    <3> HIDE DEF document, next
    <3> QED BY <1>4, StoreCases DEF document, next
  <2>2. CASE disk' = disk /\ run' = Thrown
    BY <1>1, <2>1, <2>2, SameCheckpointKeeps, ThrownKeeps, TypesKept DEF TypeOK
  <2>3. CASE Schema(document) /\ disk' = document /\ (run' = next \/ run' = Thrown)
    <3>1. terminal = "succeeded" =>
            /\ disk.step.phase = "succeeded" /\ disk.step.index + 1 = StepCount
            /\ \A i \in Indexes : Supervised(i) => disk.processes[i].accepted
      BY <1>4 DEF RunInvariant, SuccessIsEarned
    <3>2. CheckpointInvariant' /\ disk' \in Document
      BY <1>1, <2>3, <3>1, TerminalKeeps
    <3>3. RunInvariant' /\ run' \in Runs
      <4>1. CASE run' = Thrown
        BY <1>1, <4>1, ThrownKeeps
      <4>2. CASE run' = Ended(terminal)
        BY <1>1, <1>2, <4>2, EndedKeeps
      <4> QED BY <2>3, <4>1, <4>2
    <3>4. TypeOK'
      BY <1>1, <2>1, <3>2, <3>3, TypesKept DEF TypeOK
    <3> QED BY <3>2, <3>3, <3>4
  <2> QED BY <2>1, <2>2, <2>3
<1>5. CASE run.why = "succeed" /\ Store(SuccessAllowed(disk), SuccessResult(disk), Ended("succeeded"))
  BY <1>4, <1>5 DEF SuccessResult
<1>6. CASE Store(FailureAllowed(disk, "failed"), FailureResult(disk, "failed"), Ended("failed"))
  BY <1>4, <1>6 DEF FailureResult
<1> QED BY <1>3, <1>5, <1>6 DEF MarkTerminal

LEMMA RethrowPreserves == ASSUME EngineInvariant, Rethrow PROVE EngineInvariant'
<1> USE DEF EngineInvariant
<1>1. /\ run.pc = "shutdown" /\ run.tracked = <<>>
      /\ disk' = disk /\ children' = children /\ ran' = ran /\ boot' = boot
      /\ canceled' = canceled /\ budget' = budget
      /\ run' = Ended("interrupted") \/ run' = Ended("error")
  BY DEF Rethrow, Stopped
<1>2. \A child \in children' : ~child.known
  BY <1>1 DEF RunInvariant, ChildrenAreWithinReach, Tracks
<1>3. CheckpointInvariant'
  BY <1>1, SameCheckpointKeeps
<1>4. RunInvariant' /\ run' \in Runs
  BY <1>1, <1>2, EndedKeeps
<1>5. TypeOK'
  BY <1>1, <1>4, TypesKept DEF TypeOK
<1> QED BY <1>3, <1>4, <1>5

-----------------------------------------------------------------------------
(* The environment                                                         *)

LEMMA UndisturbedKeeps ==
  ASSUME EngineInvariant, UNCHANGED <<disk, run, boot, ran>>, children' \subseteq children,
         canceled' \in BOOLEAN, budget' \in 0 .. MaxDisturbances - boot
  PROVE  EngineInvariant'
<1> USE DEF EngineInvariant
<1>1. CheckpointInvariant'
  BY SameCheckpointKeeps
<1>2. TypeOK'
  BY TypesKept DEF TypeOK
<1>3. Control' /\ SuccessIsEarned' /\ TracksOnce' /\ TracksCompleted'
  BY DEF RunInvariant, Control, SuccessIsEarned, TracksOnce, TracksCompleted,
         Reconciling, Stepping, Completed, IsTracking, Supervised
<1>4. Place'
  BY DEF RunInvariant, Place, Stepping, Completed, Foreground, Supervised, InRan
<1>5. NoticedAreGone' /\ StoppedIsGone' /\ LaunchIsKnown' /\ RunLeavesNoChild'
  BY DEF RunInvariant, NoticedAreGone, StoppedIsGone, LaunchIsKnown, RunLeavesNoChild,
         Matches, IsTracking
<1>6. ServicesAreThere'
  BY DEF RunInvariant, ServicesAreThere, Serves, Tracks, Reconciling, Stepping, Completed, Supervised
<1>7. ChildrenAreWithinReach'
  BY DEF RunInvariant, ChildrenAreWithinReach, HeldAs, IsTracking, Tracks
<1> QED BY <1>1, <1>2, <1>3, <1>4, <1>5, <1>6, <1>7 DEF RunInvariant

LEMMA HostFailurePreserves == ASSUME EngineInvariant, HostFailure PROVE EngineInvariant'
<1> USE DEF EngineInvariant
<1>1. /\ run.pc # "off" /\ run' = Thrown
      /\ disk' = disk /\ children' = children /\ ran' = ran /\ boot' = boot /\ canceled' = canceled
  BY DEF HostFailure
<1>2. budget' \in 0 .. MaxDisturbances - boot
  BY DisturbedBudget DEF HostFailure
<1>3. CheckpointInvariant'
  BY <1>1, SameCheckpointKeeps
<1>4. RunInvariant' /\ run' \in Runs
  BY <1>1, ThrownKeeps
<1>5. TypeOK'
  BY <1>1, <1>2, <1>4, TypesKept DEF TypeOK
<1> QED BY <1>3, <1>4, <1>5

LEMMA CrashPreserves == ASSUME EngineInvariant, Crash PROVE EngineInvariant'
<1> USE DEF EngineInvariant
<1>1. /\ run' = Ended("crashed") /\ children' \subseteq children
      /\ disk' = disk /\ ran' = ran /\ boot' = boot /\ canceled' = FALSE
  BY DEF Crash
<1>2. budget' \in 0 .. MaxDisturbances - boot
  BY DisturbedBudget DEF Crash
<1>3. CheckpointInvariant'
  BY <1>1, SameCheckpointKeeps
<1>4. RunInvariant' /\ run' \in Runs
  BY <1>1, EndedKeeps
<1>5. TypeOK'
  BY <1>1, <1>2, <1>4, TypesKept DEF TypeOK
<1> QED BY <1>3, <1>4, <1>5

LEMMA RebootPreserves == ASSUME EngineInvariant, Reboot PROVE EngineInvariant'
<1> USE DEF EngineInvariant
<1>1. /\ run' = Ended("crashed") /\ children' = {}
      /\ disk' = disk /\ ran' = ran /\ boot' = boot + 1 /\ canceled' = FALSE
  BY DEF Reboot
<1>2. budget' \in 0 .. MaxDisturbances - (boot + 1) /\ boot + 1 \in 0 .. MaxDisturbances
  BY DisturbedBudget DEF Reboot
<1>3. CheckpointInvariant'
  BY <1>1, SameCheckpointKeeps
<1>4. RunInvariant' /\ run' \in Runs
  BY <1>1, EndedKeeps
<1>5. TypeOK'
  BY <1>1, <1>2, <1>4 DEF TypeOK
<1> QED BY <1>3, <1>4, <1>5

-----------------------------------------------------------------------------
(* The theorems                                                            *)

LEMMA InitEstablishes == Init => EngineInvariant
<1> SUFFICES ASSUME Init PROVE EngineInvariant
  OBVIOUS
<1>1. disk \in Document /\ run \in Runs /\ run.pc = "off" /\ run.outcome = "none"
      /\ run.tracked = <<>> /\ run.why = "none"
  BY InitialProcesses, EndedFields DEF Init
<1>2. TypeOK
  <2>1. boot = 0 /\ budget = MaxDisturbances /\ children = {} /\ ran = {} /\ canceled = FALSE
    BY DEF Init
  <2>2. 0 \in 0 .. MaxDisturbances /\ MaxDisturbances \in 0 .. MaxDisturbances - 0
    BY PlanAssumption
  <2>3. canceled \in BOOLEAN
    BY <2>1
  <2>4. children \subseteq Child /\ ran \subseteq Indexes \X Nat
    BY <2>1
  <2>5. boot \in 0 .. MaxDisturbances /\ budget \in 0 .. MaxDisturbances - boot
    BY <2>1, <2>2
  <2> QED BY <1>1, <2>3, <2>4, <2>5 DEF TypeOK
<1>3. /\ disk.step.phase = "none" /\ disk.step.index = 0 /\ disk.terminal = "none"
      /\ \A i \in Indexes : disk.processes[i].phase = "none"
  BY DEF Init, InitialCheckpoint, NoStep, NoProcess
<1>4. \A i \in Indexes : ~Completed(i)
  BY <1>2, <1>3, StepTypes DEF Completed, Indexes
<1>5. CheckpointInvariant
  BY <1>3, <1>4 DEF Init, CheckpointInvariant, CheckpointIsRecoverable, FindRecoveryConflict,
     ProcessesAreSettled, RanIsRecorded, SuccessSkipsNothing, LiveChildIsRecorded, Unfinished
<1>6. Control /\ Place /\ SuccessIsEarned
  BY <1>1, <1>3 DEF Control, Place, SuccessIsEarned, Launching, Reconciling, Stepping
<1>7. TracksOnce /\ NoticedAreGone /\ StoppedIsGone /\ LaunchIsKnown /\ TracksCompleted
  BY <1>1 DEF TracksOnce, NoticedAreGone, StoppedIsGone, LaunchIsKnown, TracksCompleted, IsTracking
<1>8. ServicesAreThere /\ ChildrenAreWithinReach /\ RunLeavesNoChild
  BY <1>1 DEF ServicesAreThere, ChildrenAreWithinReach, RunLeavesNoChild,
     Launching, Reconciling, Stepping
<1> QED BY <1>2, <1>5, <1>6, <1>7, <1>8 DEF EngineInvariant, RunInvariant

LEMMA NextPreserves == EngineInvariant /\ [Next]_vars => EngineInvariant'
<1> SUFFICES ASSUME EngineInvariant, [Next]_vars PROVE EngineInvariant'
  OBVIOUS
<1>1. ASSUME Runner
      PROVE  EngineInvariant'
  BY <1>1, InitializePreserves, ReconcileCompletedPreserves, ResumePreserves, SpawnPreserves,
     RegisterPreserves, AcceptanceWindowPreserves, LoopPreserves, ExecutePreserves,
     ReturnForegroundPreserves, ReturnManualPreserves, SecretInstallerPreserves,
     SucceedStepPreserves, RecordFailurePreserves, AdoptUntrackedPreserves, ShutdownPreserves,
     MarkTerminalPreserves, RethrowPreserves DEF Runner
<1>2. ASSUME NEW child \in children, Exit(child)
      PROVE  EngineInvariant'
  <2>1. children' \subseteq children /\ canceled' \in BOOLEAN /\ budget' \in 0 .. MaxDisturbances - boot
    BY <1>2 DEF Exit, EngineInvariant, TypeOK
  <2> QED BY <1>2, <2>1, UndisturbedKeeps DEF Exit
<1>3. ASSUME Cancel
      PROVE  EngineInvariant'
  <2>1. budget' \in 0 .. MaxDisturbances - boot
    BY <1>3, DisturbedBudget DEF Cancel, EngineInvariant
  <2> QED BY <1>3, <2>1, UndisturbedKeeps DEF Cancel
<1>4. ASSUME UNCHANGED vars
      PROVE  EngineInvariant'
  <2>1. canceled' \in BOOLEAN /\ budget' \in 0 .. MaxDisturbances - boot
    BY <1>4 DEF vars, EngineInvariant, TypeOK
  <2> QED BY <1>4, <2>1, UndisturbedKeeps DEF vars
<1> QED BY <1>1, <1>2, <1>3, <1>4, StartPreserves, CompletionPreserves, HostFailurePreserves,
           CrashPreserves, RebootPreserves DEF Next

(* The invariant that every theorem below rests on holds in every state a  *)
(* runner, its crashes, reboots and failed writes can reach.               *)
THEOREM EngineInvariance == Spec => []EngineInvariant
<1>1. Init => EngineInvariant
  BY InitEstablishes
<1>2. EngineInvariant /\ [Next]_vars => EngineInvariant'
  BY NextPreserves
<1> QED BY <1>1, <1>2, PTL DEF Spec

(* The document, the runner process and the children keep their shape, and *)
(* the budget of disturbances is never overdrawn.                          *)
THEOREM TypeCorrectness == Spec => []TypeOK
<1>1. EngineInvariant => TypeOK
  BY DEF EngineInvariant
<1> QED BY <1>1, EngineInvariance, PTL

(* While a step executes, the process of every completed fire-and-forget   *)
(* step was adopted or relaunched by this very run, and is the registered  *)
(* one (reconcileCompleted, #resumeStartedFireAndForget).                  *)
THEOREM ServicesSupervision == Spec => []ServicesAreSupervised
<1>1. ASSUME EngineInvariant
      PROVE  ServicesAreSupervised
  <2>1. SUFFICES ASSUME run.pc \in {"exec", "running"}, NEW i \in Indexes, Completed(i), Supervised(i)
                 PROVE  /\ IsTracking(i)
                        /\ Tracked(i).identity = disk.processes[i].identity
                        /\ disk.processes[i].phase = "accepted"
    BY DEF ServicesAreSupervised
  <2>2. Serves(i)
    BY <1>1, <2>1 DEF EngineInvariant, RunInvariant, ServicesAreThere, Stepping
  <2>3. PICK k \in DOMAIN run.tracked :
          run.tracked[k].step = i /\ run.tracked[k].identity = disk.processes[i].identity
    BY <2>2 DEF Serves, Tracks
  <2>4. IsTracking(i)
    BY <2>3 DEF IsTracking
  <2>5. Position(i) = k
    <3>1. Position(i) \in DOMAIN run.tracked /\ run.tracked[Position(i)].step = i
      BY <2>4, FoundPosition DEF Tracked
    <3> QED BY <1>1, <2>3, <3>1 DEF EngineInvariant, RunInvariant, TracksOnce
  <2> QED BY <2>2, <2>3, <2>4, <2>5 DEF Serves, Tracked
<1> QED BY <1>1, EngineInvariance, PTL

(* A registered process that is alive is the one its step's record names,  *)
(* and that record is not finished: launch, resume, shutdown and stopAll   *)
(* never lose one, whatever fails or crashes between their steps.          *)
THEOREM LiveChildrenRecorded == Spec => []LiveChildIsRecorded
<1>1. EngineInvariant => LiveChildIsRecorded
  BY DEF EngineInvariant, CheckpointInvariant
<1> QED BY <1>1, EngineInvariance, PTL

(* A run that returns, or reports its interruption, has stopped every      *)
(* process that was ever registered, its own or an earlier run's.          *)
THEOREM NoChildLeft == Spec => []RunLeavesNoChild
<1>1. EngineInvariant => RunLeavesNoChild
  BY DEF EngineInvariant, RunInvariant
<1> QED BY <1>1, EngineInvariance, PTL

(* No crash, cancellation or failed write leaves a checkpoint that         *)
(* findRecoveryConflict refuses, or one without the record of a completed  *)
(* fire-and-forget step.                                                   *)
THEOREM CheckpointRecovery == Spec => []CheckpointIsRecoverable
<1>1. EngineInvariant => CheckpointIsRecoverable
  BY DEF EngineInvariant, CheckpointInvariant
<1> QED BY <1>1, EngineInvariance, PTL

(* A plan that succeeded has started every foreground step's command, and  *)
(* accepted every fire-and-forget step's process (nextPendingStep, #run).  *)
THEOREM NothingSkipped == Spec => []SuccessSkipsNothing
<1>1. EngineInvariant => SuccessSkipsNothing
  BY DEF EngineInvariant, CheckpointInvariant
<1> QED BY <1>1, EngineInvariance, PTL

-----------------------------------------------------------------------------
(* What no step does                                                       *)

(* The step's own record changes only where the loop starts an attempt and *)
(* where an attempt is settled.                                            *)
LEMMA StoreOrSame ==
  ASSUME NEW allowed, NEW document, NEW next, Store(allowed, document, next)
  PROVE  disk' = disk \/ disk' = document
BY DEF Store

LEMMA StepIsKept ==
  ASSUME TypeOK,
         \/ Resume \/ Register \/ AcceptanceWindow \/ SecretInstaller \/ Shutdown \/ MarkTerminal
  PROVE  disk'.step = disk.step
<1> USE DEF TypeOK, Document
<1>1. \A i, outcome, exit : FinishResult(disk, i, outcome, exit).step = disk.step
  BY DEF FinishResult
<1>2. \A i, generation, identity : RegisterResult(disk, i, generation, identity).step = disk.step
  BY DEF RegisterResult
<1>3. \A i : AcceptResult(disk, i).step = disk.step
  BY DEF AcceptResult
<1>4. \A target : SecretResult(disk, target).step = disk.step
  BY DEF SecretResult
<1>5. SuccessResult(disk).step = disk.step /\ FailureResult(disk, "failed").step = disk.step
  BY DEF SuccessResult, FailureResult
<1>6. ASSUME NEW t, NEW outcome, NEW exit, NEW next, FinishProcess(t, outcome, exit, next)
      PROVE  disk'.step = disk.step
  <2>1. disk' = disk \/ disk' = Finished(t, outcome, exit)
    BY <1>6, StoreOrSame DEF FinishProcess
  <2> QED BY <2>1, <1>1 DEF Finished
<1>7. CASE Resume \/ Shutdown
  BY <1>6, <1>7 DEF Resume, Shutdown
<1>8. CASE Register
  <2> DEFINE generation == disk.processes[run.cur].generation + 1
             document == RegisterResult(disk, run.cur, generation, run.child)
  <2>1. disk' = disk \/ Store(RegisterAllowed(disk, run.cur, generation), document,
                             Track(Goto("window"), run.cur, run.child, TRUE))
    BY <1>8 DEF Register
  <2>2. disk' = disk \/ disk' = document
    BY <2>1, StoreOrSame
  <2> QED BY <2>2, <1>2
<1>9. CASE AcceptanceWindow
  BY <1>3, <1>6, <1>9, StoreOrSame DEF AcceptanceWindow
<1>10. CASE SecretInstaller
  BY <1>4, <1>10 DEF SecretInstaller
<1>11. CASE MarkTerminal
  BY <1>5, <1>11, StoreOrSame DEF MarkTerminal
<1> QED BY <1>7, <1>8, <1>9, <1>10, <1>11

(* No attempt is recorded beyond those of its step (sequencing.ts).        *)
WithinAttempts ==
  disk.step.phase # "none" => disk.step.attempt <= MaxAttemptsForStep(disk.step.index)

LEMMA SettlingKeepsAttempts ==
  ASSUME WithinAttempts, EngineInvariant,
         NEW phase \in {"succeeded", "failed"}, NEW next, CheckpointStep(phase, next),
         disk.step.phase = "started"
  PROVE  WithinAttempts'
<1>1. CASE disk' = disk
  BY <1>1 DEF WithinAttempts
<1>2. ASSUME NEW target \in StepTarget, target.index = disk.step.index,
             target.attempt = disk.step.attempt, disk' = Checkpointed(phase), Steps(target)
      PROVE  WithinAttempts'
  <2>1. disk'.step.index = disk.step.index /\ disk'.step.attempt = disk.step.attempt
    BY <1>2 DEF Steps
  <2> QED BY <2>1 DEF WithinAttempts
<1>3. TypeOK
  BY DEF EngineInvariant
<1> QED BY <1>1, <1>2, <1>3, CheckpointStepCases

LEMMA StartingKeepsAttempts ==
  ASSUME WithinAttempts, TypeOK, Loop
  PROVE  WithinAttempts'
<1> DEFINE pending == NextPendingStep
           target == [index |-> pending.index, attempt |-> pending.attempt, phase |-> "started"]
<1>1. disk'.step = disk.step \/ (disk' = StepResult(disk, target) /\ pending.attempt # 0 /\ pending.fresh)
  <2>1. \A i, outcome, exit : FinishResult(disk, i, outcome, exit).step = disk.step
    BY DEF FinishResult, TypeOK, Document
  <2>2. ASSUME NEW t, NEW outcome, NEW exit, NEW next, FinishProcess(t, outcome, exit, next)
        PROVE  disk'.step = disk.step
    <3>1. disk' = disk \/ disk' = Finished(t, outcome, exit)
      BY <2>2, StoreOrSame DEF FinishProcess
    <3> QED BY <3>1, <2>1 DEF Finished
  <2> QED BY <2>2, StoreOrSame DEF Loop
<1>2. CASE disk'.step = disk.step
  BY <1>2 DEF WithinAttempts
<1>3. CASE disk' = StepResult(disk, target) /\ pending.attempt # 0 /\ pending.fresh
  <2>1. disk'.step = target
    BY <1>3 DEF StepResult, TypeOK, Document
  <2>2. /\ disk.step.attempt \in Nat
        /\ MaxAttemptsForStep(disk.step.index) \in Nat \ {0}
        /\ MaxAttemptsForStep(pending.index) \in Nat \ {0}
    BY PlanAssumption DEF TypeOK, Document, StepTarget, NoStep, MaxAttemptsForStep
  <2>3. \/ pending.attempt = 1
        \/ /\ disk.step.phase = "failed" /\ disk.step.attempt < MaxAttemptsForStep(disk.step.index)
           /\ pending.index = disk.step.index /\ pending.attempt = disk.step.attempt + 1
    BY <1>3, <2>2 DEF NextPendingStep, Pending, Exhausted, Complete, TypeOK, Document, StepTarget,
       NoStep, StepPhases
  <2> HIDE DEF pending
  <2>4. disk'.step.attempt = pending.attempt /\ disk'.step.index = pending.index
    BY <2>1
  <2>5. pending.attempt <= MaxAttemptsForStep(pending.index)
    BY <2>2, <2>3
  <2> QED BY <2>4, <2>5 DEF WithinAttempts, MaxAttemptsForStep, Supervised
<1> QED BY <1>1, <1>2, <1>3

LEMMA AttemptsKept == EngineInvariant /\ WithinAttempts /\ [Next]_vars => WithinAttempts'
<1> SUFFICES ASSUME EngineInvariant, WithinAttempts, [Next]_vars PROVE WithinAttempts'
  OBVIOUS
<1>1. TypeOK /\ (Stepping /\ run.pc # "loop" => disk.step.phase = "started")
  BY DEF EngineInvariant, RunInvariant, Place
<1>2. CASE disk'.step = disk.step
  BY <1>2 DEF WithinAttempts
<1>3. CASE Loop
  BY <1>1, <1>3, StartingKeepsAttempts
<1>4. CASE SucceedStep \/ RecordFailure \/ ReturnManual
  <2>1. disk.step.phase = "started"
    BY <1>1, <1>4 DEF SucceedStep, RecordFailure, ReturnManual, Stepping
  <2>2. \/ UNCHANGED disk
        \/ \E phase \in {"succeeded", "failed"} : \E next : CheckpointStep(phase, next)
    BY <1>4 DEF SucceedStep, RecordFailure, ReturnManual
  <2> QED BY <2>1, <2>2, <1>2, SettlingKeepsAttempts
<1>5. CASE \/ Resume \/ Register \/ AcceptanceWindow \/ SecretInstaller \/ Shutdown \/ MarkTerminal
  BY <1>1, <1>2, <1>5, StepIsKept
<1>6. CASE \/ Initialize \/ ReconcileCompleted \/ Spawn \/ Execute \/ ReturnForeground
           \/ AdoptUntracked \/ Rethrow
  BY <1>2, <1>6 DEF Initialize, ReconcileCompleted, Spawn, Execute, ReturnForeground,
                   AdoptUntracked, Rethrow
<1>7. CASE \/ Start \/ (\E child \in children : Exit(child))
           \/ (\E k \in DOMAIN run.tracked : Completion(k))
           \/ HostFailure \/ Cancel \/ Crash \/ Reboot \/ UNCHANGED vars
  BY <1>2, <1>7 DEF Start, Exit, Completion, HostFailure, Cancel, Crash, Reboot, vars
<1> QED BY <1>3, <1>4, <1>5, <1>6, <1>7 DEF Next, Runner

(* No attempt is ever recorded beyond those its step has: the limits of    *)
(* sequencing.ts hold over every failure, retry, crash and restart.        *)
THEOREM AttemptsBounded == Spec => []WithinAttempts
<1>1. Init => WithinAttempts
  BY DEF Init, InitialCheckpoint, NoStep, WithinAttempts
<1> QED BY <1>1, AttemptsKept, EngineInvariance, PTL DEF Spec

(* A command is started under an attempt it never ran in, of the step the  *)
(* checkpoint says is started, with none of a later step ever started.     *)
THEOREM SingleExecution == Spec => ExecutesOnce
<1> DEFINE Once == run.pc = "exec" /\ run'.pc = "running" =>
                     /\ Kind[disk.step.index] \in {"automatic", "provider"} =>
                          <<disk.step.index, disk.step.attempt>> \notin ran
                     /\ disk.step.attempt <= MaxAttemptsForStep(disk.step.index)
                     /\ \A attempt \in ran : attempt[1] <= disk.step.index
                     /\ disk.step.phase = "started"
<1>1. EngineInvariant /\ WithinAttempts => Once
  BY DEF EngineInvariant, CheckpointInvariant, RunInvariant, RanIsRecorded, Place, Stepping,
         WithinAttempts
<1> QED BY <1>1, EngineInvariance, AttemptsBounded, PTL DEF ExecutesOnce

(* A store call whose event a terminal checkpoint refuses writes nothing.  *)
LEMMA RefusedWrites ==
  ASSUME NEW allowed, NEW document, NEW next, Store(allowed, document, next), ~allowed
  PROVE  disk' = disk
BY DEF Store

LEMMA RefusedFinish ==
  ASSUME disk.terminal # "none", NEW t, NEW outcome, NEW exit, NEW next,
         FinishProcess(t, outcome, exit, next)
  PROVE  disk' = disk
<1> DEFINE allowed == FinishAllowed(disk, t.step, disk.processes[t.step].generation, t.identity,
                                    outcome, exit)
           document == Finished(t, outcome, exit)
<1>1. ~allowed
  BY DEF FinishAllowed
<1>2. Store(allowed, document, next)
  BY DEF FinishProcess
<1> HIDE DEF allowed, document
<1> QED BY <1>1, <1>2, RefusedWrites

(* Behind a terminal checkpoint the runner is starting, or stopping what   *)
(* an exception left.                                                      *)
LEMMA TerminalPlace ==
  ASSUME EngineInvariant, disk.terminal # "none"
  PROVE  /\ run.pc \in {"off", "start", "resume", "window", "stop", "shutdown"}
         /\ run.pc \notin {"off", "start"} => run.why = "throw"
<1>1. run.pc \in Programs /\ run.ret \in {"main", "started", "reconcile", "stop"}
  BY DEF EngineInvariant, TypeOK, Runs
<1>2. run.pc \in {"off", "start"} \/ run.why = "throw"
  BY DEF EngineInvariant, RunInvariant, Control
<1>3. CASE run.pc \notin {"off", "start"}
  <2>1. ~Reconciling /\ ~Stepping
    BY <1>2, <1>3 DEF EngineInvariant, RunInvariant, Control
  <2>2. run.pc \in Launching => run.ret = "stop"
    BY <1>1, <2>1 DEF Reconciling, Stepping
  <2>3. run.pc \notin {"spawn", "register"}
    BY <2>2 DEF EngineInvariant, RunInvariant, Control, Launching
  <2> QED BY <1>1, <1>2, <1>3, <2>1, <2>3 DEF Programs, Reconciling, Stepping
<1> QED BY <1>2, <1>3

(* Nothing a later run does touches a terminal checkpoint, and no process  *)
(* is started behind one.                                                  *)
THEOREM TerminalFinality == Spec => TerminalIsFinal
<1> DEFINE Final == disk.terminal # "none" => disk' = disk /\ children' \subseteq children
<1>1. ASSUME EngineInvariant, Next
      PROVE  Final
  <2> SUFFICES ASSUME disk.terminal # "none"
               PROVE  disk' = disk /\ children' \subseteq children
    OBVIOUS
  <2>1. /\ run.pc \in {"off", "start", "resume", "window", "stop", "shutdown"}
        /\ run.pc \notin {"off", "start"} => run.why = "throw"
    BY <1>1, TerminalPlace
  <2>2. ~(Spawn \/ Register \/ Loop \/ Execute \/ ReturnForeground \/ ReturnManual
          \/ SecretInstaller \/ SucceedStep \/ RecordFailure)
    BY <2>1 DEF Spawn, Register, Loop, Execute, ReturnForeground, ReturnManual,
       SecretInstaller, SucceedStep, RecordFailure
  <2>3. ~MarkTerminal
    BY <2>1 DEF MarkTerminal, Stopped
  <2>4. CASE Start \/ Initialize \/ ReconcileCompleted \/ AdoptUntracked \/ Rethrow
             \/ HostFailure \/ Cancel \/ (\E k \in DOMAIN run.tracked : Completion(k))
    BY <2>4 DEF Start, Initialize, ReconcileCompleted, AdoptUntracked, Rethrow, HostFailure,
       Cancel, Completion
  <2>5. CASE Resume
    <3>1. children' = children
      BY <2>5 DEF Resume
    <3> QED BY <2>5, <3>1, RefusedFinish DEF Resume
  <2>6. CASE AcceptanceWindow
    <3> DEFINE document == AcceptResult(disk, run.cur)
               next == OnAccepted(run, document)
               allowed == AcceptAllowed(disk, run.cur, disk.processes[run.cur].generation,
                                        Tracked(run.cur).identity)
    <3>1. children' = children
      BY <2>6 DEF AcceptanceWindow
    <3>2. ~allowed
      BY DEF AcceptAllowed
    <3>3. \/ disk' = disk
          \/ \E outcome, exit, to : FinishProcess(Tracked(run.cur), outcome, exit, to)
          \/ Store(allowed, document, next)
      BY <2>6 DEF AcceptanceWindow
    <3> HIDE DEF allowed, document, next
    <3> QED BY <3>1, <3>2, <3>3, RefusedFinish, RefusedWrites
  <2>7. CASE Shutdown
    <3>1. children' \subseteq children
      BY <2>7 DEF Shutdown, Without
    <3> QED BY <2>7, <3>1, RefusedFinish DEF Shutdown
  <2>8. CASE \E child \in children : Exit(child)
    BY <2>8 DEF Exit
  <2>9. CASE Crash \/ Reboot
    BY <2>9 DEF Crash, Reboot
  <2> QED BY <1>1, <2>2, <2>3, <2>4, <2>5, <2>6, <2>7, <2>8, <2>9 DEF Next, Runner
<1>2. ASSUME UNCHANGED vars
      PROVE  Final
  BY <1>2 DEF vars
<1>3. EngineInvariant /\ [Next]_vars => [Final]_vars
  BY <1>1
<1> QED BY <1>3, EngineInvariance, PTL DEF Spec, TerminalIsFinal
=============================================================================
