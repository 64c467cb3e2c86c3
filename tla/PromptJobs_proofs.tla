------------------------- MODULE PromptJobs_proofs -------------------------
(***************************************************************************)
(* Proofs about scheduled prompt jobs, for any jobs, groups, commands of   *)
(* the administrator, runs, faults and disturbances: first the runs,       *)
(* whatever the commands do; then the commands, whatever the runs do, with *)
(* the history variables of MCPromptJobs.                                  *)
(***************************************************************************)
EXTENDS MCPromptJobs, TLAPS

Ended == {0, 70, 71}

(* A run-locked runs under a "run" that waits for it, with the group's     *)
(* lock, and has no exit status yet.                                       *)
Supervised(j) ==
  inner[j] # "none" =>
    /\ outer[j] \in {"wait", "stop", "halt"} /\ lock[GroupOf[j]] = j /\ innerExit[j] = 0

(* Codex runs only once run-locked has come to run it.                     *)
Ordered(j) ==
  /\ outer[j] \in {"load", "lock"} => innerExit[j] = 0 /\ codex[j] = "none"
  /\ inner[j] = "load" \/ innerExit[j] = 75 => codex[j] = "none"
  /\ inner[j] \in {"run", "stop"} => codex[j] # "none"
  /\ unit[j] = "idle" => outer[j] = "none" /\ inner[j] = "none" /\ codex[j] # "running"

(* What run-locked is about to record is true, and its exit says so.       *)
InnerTells(j) ==
  /\ inner[j] \in {"status", "log"} =>
       /\ result[j].inner \in {"passed", "failed", "timed-out"}
       /\ result[j].inner = "passed" => codex[j] = "passed"
       /\ codex[j] \in {"passed", "failed"}
  /\ inner[j] = "log" => last[j] = [run |-> run[j], result |-> result[j].inner]
  /\ outer[j] = "wait" /\ inner[j] = "none" /\ innerExit[j] \in Ended =>
       /\ last[j].run = run[j] /\ ExitCode(last[j].result) = innerExit[j]
       /\ last[j].result # "skipped-overlap"
       /\ last[j].result = "passed" => codex[j] = "passed"

(* And so is what "run" is about to record.                                *)
OuterTells(j) ==
  /\ outer[j] \in {"status", "log"} =>
       /\ result[j].outer \in {"failed", "timed-out", "skipped-overlap"}
       /\ result[j].outer = "skipped-overlap" => codex[j] = "none"
  /\ outer[j] = "log" => last[j] = [run |-> run[j], result |-> result[j].outer]
  /\ outer[j] # "none" => exit[j] = Running

Recorded(j) ==
  exit[j] \in Ended =>
    /\ last[j].run = run[j] /\ ExitCode(last[j].result) = exit[j]
    /\ last[j].result = "passed" => codex[j] = "passed"
    /\ last[j].result = "skipped-overlap" => codex[j] = "none"

JobInvariant(j) ==
  Supervised(j) /\ Ordered(j) /\ InnerTells(j) /\ OuterTells(j) /\ Recorded(j)

RunsInvariant == RunsTypeOK /\ \A j \in Job : JobInvariant(j)

(* A step of one job's run leaves those of the others as they were, and    *)
(* does not take a lock that another holds.                                *)
Keeps(k) ==
  /\ unit'[k] = unit[k] /\ outer'[k] = outer[k] /\ inner'[k] = inner[k]
  /\ innerExit'[k] = innerExit[k] /\ codex'[k] = codex[k] /\ result'[k] = result[k]
  /\ last'[k] = last[k] /\ exit'[k] = exit[k] /\ run'[k] = run[k]
  /\ lock[GroupOf[k]] = k => lock'[GroupOf[k]] = k

(* A process that is gone lets go of its own locks only.                   *)
LEMMA InnerGoneKeeps ==
  ASSUME RunsTypeOK, NEW j \in Job, NEW code \in Nat, InnerGone(j, code)
  PROVE  /\ inner' \in [Job -> InnerPlaces] /\ innerExit' \in [Job -> Nat]
         /\ lock' \in [Group -> Job \cup {NoJob}]
         /\ inner'[j] = "none" /\ innerExit'[j] = code
         /\ \A k \in Job \ {j} : /\ inner'[k] = inner[k] /\ innerExit'[k] = innerExit[k]
                                 /\ lock[GroupOf[k]] = k => lock'[GroupOf[k]] = k
BY GroupAssumption DEF RunsTypeOK, InnerGone, InnerPlaces

LEMMA OuterGoneKeeps ==
  ASSUME RunsTypeOK, NEW j \in Job, NEW code \in Nat, OuterGone(j, code)
  PROVE  /\ outer' \in [Job -> OuterPlaces] /\ exit' \in [Job -> Nat]
         /\ unit' \in [Job -> {"idle", "running", "stopping"}]
         /\ outer'[j] = "none" /\ exit'[j] = code
         /\ unit'[j] = "idle" => inner[j] = "none" /\ ~Alive(j)
         /\ \A k \in Job \ {j} :
              outer'[k] = outer[k] /\ exit'[k] = exit[k] /\ unit'[k] = unit[k]
BY DEF RunsTypeOK, OuterGone, OuterPlaces

LEMMA SignaledKeeps ==
  ASSUME RunsTypeOK, NEW j \in Job, InnerSignaled(j)
  PROVE  /\ inner' \in [Job -> InnerPlaces] /\ innerExit' \in [Job -> Nat]
         /\ lock' \in [Group -> Job \cup {NoJob}]
         /\ \A k \in Job \ {j} : /\ inner'[k] = inner[k] /\ innerExit'[k] = innerExit[k]
                                 /\ lock[GroupOf[k]] = k => lock'[GroupOf[k]] = k
         /\ \/ inner'[j] = "none" /\ innerExit'[j] = Signaled
            \/ UNCHANGED <<inner, innerExit, lock>> /\ inner[j] \notin {"load", "status", "log"}
<1>1. Signaled \in Nat
  BY DEF Signaled
<1>2. CASE InnerGone(j, Signaled)
  BY <1>1, <1>2, InnerGoneKeeps
<1>3. CASE UNCHANGED <<inner, innerExit, lock>> /\ inner[j] \notin {"load", "status", "log"}
  BY <1>3 DEF RunsTypeOK
<1> QED BY <1>2, <1>3 DEF InnerSignaled

LEMMA ExitCodes ==
  /\ \A r : ExitCode(r) \in Ended
  /\ Ended \subseteq Nat /\ Signaled \in Nat /\ Running \in Nat
  /\ Signaled \notin Ended /\ Running \notin Ended
  /\ ExitCode("passed") = 0 /\ ExitCode("skipped-overlap") = 0
BY DEF ExitCode, Ended, Signaled, Running

-----------------------------------------------------------------------------
(* Codex and run-locked                                                    *)

(* What a step of run-locked or of Codex leaves alone.                     *)
LEMMA InnerStepKeeps ==
  ASSUME RunsTypeOK, NEW j \in Job,
         \/ InnerLoad(j) \/ InnerTimeout(j) \/ CodexEnds(j) \/ InnerKill(j) \/ Completed(j)
         \/ InnerStatus(j) \/ InnerLog(j) \/ InnerWriteFails(j) \/ KillInner(j)
  PROVE  RunsTypeOK' /\ \A k \in Job \ {j} : Keeps(k)
<1>1. UNCHANGED <<unit, outer, exit, run, runs>> /\ disturbances' \in Nat
  BY DEF InnerLoad, InnerTimeout, CodexEnds, InnerKill, Completed, InnerStatus, InnerLog,
     InnerWriteFails, KillInner, InnerOnly, Disturb, RunsTypeOK
<1>2. /\ inner' \in [Job -> InnerPlaces] /\ innerExit' \in [Job -> Nat]
      /\ lock' \in [Group -> Job \cup {NoJob}]
      /\ \A k \in Job \ {j} : /\ inner'[k] = inner[k] /\ innerExit'[k] = innerExit[k]
                              /\ lock[GroupOf[k]] = k => lock'[GroupOf[k]] = k
  <2>1. CASE \E code \in Nat : InnerGone(j, code)
    BY <2>1, InnerGoneKeeps
  <2>2. CASE /\ \E place \in InnerPlaces : inner' = [inner EXCEPT ![j] = place]
             /\ UNCHANGED <<innerExit, lock>>
    BY <2>2 DEF RunsTypeOK
  <2>3. CASE UNCHANGED <<inner, innerExit, lock>>
    BY <2>3 DEF RunsTypeOK
  <2>4. CASE InnerLoad(j) \/ InnerTimeout(j) \/ Completed(j) \/ InnerStatus(j)
    BY <2>1, <2>2, <2>4 DEF InnerLoad, InnerTimeout, Completed, InnerStatus, InnerPlaces
  <2>5. CASE CodexEnds(j) \/ InnerKill(j)
    BY <2>3, <2>5 DEF CodexEnds, InnerKill
  <2>6. CASE InnerLog(j) \/ InnerWriteFails(j) \/ KillInner(j)
    BY <2>1, <2>6, ExitCodes DEF InnerLog, InnerWriteFails, KillInner
  <2> QED BY <2>4, <2>5, <2>6
<1>3. /\ codex' \in [Job -> {"none", "running", "passed", "failed"}]
      /\ \A k \in Job \ {j} : codex'[k] = codex[k]
  BY DEF RunsTypeOK, InnerLoad, InnerTimeout, CodexEnds, InnerKill, Completed, InnerStatus, InnerLog,
     InnerWriteFails, KillInner
<1>4. /\ result' \in [Job -> [inner : RunResults, outer : RunResults]]
      /\ \A k \in Job \ {j} : result'[k] = result[k]
  <2>1. CASE UNCHANGED result
    BY <2>1 DEF RunsTypeOK
  <2>2. CASE Completed(j)
    <3>1. CodexResult(j) \in RunResults
      BY <2>2 DEF CodexResult, Completed, Alive, RunsTypeOK, RunResults
    <3> QED BY <2>2, <3>1 DEF RunsTypeOK, Completed
  <2> QED BY <2>1, <2>2 DEF InnerLoad, InnerTimeout, CodexEnds, InnerKill, InnerStatus, InnerLog,
           InnerWriteFails, KillInner
<1>5. /\ last' \in [Job -> [run : Nat, result : RunResults]]
      /\ \A k \in Job \ {j} : last'[k] = last[k]
  <2>1. CASE UNCHANGED last
    BY <2>1 DEF RunsTypeOK
  <2>2. CASE InnerStatus(j)
    BY <2>2 DEF RunsTypeOK, InnerStatus, Wrote
  <2> QED BY <2>1, <2>2 DEF InnerLoad, InnerTimeout, CodexEnds, InnerKill, Completed, InnerLog,
           InnerWriteFails, KillInner
<1> QED BY <1>1, <1>2, <1>3, <1>4, <1>5 DEF RunsTypeOK, Keeps

(* The invariant of one job, after a step of run-locked or of Codex.       *)
LEMMA InnerStepTells ==
  ASSUME RunsTypeOK, NEW j \in Job, JobInvariant(j),
         \/ InnerLoad(j) \/ InnerTimeout(j) \/ CodexEnds(j) \/ InnerKill(j) \/ Completed(j)
         \/ InnerStatus(j) \/ InnerLog(j) \/ InnerWriteFails(j) \/ KillInner(j)
  PROVE  JobInvariant(j)'
<1>1. UNCHANGED <<unit, outer, exit, run, runs>>
  BY DEF InnerLoad, InnerTimeout, CodexEnds, InnerKill, Completed, InnerStatus, InnerLog,
     InnerWriteFails, KillInner, InnerOnly
<1>2. ASSUME NEW code \in Nat, InnerGone(j, code), inner[j] # "none",
             UNCHANGED <<codex, result, last>>,
             code # 75, code \in Ended => inner[j] = "log" /\ code = ExitCode(result[j].inner)
      PROVE  JobInvariant(j)'
  <2>1. inner'[j] = "none" /\ innerExit'[j] = code
    BY <1>2, InnerGoneKeeps
  <2>2. outer[j] \in {"wait", "stop", "halt"}
    BY <1>2 DEF JobInvariant, Supervised
  <2>3. Supervised(j)' /\ Ordered(j)'
    BY <1>1, <1>2, <2>1, <2>2 DEF JobInvariant, Supervised, Ordered
  <2>4. InnerTells(j)'
    BY <1>1, <1>2, <2>1 DEF JobInvariant, InnerTells
  <2>5. OuterTells(j)' /\ Recorded(j)'
    BY <1>1, <1>2 DEF JobInvariant, OuterTells, Recorded
  <2> QED BY <2>3, <2>4, <2>5 DEF JobInvariant
<1>3. CASE InnerLoad(j)
  <2>1. CASE InnerGone(j, 2) /\ UNCHANGED codex
    BY <1>2, <1>3, <2>1 DEF InnerLoad, Ended
  <2>2. CASE /\ inner' = [inner EXCEPT ![j] = "run"]
             /\ codex' = [codex EXCEPT ![j] = "running"]
             /\ UNCHANGED <<innerExit, lock>>
    <3>1. inner[j] = "load" /\ inner'[j] = "run" /\ codex'[j] = "running" /\ UNCHANGED <<result, last>>
      BY <1>3, <2>2 DEF InnerLoad, RunsTypeOK
    <3>2. outer[j] \in {"wait", "stop", "halt"} /\ innerExit[j] = 0
      BY <3>1 DEF JobInvariant, Supervised
    <3>3. Supervised(j)' /\ Ordered(j)' /\ InnerTells(j)'
      BY <1>1, <2>2, <3>1, <3>2 DEF JobInvariant, Supervised, Ordered, InnerTells
    <3>4. OuterTells(j)' /\ Recorded(j)'
      BY <1>1, <3>1, <3>2, ExitCodes DEF JobInvariant, OuterTells, Recorded
    <3> QED BY <3>3, <3>4 DEF JobInvariant
  <2> QED BY <1>3, <2>1, <2>2 DEF InnerLoad
<1>4. CASE InnerTimeout(j)
  <2>1. inner[j] = "run" /\ inner'[j] = "stop" /\ UNCHANGED <<innerExit, codex, result, lock, last>>
    BY <1>4 DEF InnerTimeout, RunsTypeOK
  <2> QED BY <1>1, <2>1 DEF JobInvariant, Supervised, Ordered, InnerTells, OuterTells, Recorded
<1>5. CASE CodexEnds(j) \/ InnerKill(j)
  <2>1. /\ codex[j] = "running" /\ codex'[j] \in {"passed", "failed"}
        /\ UNCHANGED <<inner, innerExit, result, lock, last>>
    BY <1>5 DEF CodexEnds, InnerKill, Alive, RunsTypeOK
  <2>2. Supervised(j)' /\ Ordered(j)'
    BY <1>1, <2>1 DEF JobInvariant, Supervised, Ordered
  <2>3. InnerTells(j)' /\ OuterTells(j)' /\ Recorded(j)'
    BY <1>1, <2>1 DEF JobInvariant, InnerTells, OuterTells, Recorded
  <2> QED BY <2>2, <2>3 DEF JobInvariant
<1>6. CASE Completed(j)
  <2>1. /\ inner[j] \in {"run", "stop"} /\ inner'[j] = "status"
        /\ UNCHANGED <<innerExit, codex, lock, last>>
    BY <1>6 DEF Completed, RunsTypeOK
  <2>2. codex[j] \in {"passed", "failed"}
    BY <1>6, <2>1 DEF Completed, Alive, RunsTypeOK, JobInvariant, Ordered
  <2>3. /\ result'[j].inner = CodexResult(j) /\ result'[j].outer = result[j].outer
        /\ CodexResult(j) \in {"passed", "failed", "timed-out"}
        /\ CodexResult(j) = "passed" => codex[j] = "passed"
    BY <1>6, <2>2 DEF Completed, RunsTypeOK, CodexResult
  <2>4. Supervised(j)' /\ Ordered(j)'
    BY <1>1, <2>1 DEF JobInvariant, Supervised, Ordered
  <2>5. InnerTells(j)' /\ OuterTells(j)' /\ Recorded(j)'
    BY <1>1, <2>1, <2>2, <2>3 DEF JobInvariant, InnerTells, OuterTells, Recorded
  <2> QED BY <2>4, <2>5 DEF JobInvariant
<1>7. CASE InnerStatus(j)
  <2>1. /\ inner[j] = "status" /\ inner'[j] = "log" /\ UNCHANGED <<innerExit, codex, result, lock>>
        /\ last'[j] = [run |-> run[j], result |-> result[j].inner]
    BY <1>7 DEF InnerStatus, Wrote, RunsTypeOK
  <2>2. outer[j] \in {"wait", "stop", "halt"} /\ exit[j] = Running
    BY <2>1 DEF JobInvariant, Supervised, OuterTells
  <2>3. Supervised(j)' /\ Ordered(j)'
    BY <1>1, <2>1 DEF JobInvariant, Supervised, Ordered
  <2>4. InnerTells(j)' /\ OuterTells(j)' /\ Recorded(j)'
    BY <1>1, <2>1, <2>2, ExitCodes DEF JobInvariant, InnerTells, OuterTells, Recorded
  <2> QED BY <2>3, <2>4 DEF JobInvariant
<1>8. CASE InnerLog(j)
  BY <1>2, <1>8, ExitCodes DEF InnerLog, Ended
<1>9. CASE InnerWriteFails(j) \/ KillInner(j)
  <2>1. PICK code \in {2, 137} : InnerGone(j, code)
    BY <1>9 DEF InnerWriteFails, KillInner
  <2>2. inner[j] # "none" /\ UNCHANGED <<codex, result, last>>
    BY <1>9 DEF InnerWriteFails, KillInner
  <2> QED BY <1>2, <2>1, <2>2 DEF Ended
<1> QED BY <1>3, <1>4, <1>5, <1>6, <1>7, <1>8, <1>9

-----------------------------------------------------------------------------
(* The "run" command and systemd                                           *)

LEMMA OuterStepKeeps ==
  ASSUME RunsTypeOK, NEW j \in Job,
         \/ OuterLoad(j) \/ TakeLocks(j) \/ Answered(j) \/ OuterTimeout(j) \/ OuterKill(j)
         \/ OuterStatus(j) \/ OuterLog(j) \/ OuterWriteFails(j)
  PROVE  RunsTypeOK' /\ \A k \in Job \ {j} : Keeps(k)
<1>1. UNCHANGED <<codex, run, runs>> /\ disturbances' \in Nat
  BY DEF OuterLoad, TakeLocks, Answered, OuterTimeout, OuterKill, OuterStatus, OuterLog,
     OuterWriteFails, OuterOnly, Disturb, RunsTypeOK
<1>2. /\ outer' \in [Job -> OuterPlaces] /\ exit' \in [Job -> Nat]
      /\ unit' \in [Job -> {"idle", "running", "stopping"}]
      /\ \A k \in Job \ {j} :
           outer'[k] = outer[k] /\ exit'[k] = exit[k] /\ unit'[k] = unit[k]
  <2>1. CASE \E code \in Nat : OuterGone(j, code)
    BY <2>1, OuterGoneKeeps
  <2>2. CASE /\ \E place \in OuterPlaces : outer' = [outer EXCEPT ![j] = place]
             /\ UNCHANGED <<unit, exit>>
    BY <2>2 DEF RunsTypeOK
  <2>3. CASE UNCHANGED <<unit, outer, exit>>
    BY <2>3 DEF RunsTypeOK
  <2>4. CASE OuterLoad(j) \/ Answered(j)
    BY <2>1, <2>2, <2>4 DEF OuterLoad, Answered, OuterPlaces, RunsTypeOK
  <2>5. CASE TakeLocks(j) \/ OuterTimeout(j) \/ OuterStatus(j)
    BY <2>2, <2>5 DEF TakeLocks, OuterTimeout, OuterStatus, OuterPlaces
  <2>6. CASE OuterLog(j) \/ OuterWriteFails(j)
    BY <2>1, <2>6, ExitCodes DEF OuterLog, OuterWriteFails
  <2> QED BY <2>3, <2>4, <2>5, <2>6 DEF OuterKill
<1>3. /\ inner' \in [Job -> InnerPlaces] /\ innerExit' \in [Job -> Nat]
      /\ lock' \in [Group -> Job \cup {NoJob}]
      /\ \A k \in Job \ {j} : /\ inner'[k] = inner[k] /\ innerExit'[k] = innerExit[k]
                              /\ lock[GroupOf[k]] = k => lock'[GroupOf[k]] = k
  <2>1. CASE UNCHANGED <<inner, innerExit, lock>>
    BY <2>1 DEF RunsTypeOK
  <2>2. CASE TakeLocks(j)
    <3>1. \A k \in Job : GroupOf[k] \in Group
      BY GroupAssumption
    <3>2. CASE /\ lock[GroupOf[j]] = NoJob /\ lock' = [lock EXCEPT ![GroupOf[j]] = j]
               /\ inner' = [inner EXCEPT ![j] = "load"] /\ UNCHANGED innerExit
      BY <3>1, <3>2, LockAssumption DEF RunsTypeOK, InnerPlaces
    <3>3. CASE innerExit' = [innerExit EXCEPT ![j] = 75] /\ UNCHANGED <<lock, inner>>
      BY <3>3 DEF RunsTypeOK
    <3> QED BY <2>2, <3>2, <3>3 DEF TakeLocks
  <2>3. CASE OuterTimeout(j)
    BY <2>3, SignaledKeeps DEF OuterTimeout
  <2>4. CASE OuterKill(j)
    BY <2>4, ExitCodes, InnerGoneKeeps DEF OuterKill
  <2> QED BY <2>1, <2>2, <2>3, <2>4 DEF OuterLoad, Answered, OuterStatus, OuterLog, OuterWriteFails
<1>4. /\ result' \in [Job -> [inner : RunResults, outer : RunResults]]
      /\ \A k \in Job \ {j} : result'[k] = result[k]
  <2>1. CASE UNCHANGED result
    BY <2>1 DEF RunsTypeOK
  <2>2. CASE result' = [result EXCEPT ![j].outer = OuterResult(j)]
    <3>1. OuterResult(j) \in RunResults
      BY DEF OuterResult, RunResults
    <3> QED BY <2>2, <3>1 DEF RunsTypeOK
  <2> QED BY <2>1, <2>2 DEF OuterLoad, TakeLocks, Answered, OuterTimeout, OuterKill, OuterStatus,
           OuterLog, OuterWriteFails
<1>5. /\ last' \in [Job -> [run : Nat, result : RunResults]]
      /\ \A k \in Job \ {j} : last'[k] = last[k]
  <2>1. CASE UNCHANGED last
    BY <2>1 DEF RunsTypeOK
  <2>2. CASE OuterStatus(j)
    BY <2>2 DEF RunsTypeOK, OuterStatus, Wrote
  <2> QED BY <2>1, <2>2 DEF OuterLoad, TakeLocks, Answered, OuterTimeout, OuterKill,
           OuterLog, OuterWriteFails
<1> QED BY <1>1, <1>2, <1>3, <1>4, <1>5 DEF RunsTypeOK, Keeps

LEMMA OuterStepTells ==
  ASSUME RunsTypeOK, NEW j \in Job, JobInvariant(j),
         \/ OuterLoad(j) \/ TakeLocks(j) \/ Answered(j) \/ OuterTimeout(j) \/ OuterKill(j)
         \/ OuterStatus(j) \/ OuterLog(j) \/ OuterWriteFails(j)
  PROVE  JobInvariant(j)'
<1>1. UNCHANGED <<codex, run, runs>>
  BY DEF OuterLoad, TakeLocks, Answered, OuterTimeout, OuterKill, OuterStatus, OuterLog,
     OuterWriteFails, OuterOnly
<1>2. ASSUME NEW code \in Nat, OuterGone(j, code), inner[j] = "none",
             UNCHANGED <<inner, innerExit, result, lock, last>>,
             code \in Ended =>
               /\ last[j].run = run[j] /\ ExitCode(last[j].result) = code
               /\ last[j].result = "passed" => codex[j] = "passed"
               /\ last[j].result = "skipped-overlap" => codex[j] = "none"
      PROVE  JobInvariant(j)'
  <2>1. /\ outer'[j] = "none" /\ exit'[j] = code
        /\ unit'[j] = "idle" => codex[j] # "running"
    BY <1>2, OuterGoneKeeps DEF Alive
  <2>2. Supervised(j)' /\ Ordered(j)'
    BY <1>1, <1>2, <2>1 DEF JobInvariant, Supervised, Ordered
  <2>3. InnerTells(j)' /\ OuterTells(j)'
    BY <1>1, <1>2, <2>1 DEF JobInvariant, InnerTells, OuterTells
  <2>4. Recorded(j)'
    BY <1>1, <1>2, <2>1 DEF Recorded
  <2> QED BY <2>2, <2>3, <2>4 DEF JobInvariant
<1>3. CASE OuterLoad(j)
  <2>1. outer[j] = "load" /\ inner[j] = "none" /\ UNCHANGED <<inner, innerExit, result, lock, last>>
    BY <1>3 DEF OuterLoad, JobInvariant, Supervised
  <2>2. CASE OuterGone(j, 2)
    BY <1>2, <2>1, <2>2 DEF Ended
  <2>3. CASE outer' = [outer EXCEPT ![j] = "lock"] /\ UNCHANGED <<unit, exit>>
    <3>1. outer'[j] = "lock"
      BY <2>3 DEF RunsTypeOK
    <3> QED BY <1>1, <2>1, <2>3, <3>1
          DEF JobInvariant, Supervised, Ordered, InnerTells, OuterTells, Recorded
  <2> QED BY <1>3, <2>2, <2>3 DEF OuterLoad
<1>4. CASE TakeLocks(j)
  <2>1. /\ outer[j] = "lock" /\ outer'[j] = "wait" /\ inner[j] = "none"
        /\ innerExit[j] = 0 /\ codex[j] = "none" /\ unit[j] # "idle" /\ exit[j] = Running
        /\ UNCHANGED <<unit, result, last, exit>>
    BY <1>4 DEF TakeLocks, RunsTypeOK, JobInvariant, Supervised, Ordered, OuterTells
  <2>2. CASE /\ lock' = [lock EXCEPT ![GroupOf[j]] = j]
             /\ inner' = [inner EXCEPT ![j] = "load"] /\ UNCHANGED innerExit
    <3>1. lock'[GroupOf[j]] = j /\ inner'[j] = "load"
      BY <2>2, GroupAssumption DEF RunsTypeOK
    <3> QED BY <1>1, <2>1, <2>2, <3>1, ExitCodes
          DEF JobInvariant, Supervised, Ordered, InnerTells, OuterTells, Recorded
  <2>3. CASE innerExit' = [innerExit EXCEPT ![j] = 75] /\ UNCHANGED <<lock, inner>>
    <3>1. innerExit'[j] = 75 /\ 75 \notin Ended
      BY <2>3 DEF RunsTypeOK, Ended
    <3> QED BY <1>1, <2>1, <2>3, <3>1, ExitCodes
          DEF JobInvariant, Supervised, Ordered, InnerTells, OuterTells, Recorded
  <2> QED BY <1>4, <2>2, <2>3 DEF TakeLocks
<1>5. CASE Answered(j)
  <2>1. inner[j] = "none" /\ UNCHANGED <<inner, innerExit, lock, last>>
    BY <1>5 DEF Answered
  <2>2. CASE outer[j] = "wait" /\ innerExit[j] \in Ended /\ OuterGone(j, innerExit[j]) /\ UNCHANGED result
    <3>1. innerExit[j] \in Nat
      BY DEF RunsTypeOK
    <3> QED BY <1>2, <2>1, <2>2, <3>1 DEF JobInvariant, InnerTells
  <2>3. CASE /\ outer' = [outer EXCEPT ![j] = "status"]
             /\ result' = [result EXCEPT ![j].outer = OuterResult(j)] /\ UNCHANGED <<unit, exit>>
    <3>1. /\ outer'[j] = "status" /\ result'[j].inner = result[j].inner
          /\ result'[j].outer = OuterResult(j)
          /\ OuterResult(j) \in {"failed", "timed-out", "skipped-overlap"}
          /\ OuterResult(j) = "skipped-overlap" => innerExit[j] = 75
      BY <2>3 DEF RunsTypeOK, OuterResult
    <3>2. outer[j] # "none" /\ exit[j] = Running
      BY <1>5 DEF Answered, JobInvariant, OuterTells
    <3> QED BY <1>1, <2>1, <2>3, <3>1, <3>2, ExitCodes
          DEF JobInvariant, Supervised, Ordered, InnerTells, OuterTells, Recorded
  <2> QED BY <1>5, <2>2, <2>3 DEF Answered, Ended
<1>6. CASE OuterTimeout(j)
  <2>1. /\ outer[j] = "wait" /\ outer'[j] = "stop" /\ inner[j] # "none"
        /\ UNCHANGED <<unit, result, last, exit>> /\ exit[j] = Running
    BY <1>6 DEF OuterTimeout, RunsTypeOK, JobInvariant, OuterTells
  <2>2. \/ inner'[j] = "none" /\ innerExit'[j] = Signaled
        \/ UNCHANGED <<inner, innerExit, lock>>
    BY <1>6, SignaledKeeps DEF OuterTimeout
  <2> QED BY <1>1, <2>1, <2>2, ExitCodes
        DEF JobInvariant, Supervised, Ordered, InnerTells, OuterTells, Recorded, Signaled
<1>7. CASE OuterKill(j)
  <2>1. /\ outer[j] \in {"stop", "halt"} /\ inner'[j] = "none" /\ innerExit'[j] = Signaled
        /\ UNCHANGED <<unit, outer, result, last, exit>>
    BY <1>7, InnerGoneKeeps, ExitCodes DEF OuterKill
  <2> QED BY <1>1, <2>1, ExitCodes
        DEF JobInvariant, Supervised, Ordered, InnerTells, OuterTells, Recorded, Signaled
<1>8. CASE OuterStatus(j)
  <2>1. /\ outer[j] = "status" /\ outer'[j] = "log" /\ inner[j] = "none"
        /\ last'[j] = [run |-> run[j], result |-> result[j].outer]
        /\ UNCHANGED <<unit, inner, innerExit, result, lock, exit>> /\ exit[j] = Running
    BY <1>8 DEF OuterStatus, Wrote, RunsTypeOK, JobInvariant, Supervised, OuterTells
  <2> QED BY <1>1, <2>1, ExitCodes
        DEF JobInvariant, Supervised, Ordered, InnerTells, OuterTells, Recorded
<1>9. CASE OuterLog(j) \/ OuterWriteFails(j)
  <2>1. /\ outer[j] \in {"status", "log"} /\ inner[j] = "none"
        /\ UNCHANGED <<inner, innerExit, result, lock, last>>
    BY <1>9 DEF OuterLog, OuterWriteFails, JobInvariant, Supervised
  <2>2. CASE OuterWriteFails(j)
    BY <1>2, <2>1, <2>2 DEF OuterWriteFails, Ended
  <2>3. CASE OuterLog(j)
    <3>1. /\ last[j] = [run |-> run[j], result |-> result[j].outer]
          /\ result[j].outer # "passed"
          /\ result[j].outer = "skipped-overlap" => codex[j] = "none"
      BY <2>3 DEF OuterLog, JobInvariant, OuterTells
    <3>2. /\ OuterGone(j, ExitCode(result[j].outer))
          /\ last[j].run = run[j] /\ last[j].result = result[j].outer
      BY <2>3, <3>1 DEF OuterLog
    <3>3. ExitCode(result[j].outer) \in Nat
      BY ExitCodes
    <3> QED BY <1>2, <2>1, <3>1, <3>2, <3>3
  <2> QED BY <1>9, <2>2, <2>3
<1> QED BY <1>3, <1>4, <1>5, <1>6, <1>7, <1>8, <1>9

-----------------------------------------------------------------------------
(* systemd, and the whole                                                  *)

LEMMA SystemStepKeeps ==
  ASSUME RunsTypeOK, NEW j \in Job,
         StartService(j) \/ StopService(j) \/ KillService(j) \/ Stopped(j)
  PROVE  RunsTypeOK' /\ \A k \in Job \ {j} : Keeps(k)
<1>1. CASE StartService(j)
  <2>1. "load" \in OuterPlaces /\ "none" \in RunResults
    BY DEF OuterPlaces, RunResults
  <2> QED BY <1>1, <2>1, ExitCodes DEF StartService, RunsTypeOK, Keeps
<1>2. CASE StopService(j)
  <2>1. /\ UNCHANGED <<codex, result, last, run, runs>> /\ disturbances' \in Nat
        /\ unit' = [unit EXCEPT ![j] = "stopping"]
    BY <1>2 DEF StopService, Disturb, RunsTypeOK
  <2>2. /\ inner' \in [Job -> InnerPlaces] /\ innerExit' \in [Job -> Nat]
        /\ lock' \in [Group -> Job \cup {NoJob}]
        /\ \A k \in Job \ {j} : /\ inner'[k] = inner[k] /\ innerExit'[k] = innerExit[k]
                                /\ lock[GroupOf[k]] = k => lock'[GroupOf[k]] = k
    BY <1>2, SignaledKeeps DEF StopService
  <2>3. /\ outer' \in [Job -> OuterPlaces] /\ exit' \in [Job -> Nat]
        /\ \A k \in Job \ {j} : outer'[k] = outer[k] /\ exit'[k] = exit[k]
    BY <1>2, ExitCodes DEF StopService, RunsTypeOK, OuterPlaces
  <2> QED BY <2>1, <2>2, <2>3 DEF RunsTypeOK, Keeps
<1>3. CASE KillService(j)
  <2>1. /\ UNCHANGED <<result, last, run, runs, disturbances>>
        /\ unit' = [unit EXCEPT ![j] = "idle"]
        /\ codex' = [codex EXCEPT ![j] = IF Alive(j) THEN "failed" ELSE @]
    BY <1>3 DEF KillService
  <2>2. /\ inner' \in [Job -> InnerPlaces] /\ innerExit' \in [Job -> Nat]
        /\ lock' \in [Group -> Job \cup {NoJob}]
        /\ \A k \in Job \ {j} : /\ inner'[k] = inner[k] /\ innerExit'[k] = innerExit[k]
                                /\ lock[GroupOf[k]] = k => lock'[GroupOf[k]] = k
    BY <1>3, InnerGoneKeeps, ExitCodes DEF KillService
  <2>3. /\ outer' \in [Job -> OuterPlaces] /\ exit' \in [Job -> Nat]
        /\ \A k \in Job \ {j} : outer'[k] = outer[k] /\ exit'[k] = exit[k]
    BY <1>3, ExitCodes DEF KillService, RunsTypeOK, OuterPlaces
  <2> QED BY <2>1, <2>2, <2>3 DEF RunsTypeOK, Keeps
<1>4. CASE Stopped(j)
  BY <1>4 DEF Stopped, RunsTypeOK, Keeps
<1> QED BY <1>1, <1>2, <1>3, <1>4

LEMMA SystemStepTells ==
  ASSUME RunsTypeOK, NEW j \in Job, JobInvariant(j),
         StartService(j) \/ StopService(j) \/ KillService(j) \/ Stopped(j)
  PROVE  JobInvariant(j)'
<1>1. CASE StartService(j)
  <2>1. /\ unit'[j] = "running" /\ outer'[j] = "load" /\ codex'[j] = "none"
        /\ innerExit'[j] = 0 /\ exit'[j] = Running /\ inner'[j] = inner[j]
        /\ unit[j] = "idle"
    BY <1>1 DEF StartService, RunsTypeOK
  <2>2. inner'[j] = "none"
    BY <2>1 DEF JobInvariant, Ordered
  <2> QED BY <2>1, <2>2, ExitCodes
        DEF JobInvariant, Supervised, Ordered, InnerTells, OuterTells, Recorded
<1>2. CASE StopService(j)
  <2>1. /\ UNCHANGED <<codex, result, last, run, runs>> /\ unit'[j] = "stopping"
    BY <1>2 DEF StopService, RunsTypeOK
  <2>2. \/ inner'[j] = "none" /\ innerExit'[j] = Signaled
        \/ UNCHANGED <<inner, innerExit, lock>>
    BY <1>2, SignaledKeeps DEF StopService
  <2>3. CASE outer[j] = "wait" /\ inner[j] # "none" /\ outer' = [outer EXCEPT ![j] = "halt"] /\ UNCHANGED exit
    <3>1. outer'[j] = "halt" /\ exit[j] = Running
      BY <2>3 DEF RunsTypeOK, JobInvariant, OuterTells
    <3> QED BY <2>1, <2>2, <2>3, <3>1, ExitCodes
          DEF JobInvariant, Supervised, Ordered, InnerTells, OuterTells, Recorded, Signaled
  <2>4. CASE outer[j] \in {"stop", "halt"} /\ UNCHANGED <<outer, exit>>
    BY <2>1, <2>2, <2>4, ExitCodes
    DEF JobInvariant, Supervised, Ordered, InnerTells, OuterTells, Recorded, Signaled
  <2>5. CASE outer[j] = "wait" /\ inner[j] = "none" /\ UNCHANGED <<outer, exit>>
    <3>1. UNCHANGED <<inner, innerExit, lock>>
      BY <1>2, <2>5 DEF StopService, InnerSignaled
    <3> QED BY <2>1, <2>5, <3>1
          DEF JobInvariant, Supervised, Ordered, InnerTells, OuterTells, Recorded
  <2>6. CASE /\ inner[j] = "none" /\ outer' = [outer EXCEPT ![j] = "none"]
             /\ exit' = [exit EXCEPT ![j] = Signaled]
    <3>1. outer'[j] = "none" /\ exit'[j] = Signaled /\ UNCHANGED <<inner, innerExit, lock>>
      BY <1>2, <2>6 DEF StopService, InnerSignaled, RunsTypeOK
    <3> QED BY <2>1, <2>6, <3>1, ExitCodes
          DEF JobInvariant, Supervised, Ordered, InnerTells, OuterTells, Recorded
  <2>7. outer[j] \in {"load", "lock", "status", "log"} => inner[j] = "none"
    BY DEF JobInvariant, Supervised
  <2> QED BY <1>2, <2>3, <2>4, <2>5, <2>6, <2>7 DEF StopService
<1>3. CASE KillService(j)
  <2>1. /\ inner'[j] = "none" /\ innerExit'[j] = Signaled
        /\ outer'[j] = "none" /\ unit'[j] = "idle" /\ UNCHANGED <<result, last, run>>
        /\ exit'[j] = IF outer[j] = "none" THEN exit[j] ELSE Signaled
        /\ codex'[j] = IF codex[j] = "running" THEN "failed" ELSE codex[j]
    BY <1>3, InnerGoneKeeps, ExitCodes DEF KillService, RunsTypeOK, Alive
  <2>2. Supervised(j)' /\ Ordered(j)'
    BY <2>1 DEF Supervised, Ordered, Signaled
  <2>3. InnerTells(j)' /\ OuterTells(j)'
    BY <2>1 DEF InnerTells, OuterTells
  <2>4. Recorded(j)'
    BY <2>1, ExitCodes DEF JobInvariant, Recorded
  <2> QED BY <2>2, <2>3, <2>4 DEF JobInvariant
<1>4. CASE Stopped(j)
  <2>1. /\ outer[j] = "none" /\ inner[j] = "none" /\ codex[j] # "running"
        /\ UNCHANGED <<outer, inner, innerExit, codex, result, lock, last, exit, run, runs>>
    BY <1>4 DEF Stopped, Alive
  <2> QED BY <2>1 DEF JobInvariant, Supervised, Ordered, InnerTells, OuterTells, Recorded
<1> QED BY <1>1, <1>2, <1>3, <1>4

(* What a step leaves alone keeps the invariant of a job.                  *)
LEMMA KeptInvariant ==
  ASSUME NEW k \in Job, JobInvariant(k), Keeps(k)
  PROVE  JobInvariant(k)'
BY DEF Keeps, JobInvariant, Supervised, Ordered, InnerTells, OuterTells, Recorded

LEMMA RunsInitially == RunsInit => RunsInvariant
<1> SUFFICES ASSUME RunsInit PROVE RunsInvariant
  OBVIOUS
<1>1. RunsTypeOK
  BY ExitCodes DEF RunsInit, RunsTypeOK, OuterPlaces, InnerPlaces, RunResults
<1>2. ASSUME NEW j \in Job PROVE JobInvariant(j)
  BY ExitCodes DEF RunsInit, JobInvariant, Supervised, Ordered, InnerTells, OuterTells, Recorded
<1> QED BY <1>1, <1>2 DEF RunsInvariant

LEMMA RunsStepKeepsInvariant == RunsInvariant /\ [Next]_vars => RunsInvariant'
<1> SUFFICES ASSUME RunsInvariant, [Next]_vars PROVE RunsInvariant'
  OBVIOUS
<1>1. CASE UNCHANGED runVars
  <2>1. RunsTypeOK'
    BY <1>1 DEF RunsInvariant, RunsTypeOK, runVars
  <2>2. ASSUME NEW k \in Job PROVE JobInvariant(k)'
    BY <1>1, KeptInvariant DEF RunsInvariant, Keeps, runVars
  <2> QED BY <2>1, <2>2 DEF RunsInvariant
<1>2. ASSUME NEW j \in Job, StartService(j) \/ RunsStep(j) PROVE RunsInvariant'
  <2>1. RunsTypeOK /\ JobInvariant(j)
    BY DEF RunsInvariant
  <2>2. RunsTypeOK' /\ (\A k \in Job \ {j} : Keeps(k)) /\ JobInvariant(j)'
    <3>1. CASE \/ InnerLoad(j) \/ InnerTimeout(j) \/ CodexEnds(j) \/ InnerKill(j) \/ Completed(j)
               \/ InnerStatus(j) \/ InnerLog(j) \/ InnerWriteFails(j) \/ KillInner(j)
      BY <2>1, <3>1, InnerStepKeeps, InnerStepTells
    <3>2. CASE \/ OuterLoad(j) \/ TakeLocks(j) \/ Answered(j) \/ OuterTimeout(j) \/ OuterKill(j)
               \/ OuterStatus(j) \/ OuterLog(j) \/ OuterWriteFails(j)
      BY <2>1, <3>2, OuterStepKeeps, OuterStepTells
    <3>3. CASE StartService(j) \/ StopService(j) \/ KillService(j) \/ Stopped(j)
      BY <2>1, <3>3, SystemStepKeeps, SystemStepTells
    <3> QED BY <1>2, <3>1, <3>2, <3>3 DEF RunsStep
  <2>3. ASSUME NEW k \in Job PROVE JobInvariant(k)'
    BY <2>2, <2>3, KeptInvariant DEF RunsInvariant
  <2> QED BY <2>2, <2>3 DEF RunsInvariant
<1> QED BY <1>1, <1>2 DEF Next, Step, Start, vars

(* Every reachable state satisfies the invariant of the runs, whatever the *)
(* administrator's commands do meanwhile.                                  *)
THEOREM RunsInvariance == Spec => []RunsInvariant
<1>1. Init => RunsInvariant
  BY RunsInitially DEF Init
<1> QED BY <1>1, RunsStepKeepsInvariant, PTL DEF Spec

(* Codex of two jobs of one overlap group runs at the same time only when  *)
(* a supervisor was killed: whoever supervises it holds the group's lock   *)
(* (runOverlapLocked of run.ts, and the descriptor run-locked keeps).      *)
THEOREM Exclusion == Spec => []GroupRunsAlone
<1>1. RunsInvariant => GroupRunsAlone
  BY GroupAssumption, LockAssumption DEF RunsInvariant, JobInvariant, Supervised, GroupRunsAlone
<1> QED BY <1>1, RunsInvariance, PTL

(* A service that exits with a status of its own has recorded that very    *)
(* result of that very run (runPromptJob, executePromptJob and             *)
(* PromptJobResultStore.record).                                           *)
THEOREM Recording == Spec => []ExitIsRecorded
<1>1. RunsInvariant => ExitIsRecorded
  BY DEF RunsInvariant, JobInvariant, Recorded, Ended, ExitIsRecorded
<1> QED BY <1>1, RunsInvariance, PTL

-----------------------------------------------------------------------------
(* The commands of the administrator                                       *)

Concerned == command.names \cup command.previous.names
Forward == {"moving", "publishing", "stale", "timers"}
Back == {"unpublish", "restore", "unarm", "rearm"}

CommandsTypeOK ==
  /\ UnitsTypeOK
  /\ before \in [registry : Registries, files : Units, loaded : Units,
                 enabled : SUBSET Job, active : SUBSET Job]
  /\ contents \in Units /\ torn \in BOOLEAN

(* What each loop goes through, and what the command does to the registry. *)
InBounds ==
  /\ moved \subseteq Concerned /\ published \subseteq command.names
  /\ pc = "moving" => todo \subseteq Concerned /\ published = {}
  /\ pc = "publishing" => published = command.names \ todo
  /\ pc = "stale" => todo \subseteq Stale
  /\ pc \in {"publishing", "timers", "unarm"} => todo \subseteq command.names
  /\ pc \in {"stale", "timers"} => published = command.names
  /\ pc = "unpublish" => todo \subseteq published
  /\ pc = "restore" => todo \subseteq moved
  /\ pc = "rearm" => todo \subseteq command.previous.names

RegistryIs ==
  /\ ~registry.exists => registry.names = {}
  /\ pc # "idle" => /\ command.previous = before.registry
                    /\ command.kind = "install" \/ command.previous.exists
  /\ pc \in Forward => registry = before.registry
  /\ pc \in Back /\ ~torn => registry = before.registry

(* A unit that is not where it was is in the backup, or was none.          *)
Untouched(j) == files[j] = before.files[j] /\ backup[j] = NoUnit /\ j \notin moved
Aside(j) == backup[j] = before.files[j] /\ (j \in moved <=> before.files[j] # NoUnit)
Cleared(j) ==
  \/ files[j] = before.files[j]
  \/ "cleanup" \in incomplete /\ before.files[j] = NoUnit

UnitIs(j) ==
  /\ pc = "idle" => backup[j] = NoUnit
  /\ pc \in Forward =>
       IF j \in Concerned /\ (pc = "moving" => j \notin todo)
       THEN Aside(j) /\ files[j] = IF j \in published THEN commands ELSE NoUnit
       ELSE Untouched(j)
  /\ pc = "unpublish" =>
       /\ j \in moved => backup[j] = before.files[j] /\ backup[j] # NoUnit
       /\ j \notin moved => /\ backup[j] = NoUnit
                            /\ j \notin published => files[j] = before.files[j]
                            /\ j \in published => before.files[j] = NoUnit
       /\ j \in published \ todo => files[j] = NoUnit \/ "cleanup" \in incomplete
  /\ pc = "restore" =>
       /\ j \in todo => backup[j] = before.files[j] /\ backup[j] # NoUnit
       /\ j \in moved \ todo =>
            \/ files[j] = before.files[j] /\ backup[j] = NoUnit
            \/ "restoration" \in incomplete /\ backup[j] = before.files[j]
       /\ j \notin moved => backup[j] = NoUnit /\ Cleared(j)
  /\ pc \in {"unarm", "rearm"} => backup[j] = NoUnit /\ Cleared(j)

(* How far the timers are set, and set back.                               *)
WasInOrder == InOrder(before)
NothingDone == moved \cup published = {}

TimerAsBefore(j) ==
  (j \in enabled <=> j \in before.enabled) /\ (j \in active <=> j \in before.active)
TimerIsOff(j) == j \notin enabled /\ j \notin active
TimerIsApplied(j) == (j \in enabled <=> command.on) /\ (j \in active <=> command.on)
TimerIsBack(j) ==
  (j \in enabled <=> command.previous.on) /\ (j \in active <=> command.previous.on)

TimerIs(j) ==
  /\ pc \in {"moving", "publishing"} => TimerAsBefore(j)
  /\ pc = "stale" => IF j \in Stale THEN j \notin todo => TimerIsOff(j)
                     ELSE TimerAsBefore(j)
  /\ pc = "timers" /\ j \in Stale => TimerIsOff(j)
  /\ pc = "timers" /\ j \in command.names \ todo => TimerIsApplied(j)
  /\ pc \in {"timers"} \cup Back /\ j \notin Concerned => TimerAsBefore(j)
  /\ pc \in {"unpublish", "restore"} /\ WasInOrder /\ NothingDone =>
       TimerAsBefore(j)
  /\ pc = "unarm" /\ j \in command.names \ todo => TimerIsOff(j)
  /\ pc = "rearm" /\ j \in command.names \ command.previous.names => TimerIsOff(j)
  /\ pc = "rearm" /\ j \in command.previous.names \ todo =>
       TimerIsBack(j)

LoadedIs ==
  /\ pc \in {"moving", "publishing", "stale"} => loaded = before.loaded
  /\ pc \in {"timers", "rearm"} => loaded = files
  /\ pc \in {"unpublish", "restore"} /\ WasInOrder /\ NothingDone =>
       loaded = before.loaded
  /\ pc \in {"unarm", "rearm"} => "restoration" \notin incomplete

(* Where the contents of the registered jobs are while no command runs,    *)
(* and where they were when the command that runs began.                   *)
Home(j) == IF pc \in {"idle", "close"} THEN files[j] ELSE before.files[j]

ContentsAre ==
  ~torn => \A j \in registry.names :
             contents[j] # NoUnit /\ contents[j] \in {Home(j)} \cup {o[j] : o \in orphaned}

OutcomeIs ==
  /\ pc # "idle" => command.outcome = "none"
  /\ pc = "close" \/ (pc = "idle" /\ command.outcome = "done") => Carried
  /\ pc = "idle" /\ command.outcome = "failed" /\ WasInOrder /\ ~torn =>
       World = before \/ Carried

CommandsInvariant ==
  /\ CommandsTypeOK /\ InBounds /\ RegistryIs
  /\ \A j \in Job : UnitIs(j) /\ TimerIs(j)
  /\ LoadedIs /\ ContentsAre /\ OutcomeIs

-----------------------------------------------------------------------------
(* Types                                                                   *)

LEMMA JobsOfManifest == \A m \in Manifests(MaxJobs) : Jobs(m) \subseteq Job
BY DEF Manifests, Entries, Jobs

LEMMA UnitVersions ==
  /\ \A c \in 0 .. MaxCommands : c \in Versions
  /\ NoUnit \in Versions /\ NoFiles \in Units
  /\ \A u \in Units, j \in Job, v \in Versions : [u EXCEPT ![j] = v] \in Units
BY DEF Versions, NoFiles, Units

LEMMA ConcludeKeeps ==
  ASSUME UnitsTypeOK, NEW outcome \in Outcomes, Conclude(outcome)
  PROVE  /\ pc' = "idle" /\ todo' = {}
         /\ command' \in [kind : {"none", "install", "uninstall"}, names : SUBSET Job,
                          on : BOOLEAN, previous : Registries, outcome : Outcomes]
         /\ command'.outcome = outcome /\ command'.kind = command.kind
         /\ command'.names = command.names /\ command'.on = command.on
         /\ command'.previous = command.previous
BY DEF UnitsTypeOK, Conclude, Go

LEMMA RegistryTypes ==
  ASSUME UnitsTypeOK
  PROVE  /\ NewRegistry \in Registries /\ NoRegistry \in Registries
         /\ (~NewRegistry.exists => NewRegistry.names = {})
         /\ NewRegistry.names \subseteq command.names
BY DEF UnitsTypeOK, NewRegistry, NoRegistry, Registries

LEMMA GiveBackKeepsTypes ==
  ASSUME UnitsTypeOK, NEW left \in SUBSET {"cleanup", "restoration", "hook"}, GiveBack(left)
  PROVE  /\ pc' = "idle" /\ todo' = {} /\ backup' = NoFiles /\ incomplete' = left
         /\ orphaned' \subseteq Units
         /\ command' \in [kind : {"none", "install", "uninstall"}, names : SUBSET Job,
                          on : BOOLEAN, previous : Registries, outcome : Outcomes]
         /\ UNCHANGED <<moved, published, commands>>
         /\ command'.kind = command.kind /\ command'.names = command.names
         /\ command'.on = command.on /\ command'.previous = command.previous
         /\ left # {} => command'.outcome = "recovery" /\ orphaned' = orphaned \cup {backup}
         /\ left = {} => command'.outcome = "failed" /\ orphaned' = orphaned
<1>1. CASE left # {}
  <2>1. "recovery" \in Outcomes /\ Conclude("recovery") /\ orphaned' = orphaned \cup {backup}
    BY <1>1 DEF GiveBack, Outcomes
  <2> QED BY <1>1, <2>1, ConcludeKeeps DEF GiveBack, UnitsTypeOK
<1>2. CASE left = {}
  <2>1. "failed" \in Outcomes /\ Conclude("failed") /\ orphaned' = orphaned
    BY <1>2 DEF GiveBack, Outcomes
  <2> QED BY <1>2, <2>1, ConcludeKeeps DEF GiveBack, UnitsTypeOK
<1> QED BY <1>1, <1>2

LEMMA TimersMayBecomeTypes ==
  ASSUME UnitsTypeOK, NEW j \in Job, NEW on \in BOOLEAN, TimersMayBecome(on, j)
  PROVE  /\ enabled' \subseteq Job /\ active' \subseteq Job
         /\ \A k \in Job \ {j} : (k \in enabled' <=> k \in enabled) /\ (k \in active' <=> k \in active)
BY DEF UnitsTypeOK, TimersMayBecome

LEMMA FaultTypes ==
  ASSUME UnitsTypeOK, Fault
  PROVE  faults' \in 0 .. MaxFaults
BY BoundAssumption DEF UnitsTypeOK, Fault

LEMMA UnitsTypesInitially == UnitsInit => UnitsTypeOK
<1> SUFFICES ASSUME UnitsInit PROVE UnitsTypeOK
  OBVIOUS
<1>1. /\ registry \in Registries /\ files \in Units /\ enabled \subseteq Job
      /\ loaded \in Units /\ active \subseteq Job
  <2>1. PICK names \in SUBSET Job, on \in BOOLEAN :
          /\ registry = IF names = {} THEN NoRegistry
                        ELSE [names |-> names, on |-> on, exists |-> TRUE]
          /\ files = [j \in Job |-> IF j \in names THEN 0 ELSE NoUnit]
          /\ enabled = IF on THEN names ELSE {}
    BY DEF UnitsInit
  <2>2. 0 \in Versions
    BY BoundAssumption DEF Versions
  <2> QED BY <2>1, <2>2, UnitVersions DEF UnitsInit, Registries, NoRegistry, Units
<1>2. command \in [kind : {"none", "install", "uninstall"}, names : SUBSET Job, on : BOOLEAN,
                   previous : Registries, outcome : Outcomes]
  BY DEF UnitsInit, Registries, NoRegistry, Outcomes
<1> QED BY <1>1, <1>2, UnitVersions, BoundAssumption DEF UnitsInit, UnitsTypeOK, Places

LEMMA BeginTypes ==
  ASSUME UnitsTypeOK, commands < MaxCommands,
         NEW kind \in {"install", "uninstall"}, NEW names \in SUBSET Job, NEW on \in BOOLEAN,
         NEW outcome \in Outcomes, Begin(kind, names, on, outcome), pc = "idle",
         UNCHANGED faults \/ Fault
  PROVE  UnitsTypeOK'
<1>1. commands' \in 0 .. MaxCommands /\ faults' \in 0 .. MaxFaults
  BY FaultTypes, BoundAssumption DEF UnitsTypeOK, Begin
<1>2. pc' \in Places /\ todo' \subseteq Job
  BY DEF UnitsTypeOK, Begin, Go, Places, Registries
<1> QED BY <1>1, <1>2, UnitVersions DEF UnitsTypeOK, Begin, world, Registries

LEMMA UnitsStepTypes ==
  ASSUME UnitsTypeOK, UnitsStep
  PROVE  UnitsTypeOK'
<1>1. /\ registry \in Registries /\ files \in Units /\ loaded \in Units /\ backup \in Units
      /\ enabled \subseteq Job /\ active \subseteq Job /\ moved \subseteq Job
      /\ published \subseteq Job /\ todo \subseteq Job /\ orphaned \subseteq Units /\ pc \in Places
      /\ incomplete \subseteq {"cleanup", "restoration", "hook"}
      /\ commands \in 0 .. MaxCommands /\ faults \in 0 .. MaxFaults
      /\ command.names \subseteq Job /\ command.previous.names \subseteq Job
      /\ command.on \in BOOLEAN /\ command.previous.on \in BOOLEAN
  BY DEF UnitsTypeOK, Registries
<1> DEFINE CommandType == [kind : {"none", "install", "uninstall"}, names : SUBSET Job,
                           on : BOOLEAN, previous : Registries, outcome : Outcomes]
<1>2. command \in CommandType
  BY DEF UnitsTypeOK
<1> USE <1>1, <1>2, UnitVersions
<1>3. faults' \in 0 .. MaxFaults /\ commands' \in 0 .. MaxCommands
  BY FaultTypes
  DEF UnitsStep, MoveAside, RefuseUnowned, Publish, DisableStale, ApplyTimer, Unpublish, Restore,
      Unarm, Rearm, RenameFails, Moved, Published, ReloadPublished, HookFails, Record, RecordFails,
      Close, Unpublished, Restored, ReloadRestored, RolledBack, RollbackHookFails, Die, TimerLoop,
      TimerFails, Reload, ReloadFails, GiveBack, Same
<1>4. /\ registry' \in Registries /\ files' \in Units /\ loaded' \in Units
      /\ enabled' \subseteq Job /\ active' \subseteq Job
  <2>1. ASSUME NEW j \in Job,
               \/ MoveAside(j) \/ RefuseUnowned(j) \/ Publish(j) \/ DisableStale(j) \/ ApplyTimer(j)
               \/ Unpublish(j) \/ Restore(j) \/ Unarm(j) \/ Rearm(j)
        PROVE  /\ registry' \in Registries /\ files' \in Units /\ loaded' \in Units
               /\ enabled' \subseteq Job /\ active' \subseteq Job
    BY <2>1 DEF MoveAside, RefuseUnowned, Publish, DisableStale, ApplyTimer, Unpublish, Restore,
      Unarm, Rearm, TimerLoop, SetTimer, world, Units
  <2>2. CASE \/ RenameFails \/ Moved \/ Published \/ ReloadPublished \/ Close \/ Unpublished \/ Restored
             \/ ReloadRestored \/ RolledBack \/ Die
    BY <2>2 DEF RenameFails, Moved, Published, ReloadPublished, Close, Unpublished, Restored,
       ReloadRestored, RolledBack, Die, Reload, world
  <2>3. CASE Record \/ RecordFails
    BY <2>3, RegistryTypes DEF Record, RecordFails
  <2>4. CASE HookFails
    BY <2>4, TimersMayBecomeTypes DEF HookFails, TimerFails, ReloadFails
  <2>5. CASE RollbackHookFails
    BY <2>5, TimersMayBecomeTypes DEF RollbackHookFails
  <2> QED BY <2>1, <2>2, <2>3, <2>4, <2>5 DEF UnitsStep
<1>5. /\ backup' \in Units /\ moved' \subseteq Job /\ published' \subseteq Job
      /\ incomplete' \subseteq {"cleanup", "restoration", "hook"}
      /\ todo' \subseteq Job /\ orphaned' \subseteq Units /\ pc' \in Places
      /\ command' \in CommandType
  <2>1. ASSUME NEW j \in Job,
               \/ MoveAside(j) \/ RefuseUnowned(j) \/ Publish(j) \/ DisableStale(j) \/ ApplyTimer(j)
               \/ Unpublish(j) \/ Restore(j) \/ Unarm(j) \/ Rearm(j)
        PROVE  /\ backup' \in Units /\ moved' \subseteq Job /\ published' \subseteq Job
               /\ incomplete' \subseteq {"cleanup", "restoration", "hook"}
               /\ todo' \subseteq Job /\ pc' \in Places
    <3>1. files[j] \in Versions
      BY DEF Units
    <3>2. backup' \in Units
      <4>1. backup' \in {backup, [backup EXCEPT ![j] = files[j]], [backup EXCEPT ![j] = NoUnit]}
        BY <2>1 DEF MoveAside, RefuseUnowned, Publish, DisableStale, ApplyTimer, Unpublish,
           Restore, Unarm, Rearm, TimerLoop, progress
      <4> QED BY <3>1, <4>1
    <3>3. moved' \subseteq Job /\ published' \subseteq Job
      BY <2>1 DEF MoveAside, RefuseUnowned, Publish, DisableStale, ApplyTimer, Unpublish, Restore,
         Unarm, Rearm, TimerLoop, progress
    <3>4. incomplete' \subseteq {"cleanup", "restoration", "hook"}
      BY <2>1 DEF MoveAside, RefuseUnowned, Publish, DisableStale, ApplyTimer, Unpublish, Restore,
         Unarm, Rearm, TimerLoop, progress
    <3>5. todo' \subseteq Job /\ pc' \in Places
      BY <2>1 DEF MoveAside, RefuseUnowned, Publish, DisableStale, ApplyTimer, Unpublish, Restore,
         Unarm, Rearm, TimerLoop, Leave, RollBack, Go, Places
    <3> QED BY <3>2, <3>3, <3>4, <3>5
  <2>2. CASE \/ RenameFails \/ Moved \/ Published \/ ReloadPublished \/ Unpublished \/ Restored
             \/ ReloadRestored \/ HookFails \/ Record \/ RecordFails
    BY <2>2 DEF RenameFails, Moved, Published, ReloadPublished, Unpublished, Restored,
       ReloadRestored, HookFails, Record, RecordFails, TimerFails, ReloadFails, Reload, RollBack, Go,
       progress, Places, Same, Stale
  <2>3. CASE Close
    <3>1. PICK outcome \in {"done", "failed"} : Conclude(outcome)
      BY <2>3 DEF Close
    <3>2. outcome \in Outcomes
      BY DEF Outcomes
    <3> QED BY <2>3, <3>1, <3>2, ConcludeKeeps DEF Close, Places
  <2>4. CASE Die
    BY <2>4, ConcludeKeeps DEF Die, Places, Outcomes
  <2>5. CASE RolledBack
    BY <2>5, GiveBackKeepsTypes DEF RolledBack, Places
  <2>6. CASE RollbackHookFails
    <3>1. GiveBack(incomplete \cup {"hook"}) /\ incomplete \cup {"hook"} \subseteq {"cleanup", "restoration", "hook"}
      BY <2>6 DEF RollbackHookFails
    <3> QED BY <3>1, GiveBackKeepsTypes DEF Places
  <2>7. ASSUME NEW j \in Job,
               \/ MoveAside(j) \/ RefuseUnowned(j) \/ Publish(j) \/ DisableStale(j) \/ ApplyTimer(j)
               \/ Unpublish(j) \/ Restore(j) \/ Unarm(j) \/ Rearm(j)
        PROVE  UNCHANGED <<command, orphaned>>
    BY <2>7 DEF MoveAside, RefuseUnowned, Publish, DisableStale, ApplyTimer, Unpublish, Restore,
      Unarm, Rearm, TimerLoop, Same
  <2> QED BY <2>1, <2>2, <2>3, <2>4, <2>5, <2>6, <2>7 DEF UnitsStep
<1> QED BY <1>3, <1>4, <1>5 DEF UnitsTypeOK

-----------------------------------------------------------------------------
(* The steps of a command                                                  *)

Steady == UNCHANGED <<command, orphaned, commands, before, contents, torn>>

LEMMA Remembered ==
  ASSUME CommandsInvariant, Remember, UNCHANGED <<registry, command, orphaned, commands>>,
         ~(pc = "timers" /\ pc' = "close")
  PROVE  Steady
<1>1. torn \in BOOLEAN
  BY DEF CommandsInvariant, CommandsTypeOK
<1>2. torn' = torn
  <2>1. CASE torn
    BY <2>1 DEF Remember
  <2>2. CASE ~torn
    BY <1>1, <2>2 DEF Remember
  <2> QED BY <2>1, <2>2
<1> QED BY <1>2 DEF Remember, Steady

LEMMA OrderRemembered ==
  ASSUME UNCHANGED before
  PROVE  WasInOrder' <=> WasInOrder
BY DEF WasInOrder, InOrder

(* What a step within a command keeps when the registry stays as it is.    *)
LEMMA WithinCommand ==
  ASSUME CommandsInvariant, UnitsTypeOK', Steady, UNCHANGED registry,
         pc \in Forward \cup Back, pc' \in Forward \cup Back, pc \in Back => pc' \in Back
  PROVE  CommandsTypeOK' /\ RegistryIs' /\ ContentsAre' /\ OutcomeIs'
<1>1. CommandsTypeOK'
  BY DEF CommandsInvariant, CommandsTypeOK, Steady
<1>2. pc \notin {"idle", "close"} /\ pc' \notin {"idle", "close"}
  BY DEF Forward, Back
<1>3. RegistryIs'
  BY <1>2 DEF CommandsInvariant, RegistryIs, Steady, Forward, Back
<1>4. ContentsAre'
  <2> SUFFICES ASSUME ~torn', NEW j \in registry'.names
               PROVE  contents'[j] # NoUnit /\ contents'[j] \in {Home(j)'} \cup {o[j] : o \in orphaned'}
    BY DEF ContentsAre
  <2>1. Home(j)' = Home(j)
    BY <1>2 DEF Home, Steady
  <2>2. /\ contents[j] # NoUnit /\ contents[j] \in {Home(j)} \cup {o[j] : o \in orphaned}
    BY DEF CommandsInvariant, ContentsAre, Steady
  <2> QED BY <2>1, <2>2 DEF Steady
<1>5. OutcomeIs'
  BY <1>2 DEF CommandsInvariant, OutcomeIs, Steady
<1> QED BY <1>1, <1>3, <1>4, <1>5

(* Turning back: no file has moved since the last one that was recorded.   *)
LEMMA TurnsBack ==
  ASSUME CommandsInvariant, pc \in Forward, RollBack,
         UNCHANGED <<files, progress, command, commands, before>>
  PROVE  /\ InBounds' /\ pc' = "unpublish"
         /\ \A j \in Job : UnitIs(j)'
<1>1. pc' = "unpublish" /\ todo' = published
  BY DEF RollBack, Go
<1>2. InBounds'
  BY <1>1 DEF CommandsInvariant, InBounds, progress, Concerned
<1>3. ASSUME NEW j \in Job PROVE UnitIs(j)'
  <2>1. UnitIs(j) /\ InBounds
    BY DEF CommandsInvariant
  <2>2. CASE j \in Concerned /\ (pc = "moving" => j \notin todo)
    <3>1. Aside(j) /\ files[j] = IF j \in published THEN commands ELSE NoUnit
      BY <2>1, <2>2 DEF UnitIs
    <3> QED BY <1>1, <3>1 DEF UnitIs, Aside, progress, Forward
  <2>3. CASE ~(j \in Concerned /\ (pc = "moving" => j \notin todo))
    <3>1. Untouched(j) /\ j \notin published
      BY <2>1, <2>3 DEF UnitIs, InBounds, Concerned
    <3> QED BY <1>1, <3>1 DEF UnitIs, Untouched, progress, Forward
  <2> QED BY <2>2, <2>3
<1> QED BY <1>1, <1>2, <1>3

(* The timers and what systemd has loaded are as they were, on the way     *)
(* there, when no file has moved or when the command's loop has not begun. *)
LEMMA TurnsBackQuietly ==
  ASSUME CommandsInvariant, pc \in Forward, RollBack,
         UNCHANGED <<files, progress, command, commands, before>>,
         \A j \in Job : j \notin Concerned \/ (WasInOrder /\ NothingDone) => TimerAsBefore(j)',
         WasInOrder /\ NothingDone => loaded' = before.loaded
  PROVE  LoadedIs' /\ \A j \in Job : TimerIs(j)'
<1>1. pc' = "unpublish" /\ (WasInOrder' <=> WasInOrder)
  BY OrderRemembered DEF RollBack, Go
<1>2. (NothingDone' <=> NothingDone) /\ Concerned' = Concerned
  BY DEF NothingDone, Concerned, progress
<1>3. LoadedIs'
  BY <1>1, <1>2 DEF LoadedIs
<1>4. ASSUME NEW j \in Job PROVE TimerIs(j)'
  BY <1>1, <1>2 DEF TimerIs
<1> QED BY <1>3, <1>4

(* When no file was moved or published, the command is about no job that   *)
(* was installed in order.                                                 *)
LEMMA NothingConcerned ==
  ASSUME CommandsInvariant, pc \in {"stale", "timers"}, WasInOrder, NothingDone
  PROVE  /\ \A j \in Job : j \notin Concerned
         /\ files = before.files
<1>1. /\ command.names = {} /\ moved = {} /\ published = {}
  BY DEF CommandsInvariant, InBounds, NothingDone
<1>2. ASSUME NEW j \in Job PROVE j \notin Concerned /\ files[j] = before.files[j]
  <2>1. UnitIs(j) /\ command.previous = before.registry
    BY DEF CommandsInvariant, RegistryIs
  <2>2. CASE j \in Concerned
    <3>1. Aside(j)
      BY <2>1, <2>2 DEF UnitIs, Forward
    <3>2. before.files[j] = NoUnit
      BY <1>1, <3>1 DEF Aside
    <3>3. j \in before.registry.names
      BY <1>1, <2>1, <2>2 DEF Concerned
    <3> QED BY <3>2, <3>3 DEF WasInOrder, InOrder
  <2>3. CASE j \notin Concerned
    BY <2>1, <2>3 DEF UnitIs, Forward, Untouched
  <2> QED BY <2>2, <2>3
<1>3. files \in [Job -> Versions] /\ before.files \in [Job -> Versions]
  BY DEF CommandsInvariant, CommandsTypeOK, UnitsTypeOK, Units
<1> QED BY <1>2, <1>3

LEMMA MoveAsideKeeps ==
  ASSUME CommandsInvariant, UnitsTypeOK', Remember, NEW j \in Job, MoveAside(j)
  PROVE  CommandsInvariant'
<1>1. /\ pc = "moving" /\ pc' = "moving" /\ j \in todo /\ todo' = todo \ {j}
      /\ UNCHANGED <<registry, loaded, enabled, active, published, incomplete>>
      /\ Steady /\ UNCHANGED registry
  BY Remembered DEF MoveAside, At, Leave, Same
<1>2. CommandsTypeOK' /\ RegistryIs' /\ ContentsAre' /\ OutcomeIs'
  BY <1>1, WithinCommand DEF Forward, Back
<1>3. j \in Concerned /\ Concerned' = Concerned /\ published = {}
  BY <1>1 DEF CommandsInvariant, InBounds, Concerned, Steady
<1>4. moved' \in {moved, moved \cup {j}}
  BY DEF MoveAside
<1>5. InBounds'
  BY <1>1, <1>3, <1>4 DEF CommandsInvariant, InBounds, Steady, Concerned
<1>6. ASSUME NEW k \in Job PROVE UnitIs(k)' /\ TimerIs(k)'
  <2>1. UnitIs(k) /\ TimerIs(k) /\ UnitIs(j)
    BY DEF CommandsInvariant
  <2>2. files \in [Job -> Versions] /\ backup \in [Job -> Versions]
    BY DEF CommandsInvariant, CommandsTypeOK, UnitsTypeOK, Units
  <2>3. CASE k = j
    <3>1. Untouched(j)
      BY <1>1, <2>1 DEF UnitIs, Forward
    <3>2. Aside(j)' /\ files'[j] = NoUnit
      BY <2>2, <3>1, <1>1 DEF MoveAside, Untouched, Aside, Steady
    <3> QED BY <1>1, <1>3, <2>1, <2>3, <3>2 DEF UnitIs, TimerIs, TimerAsBefore, Back, Steady
  <2>4. CASE k # j
    <3>1. files'[k] = files[k] /\ backup'[k] = backup[k] /\ (k \in moved' <=> k \in moved)
      BY <2>2, <2>4 DEF MoveAside
    <3>2. UnitIs(k)'
      BY <1>1, <1>3, <2>1, <2>4, <3>1 DEF UnitIs, Aside, Untouched, Forward, Steady
    <3>3. TimerIs(k)'
      BY <1>1, <2>1 DEF TimerIs, TimerAsBefore, Back, Steady
    <3> QED BY <3>2, <3>3
  <2> QED BY <2>3, <2>4
<1>7. LoadedIs'
  BY <1>1 DEF CommandsInvariant, LoadedIs, Steady
<1> QED BY <1>2, <1>5, <1>6, <1>7 DEF CommandsInvariant

LEMMA RefusalKeeps ==
  ASSUME CommandsInvariant, UnitsTypeOK', Remember,
         RenameFails \/ \E j \in Job : RefuseUnowned(j)
  PROVE  CommandsInvariant'
<1>1. /\ pc \in {"moving", "publishing"} /\ RollBack /\ UNCHANGED <<world, progress>>
      /\ UNCHANGED <<commands, orphaned, command>>
  BY DEF RenameFails, RefuseUnowned, At, Same
<1>2. pc' = "unpublish" /\ Steady /\ UNCHANGED registry
  BY <1>1, Remembered DEF RollBack, Go, world
<1>3. CommandsTypeOK' /\ RegistryIs' /\ ContentsAre' /\ OutcomeIs'
  BY <1>1, <1>2, WithinCommand DEF Forward, Back
<1>4. InBounds' /\ \A j \in Job : UnitIs(j)'
  BY <1>1, <1>2, TurnsBack DEF world, Forward, Steady
<1>5. LoadedIs' /\ \A j \in Job : TimerIs(j)'
  <2>1. loaded' = before.loaded
    BY <1>1 DEF CommandsInvariant, LoadedIs, world
  <2>2. \A j \in Job : TimerAsBefore(j)'
    BY <1>1, <1>2 DEF CommandsInvariant, TimerIs, TimerAsBefore, world, Steady
  <2> QED BY <1>1, <1>2, <2>1, <2>2, TurnsBackQuietly DEF world, Forward, Steady
<1> QED BY <1>3, <1>4, <1>5 DEF CommandsInvariant

LEMMA PublishKeeps ==
  ASSUME CommandsInvariant, UnitsTypeOK', Remember, NEW j \in Job, Publish(j)
  PROVE  CommandsInvariant'
<1>1. /\ pc = "publishing" /\ pc' = "publishing" /\ j \in todo /\ todo' = todo \ {j}
      /\ published' = published \cup {j} /\ files' = [files EXCEPT ![j] = commands]
      /\ UNCHANGED <<registry, loaded, enabled, active, moved, backup, incomplete>> /\ Steady
  BY Remembered DEF Publish, At, Leave, Same
<1>2. CommandsTypeOK' /\ RegistryIs' /\ ContentsAre' /\ OutcomeIs'
  BY <1>1, WithinCommand DEF Forward, Back
<1>3. j \in command.names /\ Concerned' = Concerned
  BY <1>1 DEF CommandsInvariant, InBounds, Concerned, Steady
<1>5. InBounds'
  BY <1>1, <1>3 DEF CommandsInvariant, InBounds, Steady, Concerned
<1>6. ASSUME NEW k \in Job PROVE UnitIs(k)' /\ TimerIs(k)'
  <2>1. UnitIs(k) /\ TimerIs(k)
    BY DEF CommandsInvariant
  <2>2. files'[k] = IF k = j THEN commands ELSE files[k]
    BY <1>1 DEF CommandsInvariant, CommandsTypeOK, UnitsTypeOK, Units
  <2>3. UnitIs(k)'
    BY <1>1, <1>3, <2>1, <2>2 DEF UnitIs, Aside, Untouched, Forward, Concerned, Steady
  <2>4. TimerIs(k)'
    BY <1>1, <2>1 DEF TimerIs, TimerAsBefore, Back, Steady
  <2> QED BY <2>3, <2>4
<1>7. LoadedIs'
  BY <1>1 DEF CommandsInvariant, LoadedIs, Steady
<1> QED BY <1>2, <1>5, <1>6, <1>7 DEF CommandsInvariant

LEMMA MovedKeeps ==
  ASSUME CommandsInvariant, UnitsTypeOK', Remember, Moved \/ Published
  PROVE  CommandsInvariant'
<1>1. /\ todo = {} /\ UNCHANGED <<world, progress>> /\ Steady
      /\ \/ pc = "moving" /\ pc' = "publishing" /\ todo' = command.names
         \/ pc = "publishing" /\ pc' = "stale" /\ todo' = Stale
  BY Remembered DEF Moved, Published, Finished, Go, Same, world
<1>2. CommandsTypeOK' /\ RegistryIs' /\ ContentsAre' /\ OutcomeIs'
  BY <1>1, WithinCommand DEF Forward, Back, world
<1>3. Concerned' = Concerned /\ Stale' = Stale
  BY <1>1 DEF Concerned, Stale, Steady
<1>4. InBounds'
  BY <1>1, <1>3 DEF CommandsInvariant, InBounds, Steady, Concerned, Stale, progress
<1>5. ASSUME NEW k \in Job PROVE UnitIs(k)' /\ TimerIs(k)'
  <2>1. UnitIs(k) /\ TimerIs(k)
    BY DEF CommandsInvariant
  <2>2. UnitIs(k)'
    BY <1>1, <1>3, <2>1 DEF UnitIs, Aside, Untouched, Forward, Steady, world, progress
  <2>3. TimerIs(k)'
    BY <1>1, <1>3, <2>1 DEF TimerIs, TimerAsBefore, Back, Steady, world
  <2> QED BY <2>2, <2>3
<1>6. LoadedIs'
  BY <1>1 DEF CommandsInvariant, LoadedIs, Steady, world
<1> QED BY <1>2, <1>4, <1>5, <1>6 DEF CommandsInvariant

(* A timer of a loop is set, and those of the other jobs stay as they are. *)
LEMMA TimerLoopKeeps ==
  ASSUME CommandsInvariant, UnitsTypeOK', Remember, NEW j \in Job,
         DisableStale(j) \/ ApplyTimer(j) \/ Unarm(j) \/ Rearm(j)
  PROVE  CommandsInvariant'
<1>1. /\ pc \in {"stale", "timers", "unarm", "rearm"} /\ pc' = pc /\ j \in todo
      /\ todo' = todo \ {j} /\ UNCHANGED <<registry, files, loaded, progress>> /\ Steady
  BY Remembered DEF DisableStale, ApplyTimer, Unarm, Rearm, TimerLoop, At, Leave, Same
<1>2. CommandsTypeOK' /\ RegistryIs' /\ ContentsAre' /\ OutcomeIs'
  BY <1>1, WithinCommand DEF Forward, Back
<1>3. Concerned' = Concerned /\ Stale' = Stale
  BY <1>1 DEF Concerned, Stale, Steady
<1>4. InBounds'
  BY <1>1, <1>3 DEF CommandsInvariant, InBounds, Steady, Stale, progress
<1>5. LoadedIs'
  BY <1>1 DEF CommandsInvariant, LoadedIs, Steady, progress
<1>6. ASSUME NEW k \in Job PROVE UnitIs(k)' /\ TimerIs(k)'
  <2>1. UnitIs(k) /\ TimerIs(k)
    BY DEF CommandsInvariant
  <2>2. UnitIs(k)'
    BY <1>1, <1>3, <2>1
    DEF UnitIs, Aside, Untouched, Cleared, Forward, Steady, progress
  <2>3. CASE k # j
    <3>1. (k \in enabled' <=> k \in enabled) /\ (k \in active' <=> k \in active)
      BY <2>3 DEF DisableStale, ApplyTimer, Unarm, Rearm, TimerLoop, SetTimer
    <3> QED BY <1>1, <1>3, <2>1, <2>2, <2>3, <3>1
          DEF TimerIs, TimerAsBefore, TimerIsOff, TimerIsApplied, TimerIsBack, Steady, Back
  <2>4. CASE k = j
    <3>1. /\ pc = "stale" => j \in Stale /\ TimerIsOff(j)'
          /\ pc = "timers" => j \in command.names /\ TimerIsApplied(j)'
          /\ pc = "unarm" => j \in command.names /\ TimerIsOff(j)'
          /\ pc = "rearm" => j \in command.previous.names /\ TimerIsBack(j)'
      BY <1>1 DEF DisableStale, ApplyTimer, Unarm, Rearm, TimerLoop, SetTimer, At,
         CommandsInvariant, InBounds, TimerIsOff, TimerIsApplied, TimerIsBack, Steady
    <3> QED BY <1>1, <1>3, <2>2, <2>4, <3>1 DEF TimerIs, Steady, Concerned, Stale, Back
  <2> QED BY <2>3, <2>4
<1> QED BY <1>2, <1>4, <1>5, <1>6 DEF CommandsInvariant

LEMMA ReloadKeeps ==
  ASSUME CommandsInvariant, UnitsTypeOK', Remember, ReloadPublished \/ ReloadRestored
  PROVE  CommandsInvariant'
<1>1. /\ todo = {} /\ loaded' = files
      /\ UNCHANGED <<registry, files, enabled, active, progress>> /\ Steady
      /\ \/ pc = "stale" /\ pc' = "timers" /\ todo' = command.names
         \/ pc = "unarm" /\ pc' = "rearm" /\ todo' = command.previous.names
  BY Remembered DEF ReloadPublished, ReloadRestored, Reload, Finished, Go, Same
<1>2. CommandsTypeOK' /\ RegistryIs' /\ ContentsAre' /\ OutcomeIs'
  BY <1>1, WithinCommand DEF Forward, Back
<1>3. Concerned' = Concerned /\ Stale' = Stale
  BY <1>1 DEF Concerned, Stale, Steady
<1>4. InBounds'
  BY <1>1, <1>3 DEF CommandsInvariant, InBounds, Steady, Stale, progress
<1>5. LoadedIs'
  BY <1>1 DEF CommandsInvariant, LoadedIs, Steady, progress
<1>6. ASSUME NEW k \in Job PROVE UnitIs(k)' /\ TimerIs(k)'
  <2>1. UnitIs(k) /\ TimerIs(k)
    BY DEF CommandsInvariant
  <2>2. UnitIs(k)'
    BY <1>1, <1>3, <2>1 DEF UnitIs, Aside, Untouched, Cleared, Forward, Steady, progress
  <2>3. TimerIs(k)'
    BY <1>1, <1>3, <2>1
    DEF TimerIs, TimerAsBefore, TimerIsOff, Steady, Back, Stale, Concerned
  <2> QED BY <2>2, <2>3
<1> QED BY <1>2, <1>4, <1>5, <1>6 DEF CommandsInvariant

LEMMA HookFailureKeeps ==
  ASSUME CommandsInvariant, UnitsTypeOK', Remember, HookFails
  PROVE  CommandsInvariant'
<1>1. /\ pc \in {"stale", "timers"} /\ RollBack /\ UNCHANGED <<registry, files, progress>>
      /\ UNCHANGED <<commands, orphaned, command>>
  BY DEF HookFails, TimerFails, ReloadFails, At, Finished, Same
<1>2. pc' = "unpublish" /\ Steady
  BY <1>1, Remembered DEF RollBack, Go
<1>3. CommandsTypeOK' /\ RegistryIs' /\ ContentsAre' /\ OutcomeIs'
  BY <1>1, <1>2, WithinCommand DEF Forward, Back
<1>4. InBounds' /\ \A j \in Job : UnitIs(j)'
  BY <1>1, <1>2, TurnsBack DEF Forward, Steady
<1>5. \A j \in Job : j \notin Concerned => TimerAsBefore(j)'
  <2> SUFFICES ASSUME NEW k \in Job, k \notin Concerned PROVE TimerAsBefore(k)'
    OBVIOUS
  <2>1. TimerAsBefore(k)
    <3>1. k \notin Stale /\ TimerIs(k)
      BY DEF Stale, Concerned, CommandsInvariant
    <3> QED BY <1>1, <3>1 DEF TimerIs
  <2>2. (k \in enabled' <=> k \in enabled) /\ (k \in active' <=> k \in active)
    <3>1. CASE UNCHANGED <<enabled, active>>
      BY <3>1
    <3>2. CASE \E j \in Job : TimerFails("stale", FALSE, j)
      <4>1. PICK j \in Job : TimerFails("stale", FALSE, j)
        BY <3>2
      <4>2. j # k
        BY <4>1 DEF TimerFails, At, CommandsInvariant, InBounds, Stale, Concerned
      <4> QED BY <4>1, <4>2 DEF TimerFails, TimersMayBecome
    <3>3. CASE \E j \in Job : TimerFails("timers", command.on, j)
      <4>1. PICK j \in Job : TimerFails("timers", command.on, j)
        BY <3>3
      <4>2. j # k
        BY <4>1 DEF TimerFails, At, CommandsInvariant, InBounds, Concerned
      <4> QED BY <4>1, <4>2 DEF TimerFails, TimersMayBecome
    <3> QED BY <3>1, <3>2, <3>3 DEF HookFails, ReloadFails
  <2> QED BY <2>1, <2>2, <1>2 DEF TimerAsBefore, Steady
<1>6. WasInOrder /\ NothingDone => loaded' = before.loaded
  <2> SUFFICES ASSUME WasInOrder, NothingDone PROVE loaded' = before.loaded
    OBVIOUS
  <2>1. /\ \A j \in Job : j \notin Concerned
        /\ files = before.files /\ before.files = before.loaded
    BY <1>1, NothingConcerned DEF WasInOrder, InOrder
  <2>2. todo = {}
    BY <1>1, <2>1 DEF CommandsInvariant, InBounds, CommandsTypeOK, UnitsTypeOK, Stale, Concerned
  <2>3. pc = "stale" /\ loaded' \in {loaded, files}
    BY <2>2 DEF HookFails, TimerFails, At, ReloadFails
  <2> QED BY <2>1, <2>3 DEF CommandsInvariant, LoadedIs
<1>7. WasInOrder /\ NothingDone => \A j \in Job : j \notin Concerned
  BY <1>1, NothingConcerned
<1>8. LoadedIs' /\ \A j \in Job : TimerIs(j)'
  BY <1>1, <1>2, <1>5, <1>6, <1>7, TurnsBackQuietly DEF Forward, Steady
<1> QED BY <1>3, <1>4, <1>8 DEF CommandsInvariant

LEMMA RecordKeeps ==
  ASSUME CommandsInvariant, UnitsTypeOK', Remember, Record
  PROVE  CommandsInvariant'
<1>1. /\ pc = "timers" /\ pc' = "close" /\ todo = {} /\ todo' = {} /\ registry' = NewRegistry
      /\ UNCHANGED <<files, loaded, enabled, active, progress, command, orphaned, commands>>
      /\ UNCHANGED before /\ contents' = files
  BY DEF Record, Finished, Go, Same, Remember
<1>2. torn' \in BOOLEAN
  BY <1>1 DEF Remember, CommandsInvariant, CommandsTypeOK
<1>3. CommandsTypeOK'
  BY <1>1, <1>2 DEF CommandsInvariant, CommandsTypeOK, UnitsTypeOK
<1>4. UnitsTypeOK /\ InBounds /\ RegistryIs /\ LoadedIs
  BY DEF CommandsInvariant, CommandsTypeOK
<1>5. InBounds' /\ LoadedIs'
  BY <1>1, <1>4 DEF InBounds, LoadedIs, progress, Concerned
<1>6. RegistryIs'
  BY <1>1, <1>4, RegistryTypes DEF RegistryIs, Forward, Back
<1>7. \A j \in Job : UnitIs(j)' /\ TimerIs(j)'
  BY <1>1 DEF UnitIs, TimerIs, Forward, Back
<1>8. ASSUME NEW j \in Job
      PROVE  \/ /\ j \in Concerned
                /\ files[j] = IF j \in command.names THEN commands ELSE NoUnit
                /\ loaded[j] = files[j]
                /\ (j \in enabled) = (j \in command.names /\ command.on)
                /\ (j \in active) = (j \in enabled)
             \/ /\ j \notin Concerned
                /\ files[j] = before.files[j]
                /\ (j \in enabled) = (j \in before.enabled)
                /\ (j \in active) = (j \in before.active)
  <2>1. UnitIs(j) /\ TimerIs(j) /\ published = command.names /\ loaded = files
    BY <1>1, <1>4 DEF CommandsInvariant, InBounds, LoadedIs
  <2>2. CASE j \in Concerned
    <3>1. files[j] = IF j \in command.names THEN commands ELSE NoUnit
      BY <1>1, <2>1, <2>2 DEF UnitIs, Forward
    <3>2. IF j \in command.names THEN TimerIsApplied(j) ELSE TimerIsOff(j)
      BY <1>1, <2>1, <2>2 DEF TimerIs, Stale, Concerned
    <3>3. /\ (j \in enabled) = (j \in command.names /\ command.on)
          /\ (j \in active) = (j \in enabled)
      BY <3>2 DEF TimerIsApplied, TimerIsOff
    <3> QED BY <2>1, <2>2, <3>1, <3>3
  <2>3. CASE j \notin Concerned
    <3>1. files[j] = before.files[j]
      BY <1>1, <2>1, <2>3 DEF UnitIs, Forward, Untouched
    <3>2. TimerAsBefore(j)
      BY <1>1, <2>1, <2>3 DEF TimerIs
    <3> QED BY <2>3, <3>1, <3>2 DEF TimerAsBefore
  <2> QED BY <2>2, <2>3
<1>9. Carried'
  <2>1. registry' = IF command.kind = "install" \/ command.previous.exists
                    THEN NewRegistry ELSE command.previous
    BY <1>1, <1>4 DEF RegistryIs
  <2>2. NewRegistry' = NewRegistry
    BY <1>1 DEF NewRegistry
  <2> QED BY <1>1, <1>8, <2>1, <2>2 DEF Carried, Concerned
<1>10. OutcomeIs'
  BY <1>1, <1>9 DEF CommandsInvariant, OutcomeIs
<1>11. ContentsAre'
  <2> SUFFICES ASSUME NEW j \in registry'.names
               PROVE  contents'[j] # NoUnit /\ contents'[j] = Home(j)'
    BY DEF ContentsAre
  <2>1. j \in Job /\ j \in command.names
    BY <1>1, <1>4, RegistryTypes DEF UnitsTypeOK
  <2>2. files[j] = commands
    BY <1>8, <2>1 DEF Concerned
  <2>3. commands # NoUnit
    BY <1>4, UnitAssumption DEF UnitsTypeOK
  <2> QED BY <1>1, <2>2, <2>3 DEF Home
<1> QED BY <1>3, <1>5, <1>6, <1>7, <1>10, <1>11 DEF CommandsInvariant

LEMMA RecordFailureKeeps ==
  ASSUME CommandsInvariant, UnitsTypeOK', Remember, RecordFails
  PROVE  CommandsInvariant'
<1>1. /\ pc = "timers" /\ todo = {} /\ RollBack /\ registry' \in {registry, NewRegistry}
      /\ UNCHANGED <<files, loaded, enabled, active, progress, command, orphaned, commands>>
  BY DEF RecordFails, Finished, Same
<1>2. pc' = "unpublish" /\ UNCHANGED <<before, contents>>
  BY <1>1 DEF RollBack, Go, Remember
<1>3. InBounds' /\ \A j \in Job : UnitIs(j)'
  BY <1>1, <1>2, TurnsBack DEF Forward
<1>4. LoadedIs' /\ \A j \in Job : TimerIs(j)'
  <2>1. \A j \in Job : j \notin Concerned => TimerAsBefore(j)'
    BY <1>1, <1>2 DEF CommandsInvariant, TimerIs, TimerAsBefore
  <2>2. WasInOrder /\ NothingDone => /\ \A j \in Job : j \notin Concerned
                                     /\ loaded' = before.loaded
    BY <1>1, NothingConcerned DEF CommandsInvariant, LoadedIs, WasInOrder, InOrder
  <2> QED BY <1>1, <1>2, <2>1, <2>2, TurnsBackQuietly DEF Forward
<1>5. CASE registry' = registry
  <2>1. Steady
    BY <1>1, <1>2, <1>5, Remembered
  <2> QED BY <1>1, <1>2, <1>3, <1>4, <1>5, <2>1, WithinCommand DEF Forward, Back, CommandsInvariant
<1>6. CASE registry' # registry
  <2>1. torn' = TRUE /\ registry' = NewRegistry
    BY <1>1, <1>2, <1>6 DEF Remember
  <2>2. UnitsTypeOK /\ RegistryIs
    BY DEF CommandsInvariant, CommandsTypeOK
  <2>3. CommandsTypeOK'
    BY <1>2, <2>1 DEF CommandsInvariant, CommandsTypeOK
  <2>4. RegistryIs'
    BY <1>1, <1>2, <2>1, <2>2, RegistryTypes DEF RegistryIs, Forward, Back
  <2>5. ContentsAre' /\ OutcomeIs'
    BY <1>1, <1>2, <2>1 DEF CommandsInvariant, ContentsAre, OutcomeIs
  <2> QED BY <1>3, <1>4, <2>3, <2>4, <2>5 DEF CommandsInvariant
<1> QED BY <1>5, <1>6

-----------------------------------------------------------------------------
(* The way back                                                            *)

LEMMA UnpublishKeeps ==
  ASSUME CommandsInvariant, UnitsTypeOK', Remember, NEW j \in Job, Unpublish(j)
  PROVE  CommandsInvariant'
<1>1. /\ pc = "unpublish" /\ pc' = "unpublish" /\ j \in todo /\ todo' = todo \ {j}
      /\ UNCHANGED <<registry, loaded, enabled, active, moved, published, backup>> /\ Steady
  BY Remembered DEF Unpublish, At, Leave, Same
<1>2. CommandsTypeOK' /\ RegistryIs' /\ ContentsAre' /\ OutcomeIs'
  BY <1>1, WithinCommand DEF Forward, Back
<1>3. Concerned' = Concerned /\ (NothingDone' <=> NothingDone) /\ (WasInOrder' <=> WasInOrder)
  BY <1>1, OrderRemembered DEF Concerned, NothingDone, Steady
<1>4. InBounds' /\ j \in published
  BY <1>1, <1>3 DEF CommandsInvariant, InBounds, Steady
<1>5. LoadedIs'
  BY <1>1, <1>3 DEF CommandsInvariant, LoadedIs, Steady
<1>6. ASSUME NEW k \in Job PROVE UnitIs(k)' /\ TimerIs(k)'
  <2>1. UnitIs(k) /\ TimerIs(k)
    BY DEF CommandsInvariant
  <2>2. /\ k # j => files'[k] = files[k]
        /\ files'[j] = NoUnit \/ "cleanup" \in incomplete'
        /\ "cleanup" \in incomplete => "cleanup" \in incomplete'
    BY DEF Unpublish, CommandsInvariant, CommandsTypeOK, UnitsTypeOK, Units
  <2>3. UnitIs(k)'
    BY <1>1, <1>4, <2>1, <2>2 DEF UnitIs, Forward, Steady
  <2>4. TimerIs(k)'
    BY <1>1, <1>3, <2>1 DEF TimerIs, TimerAsBefore, Steady
  <2> QED BY <2>3, <2>4
<1> QED BY <1>2, <1>4, <1>5, <1>6 DEF CommandsInvariant

LEMMA RestoreKeeps ==
  ASSUME CommandsInvariant, UnitsTypeOK', Remember, NEW j \in Job, Restore(j)
  PROVE  CommandsInvariant'
<1>1. /\ pc = "restore" /\ pc' = "restore" /\ j \in todo /\ todo' = todo \ {j}
      /\ UNCHANGED <<registry, loaded, enabled, active, moved, published>> /\ Steady
  BY Remembered DEF Restore, At, Leave, Same
<1>2. CommandsTypeOK' /\ RegistryIs' /\ ContentsAre' /\ OutcomeIs'
  BY <1>1, WithinCommand DEF Forward, Back
<1>3. Concerned' = Concerned /\ (NothingDone' <=> NothingDone) /\ (WasInOrder' <=> WasInOrder)
  BY <1>1, OrderRemembered DEF Concerned, NothingDone, Steady
<1>4. InBounds' /\ j \in moved
  BY <1>1, <1>3 DEF CommandsInvariant, InBounds, Steady
<1>5. LoadedIs'
  BY <1>1, <1>3 DEF CommandsInvariant, LoadedIs, Steady
<1>6. ASSUME NEW k \in Job PROVE UnitIs(k)' /\ TimerIs(k)'
  <2>1. UnitIs(k) /\ TimerIs(k) /\ UnitIs(j)
    BY DEF CommandsInvariant
  <2>2. /\ k # j => files'[k] = files[k] /\ backup'[k] = backup[k]
        /\ \/ files'[j] = backup[j] /\ backup'[j] = NoUnit
           \/ "restoration" \in incomplete' /\ backup'[j] = backup[j]
        /\ "restoration" \in incomplete => "restoration" \in incomplete'
        /\ "cleanup" \in incomplete => "cleanup" \in incomplete'
    BY DEF Restore, CommandsInvariant, CommandsTypeOK, UnitsTypeOK, Units
  <2>3. UnitIs(k)'
    BY <1>1, <1>4, <2>1, <2>2 DEF UnitIs, Cleared, Forward, Steady
  <2>4. TimerIs(k)'
    BY <1>1, <1>3, <2>1 DEF TimerIs, TimerAsBefore, Steady
  <2> QED BY <2>3, <2>4
<1> QED BY <1>2, <1>4, <1>5, <1>6 DEF CommandsInvariant

LEMMA RestoredKeeps ==
  ASSUME CommandsInvariant, UnitsTypeOK', Remember, Unpublished \/ Restored
  PROVE  CommandsInvariant'
<1>1. /\ todo = {} /\ UNCHANGED <<world, progress>> /\ Steady
      /\ \/ pc = "unpublish" /\ pc' = "restore" /\ todo' = moved
         \/ /\ pc = "restore" /\ pc' = "unarm" /\ todo' = command.names
            /\ "restoration" \notin incomplete /\ ~NothingDone
  BY Remembered DEF Unpublished, Restored, Finished, Go, Same, NothingDone, world
<1>2. CommandsTypeOK' /\ RegistryIs' /\ ContentsAre' /\ OutcomeIs'
  BY <1>1, WithinCommand DEF Forward, Back, world
<1>3. Concerned' = Concerned /\ (NothingDone' <=> NothingDone) /\ (WasInOrder' <=> WasInOrder)
  BY <1>1, OrderRemembered DEF Concerned, NothingDone, Steady, progress
<1>4. InBounds'
  BY <1>1, <1>3 DEF CommandsInvariant, InBounds, Steady, progress
<1>5. LoadedIs'
  BY <1>1, <1>3 DEF CommandsInvariant, LoadedIs, Steady, world, progress
<1>6. ASSUME NEW k \in Job PROVE UnitIs(k)' /\ TimerIs(k)'
  <2>1. UnitIs(k) /\ TimerIs(k) /\ moved \subseteq Concerned
    BY DEF CommandsInvariant, InBounds
  <2>2. UnitIs(k)'
    <3>1. CASE pc = "unpublish"
      BY <1>1, <2>1, <3>1 DEF UnitIs, Cleared, Forward, Steady, world, progress
    <3>2. CASE pc = "restore"
      BY <1>1, <2>1, <3>2 DEF UnitIs, Cleared, Forward, Steady, world, progress
    <3> QED BY <1>1, <3>1, <3>2
  <2>3. TimerIs(k)'
    BY <1>1, <1>3, <2>1 DEF TimerIs, TimerAsBefore, Back, Steady, world
  <2> QED BY <2>2, <2>3
<1> QED BY <1>2, <1>4, <1>5, <1>6 DEF CommandsInvariant

-----------------------------------------------------------------------------
(* The ends of a command                                                   *)

(* At every step, a unit that was there is in its place or in the backup.  *)
LEMMA UnitIsSomewhere ==
  ASSUME CommandsInvariant, pc \in Forward \cup Back, NEW j \in Job,
         before.files[j] # NoUnit
  PROVE  before.files[j] \in {files[j], backup[j]}
<1>1. UnitIs(j) /\ InBounds
  BY DEF CommandsInvariant
<1>2. CASE pc \in Forward
  BY <1>1, <1>2 DEF UnitIs, Aside, Untouched
<1>3. CASE pc = "unpublish"
  BY <1>1, <1>3 DEF UnitIs, Forward
<1>4. CASE pc \in {"restore", "unarm", "rearm"}
  BY <1>1, <1>4 DEF UnitIs, Cleared, Forward
<1> QED BY <1>2, <1>3, <1>4 DEF Back

(* A command that is over leaves its backup in a directory that nothing    *)
(* removes, or has put everything back.                                    *)
LEMMA ConcludedKeeps ==
  ASSUME CommandsInvariant, UnitsTypeOK', pc # "idle", pc' = "idle", todo' = {}, backup' = NoFiles,
         UNCHANGED <<registry, files, moved, published, before, contents, torn>>,
         command'.names = command.names, command'.previous = command.previous,
         orphaned \subseteq orphaned',
         pc # "close" => backup \in orphaned' \/ \A j \in Job : files[j] = before.files[j],
         OutcomeIs'
  PROVE  CommandsInvariant'
<1>1. CommandsTypeOK' /\ UnitsTypeOK
  BY DEF CommandsInvariant, CommandsTypeOK
<1>2. InBounds'
  BY DEF CommandsInvariant, InBounds, Concerned
<1>3. RegistryIs'
  BY DEF CommandsInvariant, RegistryIs, Forward, Back
<1>4. \A j \in Job : UnitIs(j)' /\ TimerIs(j)'
  BY DEF UnitIs, TimerIs, Forward, Back, NoFiles
<1>5. LoadedIs'
  BY DEF LoadedIs
<1>6. ContentsAre'
  <2> SUFFICES ASSUME ~torn, NEW j \in registry.names
               PROVE  contents[j] # NoUnit /\ contents[j] \in {files[j]} \cup {o[j] : o \in orphaned'}
    BY DEF ContentsAre, Home
  <2>1. j \in Job
    BY <1>1 DEF UnitsTypeOK, Registries
  <2>2. contents[j] # NoUnit /\ contents[j] \in {Home(j)} \cup {o[j] : o \in orphaned}
    BY DEF CommandsInvariant, ContentsAre
  <2>3. CASE pc = "close"
    BY <2>2, <2>3 DEF Home
  <2>4. CASE pc # "close"
    <3>1. pc \in Forward \cup Back
      BY <1>1, <2>4 DEF UnitsTypeOK, Places, Forward, Back
    <3>2. Home(j) = before.files[j]
      BY <2>4 DEF Home
    <3>3. CASE contents[j] = before.files[j]
      <4>1. before.files[j] \in {files[j], backup[j]}
        BY <2>1, <2>2, <3>1, <3>3, UnitIsSomewhere
      <4> QED BY <2>1, <2>2, <2>4, <3>3, <4>1
    <3> QED BY <2>2, <3>2, <3>3
  <2> QED BY <2>3, <2>4
<1> QED BY <1>1, <1>2, <1>3, <1>4, <1>5, <1>6 DEF CommandsInvariant

(* The history variables stay when a command ends.                         *)
LEMMA EndRemembered ==
  ASSUME CommandsInvariant, Remember, pc' = "idle", UNCHANGED <<registry, commands>>
  PROVE  UNCHANGED <<before, contents, torn>>
<1>1. torn \in BOOLEAN
  BY DEF CommandsInvariant, CommandsTypeOK
<1>2. torn' = torn
  <2>1. CASE torn
    BY <2>1 DEF Remember
  <2>2. CASE ~torn
    BY <1>1, <2>2 DEF Remember
  <2> QED BY <2>1, <2>2
<1> QED BY <1>2 DEF Remember

LEMMA CarriedStays ==
  ASSUME Carried, UNCHANGED <<world, commands, before>>, command'.kind = command.kind,
         command'.names = command.names, command'.on = command.on,
         command'.previous = command.previous
  PROVE  Carried'
<1>1. NewRegistry' = NewRegistry
  BY DEF NewRegistry
<1> QED BY <1>1 DEF Carried, world

LEMMA CloseKeeps ==
  ASSUME CommandsInvariant, UnitsTypeOK', Remember, Close
  PROVE  CommandsInvariant'
<1>1. UnitsTypeOK /\ Carried /\ pc = "close"
  BY DEF Close, CommandsInvariant, CommandsTypeOK, OutcomeIs
<1>2. PICK outcome \in {"done", "failed"} : Conclude(outcome)
  BY DEF Close
<1>3. outcome \in Outcomes
  BY DEF Outcomes
<1>4. /\ pc' = "idle" /\ todo' = {} /\ command'.kind = command.kind
      /\ command'.names = command.names /\ command'.on = command.on
      /\ command'.previous = command.previous
  BY <1>1, <1>2, <1>3, ConcludeKeeps
<1>5. /\ UNCHANGED <<world, moved, published, commands>> /\ backup' = NoFiles
      /\ orphaned \subseteq orphaned'
  BY DEF Close
<1>6. UNCHANGED <<before, contents, torn>>
  BY <1>4, <1>5, EndRemembered DEF world
<1>7. Carried'
  BY <1>1, <1>4, <1>5, <1>6, CarriedStays
<1>8. OutcomeIs'
  BY <1>4, <1>7 DEF OutcomeIs
<1> QED BY <1>1, <1>4, <1>5, <1>6, <1>8, ConcludedKeeps DEF world

LEMMA DieKeeps ==
  ASSUME CommandsInvariant, UnitsTypeOK', Remember, Die
  PROVE  CommandsInvariant'
<1>1. UnitsTypeOK /\ "killed" \in Outcomes /\ Conclude("killed") /\ pc # "idle"
  BY DEF Die, Outcomes, CommandsInvariant, CommandsTypeOK
<1>2. /\ pc' = "idle" /\ todo' = {} /\ command'.outcome = "killed"
      /\ command'.names = command.names /\ command'.previous = command.previous
  BY <1>1, ConcludeKeeps
<1>3. /\ UNCHANGED <<world, moved, published, commands>> /\ backup' = NoFiles
      /\ orphaned' = orphaned \cup {backup}
  BY DEF Die
<1>4. UNCHANGED <<before, contents, torn>>
  BY <1>2, <1>3, EndRemembered DEF world
<1>5. OutcomeIs'
  BY <1>2 DEF OutcomeIs
<1> QED BY <1>1, <1>2, <1>3, <1>4, <1>5, ConcludedKeeps DEF world

LEMMA HookRecoveryKeeps ==
  ASSUME CommandsInvariant, UnitsTypeOK', Remember, RollbackHookFails
  PROVE  CommandsInvariant'
<1>1. UnitsTypeOK /\ pc # "idle"
  BY DEF RollbackHookFails, Finished, CommandsInvariant, CommandsTypeOK
<1> DEFINE left == incomplete \cup {"hook"}
<1>2. left \in SUBSET {"cleanup", "restoration", "hook"} /\ left # {} /\ GiveBack(left)
  BY <1>1 DEF RollbackHookFails, UnitsTypeOK
<1> HIDE DEF left
<1>3. /\ pc' = "idle" /\ todo' = {} /\ backup' = NoFiles
      /\ UNCHANGED <<moved, published, commands>>
      /\ command'.names = command.names /\ command'.previous = command.previous
      /\ command'.outcome = "recovery" /\ orphaned' = orphaned \cup {backup}
  BY <1>1, <1>2, GiveBackKeepsTypes
<1>4. UNCHANGED <<registry, files>>
  BY DEF RollbackHookFails
<1>5. UNCHANGED <<before, contents, torn>>
  BY <1>3, <1>4, EndRemembered
<1>6. OutcomeIs'
  BY <1>3 DEF OutcomeIs
<1> QED BY <1>1, <1>3, <1>4, <1>5, <1>6, ConcludedKeeps

(* A rollback that did all it had to do: the world is what it was.         *)
LEMMA RolledBackRestores ==
  ASSUME CommandsInvariant, RolledBack, incomplete = {}
  PROVE  /\ files = before.files
         /\ WasInOrder /\ ~torn => World = before
<1>1. /\ CommandsTypeOK /\ UnitsTypeOK /\ InBounds /\ RegistryIs /\ LoadedIs
      /\ \A j \in Job : UnitIs(j) /\ TimerIs(j)
  BY DEF CommandsInvariant, CommandsTypeOK
<1>2. todo = {} /\ (pc = "rearm" \/ (pc = "restore" /\ NothingDone))
  BY DEF RolledBack, Finished, NothingDone
<1>3. ASSUME NEW j \in Job PROVE files[j] = before.files[j]
  BY <1>1, <1>2 DEF UnitIs, Cleared, NothingDone, Forward
<1>4. files = before.files
  <2>1. files \in [Job -> Versions] /\ before.files \in [Job -> Versions]
    BY <1>1 DEF CommandsTypeOK, UnitsTypeOK, Units
  <2> QED BY <1>3, <2>1
<1>5. ASSUME WasInOrder, ~torn PROVE World = before
  <2>1. registry = before.registry /\ command.previous = before.registry
    BY <1>1, <1>2, <1>5 DEF RegistryIs, Back
  <2>2. loaded = before.loaded
    BY <1>1, <1>2, <1>4, <1>5 DEF LoadedIs, WasInOrder, InOrder
  <2>3. ASSUME NEW j \in Job PROVE TimerAsBefore(j)
    <3>1. CASE pc = "restore"
      BY <1>1, <1>2, <1>5, <3>1 DEF TimerIs
    <3>2. CASE pc = "rearm" /\ j \notin Concerned
      BY <1>1, <1>2, <3>2 DEF TimerIs, Back
    <3>3. CASE pc = "rearm" /\ j \in command.previous.names
      <4>1. TimerIsBack(j)
        BY <1>1, <1>2, <3>3 DEF TimerIs
      <4>2. (j \in before.enabled <=> command.previous.on) /\ before.active = before.enabled
        BY <1>5, <2>1, <3>3 DEF WasInOrder, InOrder
      <4> QED BY <4>1, <4>2 DEF TimerIsBack, TimerAsBefore
    <3>4. CASE pc = "rearm" /\ j \in command.names \ command.previous.names
      <4>1. TimerIsOff(j)
        BY <1>1, <3>4 DEF TimerIs
      <4>2. j \notin before.enabled /\ before.active = before.enabled
        BY <1>5, <2>1, <3>4 DEF WasInOrder, InOrder
      <4> QED BY <4>1, <4>2 DEF TimerIsOff, TimerAsBefore
    <3> QED BY <1>2, <3>1, <3>2, <3>3, <3>4 DEF Concerned
  <2>4. enabled = before.enabled /\ active = before.active
    <3>1. /\ enabled \subseteq Job /\ active \subseteq Job
          /\ before.enabled \subseteq Job /\ before.active \subseteq Job
      BY <1>1 DEF CommandsTypeOK, UnitsTypeOK
    <3> QED BY <2>3, <3>1 DEF TimerAsBefore
  <2>5. before = [registry |-> before.registry, files |-> before.files, loaded |-> before.loaded,
                  enabled |-> before.enabled, active |-> before.active]
    BY <1>1 DEF CommandsTypeOK
  <2> QED BY <1>4, <2>1, <2>2, <2>4, <2>5 DEF World
<1> QED BY <1>4, <1>5

LEMMA RolledBackKeeps ==
  ASSUME CommandsInvariant, UnitsTypeOK', Remember, RolledBack
  PROVE  CommandsInvariant'
<1>1. UnitsTypeOK /\ pc # "idle" /\ UNCHANGED world
  BY DEF RolledBack, Finished, CommandsInvariant, CommandsTypeOK
<1>2. incomplete \in SUBSET {"cleanup", "restoration", "hook"} /\ GiveBack(incomplete)
  BY <1>1 DEF RolledBack, UnitsTypeOK
<1>3. /\ pc' = "idle" /\ todo' = {} /\ backup' = NoFiles
      /\ UNCHANGED <<moved, published, commands>>
      /\ command'.names = command.names /\ command'.previous = command.previous
      /\ incomplete # {} => command'.outcome = "recovery" /\ orphaned' = orphaned \cup {backup}
      /\ incomplete = {} => command'.outcome = "failed" /\ orphaned' = orphaned
  BY <1>1, <1>2, GiveBackKeepsTypes
<1>4. UNCHANGED <<before, contents, torn>>
  BY <1>1, <1>3, EndRemembered DEF world
<1>5. OutcomeIs'
  <2>1. CASE incomplete # {}
    BY <1>3, <2>1 DEF OutcomeIs
  <2>2. CASE incomplete = {}
    <3>1. WasInOrder /\ ~torn => World = before
      BY <2>2, RolledBackRestores
    <3>2. World' = World
      BY <1>1 DEF World, world
    <3> QED BY <1>3, <1>4, <2>2, <3>1, <3>2, OrderRemembered DEF OutcomeIs
  <2> QED BY <2>1, <2>2
<1>6. backup \in orphaned' \/ \A j \in Job : files[j] = before.files[j]
  BY <1>3, RolledBackRestores
<1> QED BY <1>1, <1>3, <1>4, <1>5, <1>6, ConcludedKeeps DEF world

-----------------------------------------------------------------------------
(* The beginning of a command                                              *)

LEMMA BeginKeeps ==
  ASSUME CommandsInvariant, UnitsTypeOK', Remember, pc = "idle",
         NEW kind \in {"install", "uninstall"}, NEW names \in SUBSET Job, NEW on \in BOOLEAN,
         NEW outcome \in {"none", "failed", "done"}, Begin(kind, names, on, outcome),
         outcome = "none" => kind = "install" \/ registry.exists,
         outcome = "done" => kind = "uninstall" /\ names = {} /\ ~registry.exists
  PROVE  CommandsInvariant'
<1>1. UnitsTypeOK /\ RegistryIs /\ torn \in BOOLEAN /\ contents \in Units
  BY DEF CommandsInvariant, CommandsTypeOK
<1>2. /\ commands' = commands + 1 /\ UNCHANGED <<world, orphaned>>
      /\ command' = [kind |-> kind, names |-> names, on |-> on, previous |-> registry,
                     outcome |-> outcome]
      /\ moved' = {} /\ published' = {} /\ backup' = NoFiles /\ incomplete' = {}
      /\ \/ outcome = "none" /\ pc' = "moving" /\ todo' = registry.names \cup names
         \/ outcome # "none" /\ pc' = "idle" /\ todo' = todo
  BY DEF Begin, Go
<1>3. before' = World /\ contents' = contents /\ torn' = torn
  <2>1. commands' # commands
    BY <1>1, <1>2 DEF UnitsTypeOK
  <2>2. torn' = torn
    <3>1. CASE torn
      BY <3>1 DEF Remember
    <3>2. CASE ~torn
      BY <1>1, <1>2, <3>2 DEF Remember
    <3> QED BY <3>1, <3>2
  <2> QED BY <1>2, <2>1, <2>2 DEF Remember
<1>4. /\ before'.registry = registry /\ before'.files = files /\ before'.loaded = loaded
      /\ before'.enabled = enabled /\ before'.active = active
  BY <1>3 DEF World
<1>5. CommandsTypeOK'
  BY <1>1, <1>3 DEF CommandsTypeOK, World, UnitsTypeOK
<1>6. Concerned' = registry.names \cup names
  BY <1>2 DEF Concerned
<1>7. InBounds'
  BY <1>2, <1>6 DEF InBounds
<1>8. RegistryIs'
  BY <1>1, <1>2, <1>4 DEF RegistryIs, world, Forward, Back
<1>9. ASSUME NEW j \in Job PROVE UnitIs(j)' /\ TimerIs(j)'
  <2>1. UnitIs(j)'
    BY <1>2, <1>4, <1>6 DEF UnitIs, Untouched, NoFiles, Forward, world
  <2>2. TimerIs(j)'
    BY <1>2, <1>4 DEF TimerIs, TimerAsBefore, world, Back
  <2> QED BY <2>1, <2>2
<1>10. LoadedIs'
  BY <1>2, <1>4 DEF LoadedIs, world
<1>11. ContentsAre'
  <2> SUFFICES ASSUME ~torn, NEW j \in registry.names
               PROVE  contents[j] # NoUnit /\ contents[j] \in {Home(j)'} \cup {o[j] : o \in orphaned}
    BY <1>2, <1>3 DEF ContentsAre, world
  <2>1. Home(j)' = Home(j)
    BY <1>2, <1>4 DEF Home, world
  <2> QED BY <2>1 DEF CommandsInvariant, ContentsAre
<1>12. OutcomeIs'
  <2>1. CASE outcome = "none"
    BY <1>2, <2>1 DEF OutcomeIs
  <2>2. CASE outcome = "failed"
    <3>1. World' = before'
      BY <1>2, <1>3 DEF World, world
    <3> QED BY <1>2, <2>2, <3>1 DEF OutcomeIs
  <2>3. CASE outcome = "done"
    <3>1. registry.names = {} /\ ~registry.exists /\ kind = "uninstall" /\ names = {}
      BY <1>1, <2>3 DEF RegistryIs
    <3>2. Carried'
      BY <1>2, <1>4, <3>1 DEF Carried, world
    <3> QED BY <1>2, <2>3, <3>2 DEF OutcomeIs
  <2> QED BY <2>1, <2>2, <2>3
<1> QED BY <1>5, <1>7, <1>8, <1>9, <1>10, <1>11, <1>12 DEF CommandsInvariant

LEMMA AdministerKeeps ==
  ASSUME CommandsInvariant, Remember, Administer
  PROVE  CommandsInvariant'
<1>1. pc = "idle" /\ commands < MaxCommands /\ UnitsTypeOK
  BY DEF Administer, CommandsInvariant, CommandsTypeOK
<1>2. PICK kind \in {"install", "uninstall"}, names \in SUBSET Job, on \in BOOLEAN,
           outcome \in {"none", "failed", "done"} :
        /\ Begin(kind, names, on, outcome)
        /\ outcome = "none" => kind = "install" \/ registry.exists
        /\ outcome = "done" => kind = "uninstall" /\ names = {} /\ ~registry.exists
        /\ UNCHANGED faults \/ Fault
  <2>1. CASE \E m \in Manifests(MaxJobs), on \in BOOLEAN : Install(m, on)
    <3>1. PICK m \in Manifests(MaxJobs), on \in BOOLEAN : Install(m, on)
      BY <2>1
    <3>2. Jobs(m) \in SUBSET Job
      BY JobsOfManifest
    <3> DEFINE names == Jobs(m)
    <3>3. \E outcome \in {"none", "failed"} :
            Begin("install", names, on, outcome) /\ (UNCHANGED faults \/ Fault)
      BY <3>1 DEF Install
    <3> HIDE DEF names
    <3>4. names \in SUBSET Job
      BY <3>2 DEF names
    <3> QED BY <3>1, <3>3, <3>4
  <2>2. CASE Uninstall
    BY <2>2 DEF Uninstall
  <2> QED BY <2>1, <2>2 DEF Administer
<1>3. outcome \in Outcomes
  BY DEF Outcomes
<1>4. UnitsTypeOK'
  BY <1>1, <1>2, <1>3, BeginTypes
<1> QED BY <1>1, <1>2, <1>4, BeginKeeps

-----------------------------------------------------------------------------
(* The whole                                                               *)

LEMMA CommandsInitially == MCInit => CommandsInvariant
<1> SUFFICES ASSUME MCInit PROVE CommandsInvariant
  OBVIOUS
<1>1. UnitsInit /\ before = World /\ contents = files /\ torn = FALSE
  BY DEF MCInit, Init
<1>2. UnitsTypeOK
  BY <1>1, UnitsTypesInitially
<1>3. CommandsTypeOK
  BY <1>1, <1>2 DEF CommandsTypeOK, World, UnitsTypeOK
<1>4. /\ pc = "idle" /\ todo = {} /\ moved = {} /\ published = {} /\ backup = NoFiles
      /\ command.outcome = "none"
  BY <1>1 DEF UnitsInit
<1>5. /\ ~registry.exists => registry.names = {}
      /\ \A j \in registry.names : j \in Job /\ files[j] = 0
  BY <1>1 DEF UnitsInit, NoRegistry
<1>6. InBounds /\ RegistryIs /\ LoadedIs /\ OutcomeIs
  BY <1>4, <1>5 DEF InBounds, RegistryIs, LoadedIs, OutcomeIs, Forward, Back
<1>7. \A j \in Job : UnitIs(j) /\ TimerIs(j)
  BY <1>4 DEF UnitIs, TimerIs, Forward, Back, NoFiles
<1>8. ContentsAre
  BY <1>1, <1>4, <1>5, UnitAssumption DEF ContentsAre, Home
<1> QED BY <1>3, <1>6, <1>7, <1>8 DEF CommandsInvariant

(* A step that changes nothing of the commands, as a run's steps do.       *)
LEMMA ElsewhereKeeps ==
  ASSUME CommandsInvariant, UNCHANGED <<unitVars, before, contents, torn>>
  PROVE  CommandsInvariant'
<1>1. UNCHANGED <<registry, files, loaded, enabled, active, orphaned, command, pc, todo, moved,
                  published, backup, incomplete, commands, faults>>
  BY DEF unitVars, world, progress
<1>2. UnitsTypeOK' /\ CommandsTypeOK'
  BY <1>1 DEF CommandsInvariant, CommandsTypeOK, UnitsTypeOK
<1>3. Concerned' = Concerned /\ Stale' = Stale /\ NewRegistry' = NewRegistry /\ World' = World
  BY <1>1 DEF Concerned, Stale, NewRegistry, World
<1>4. (WasInOrder' <=> WasInOrder) /\ (NothingDone' <=> NothingDone)
  BY <1>1, OrderRemembered DEF NothingDone
<1>5. InBounds' /\ RegistryIs' /\ LoadedIs'
  BY <1>1, <1>3, <1>4 DEF CommandsInvariant, InBounds, RegistryIs, LoadedIs
<1>6. ASSUME NEW j \in Job PROVE UnitIs(j)' /\ TimerIs(j)'
  <2>1. UnitIs(j) /\ TimerIs(j)
    BY DEF CommandsInvariant
  <2>2. UnitIs(j)'
    BY <1>1, <1>3, <2>1 DEF UnitIs, Aside, Untouched, Cleared
  <2>3. TimerIs(j)'
    BY <1>1, <1>3, <1>4, <2>1
    DEF TimerIs, TimerAsBefore, TimerIsOff, TimerIsApplied, TimerIsBack
  <2> QED BY <2>2, <2>3
<1>7. ContentsAre'
  BY <1>1 DEF CommandsInvariant, ContentsAre, Home
<1>8. OutcomeIs'
  <2>1. Carried => Carried'
    BY <1>1, <1>3 DEF Carried
  <2> QED BY <1>1, <1>3, <1>4, <2>1 DEF CommandsInvariant, OutcomeIs
<1> QED BY <1>2, <1>5, <1>6, <1>7, <1>8 DEF CommandsInvariant

LEMMA CommandsStep == CommandsInvariant /\ [MCNext]_mcVars => CommandsInvariant'
<1> SUFFICES ASSUME CommandsInvariant, [MCNext]_mcVars PROVE CommandsInvariant'
  OBVIOUS
<1>1. CASE UNCHANGED mcVars
  BY <1>1, ElsewhereKeeps DEF mcVars, vars
<1>2. CASE Remember /\ UNCHANGED unitVars
  <2>1. UNCHANGED <<registry, command, orphaned, commands, pc>>
    BY <1>2 DEF unitVars, world
  <2>2. torn \in BOOLEAN
    BY DEF CommandsInvariant, CommandsTypeOK
  <2>3. UNCHANGED <<before, contents, torn>>
    <3>1. torn' = torn
      <4>1. CASE torn
        BY <1>2, <4>1 DEF Remember
      <4>2. CASE ~torn
        BY <1>2, <2>1, <2>2, <4>2 DEF Remember
      <4> QED BY <4>1, <4>2
    <3> QED BY <1>2, <2>1, <3>1 DEF Remember
  <2> QED BY <1>2, <2>3, ElsewhereKeeps
<1>3. CASE Remember /\ Administer
  BY <1>3, AdministerKeeps
<1>4. CASE Remember /\ UnitsStep
  <2>1. UnitsTypeOK'
    BY <1>4, UnitsStepTypes DEF CommandsInvariant, CommandsTypeOK
  <2>2. CASE \E j \in Job :
               MoveAside(j) \/ RefuseUnowned(j) \/ Publish(j) \/ DisableStale(j) \/ ApplyTimer(j)
    BY <1>4, <2>1, <2>2, MoveAsideKeeps, RefusalKeeps, PublishKeeps, TimerLoopKeeps
  <2>3. CASE \E j \in Job : Unpublish(j) \/ Restore(j) \/ Unarm(j) \/ Rearm(j)
    BY <1>4, <2>1, <2>3, UnpublishKeeps, RestoreKeeps, TimerLoopKeeps
  <2>4. CASE RenameFails \/ Moved \/ Published \/ ReloadPublished \/ HookFails
    BY <1>4, <2>1, <2>4, RefusalKeeps, MovedKeeps, ReloadKeeps, HookFailureKeeps
  <2>5. CASE Record \/ RecordFails \/ Close \/ Die
    BY <1>4, <2>1, <2>5, RecordKeeps, RecordFailureKeeps, CloseKeeps, DieKeeps
  <2>6. CASE Unpublished \/ Restored \/ ReloadRestored \/ RolledBack \/ RollbackHookFails
    BY <1>4, <2>1, <2>6, RestoredKeeps, ReloadKeeps, RolledBackKeeps, HookRecoveryKeeps
  <2> QED BY <1>4, <2>2, <2>3, <2>4, <2>5, <2>6 DEF UnitsStep
<1> QED BY <1>1, <1>2, <1>3, <1>4 DEF MCNext, Next, Step

(* Every reachable state satisfies the invariant of the administrator's    *)
(* commands, whatever the runs do meanwhile.                               *)
THEOREM CommandsInvariance == MCSpec => []CommandsInvariant
BY CommandsInitially, CommandsStep, PTL DEF MCSpec

(* The installation, its history and the runs have their types.            *)
THEOREM TypeCorrectness == MCSpec => [](UnitsTypeOK /\ RunsTypeOK)
<1>1. MCInit => Init
  BY DEF MCInit
<1>2. [MCNext]_mcVars => [Next]_vars
  BY DEF MCNext, mcVars
<1>3. MCSpec => Spec
  BY <1>1, <1>2, PTL DEF MCSpec, Spec
<1>4. CommandsInvariant /\ RunsInvariant => UnitsTypeOK /\ RunsTypeOK
  BY DEF CommandsInvariant, CommandsTypeOK, RunsInvariant
<1> QED BY <1>3, <1>4, CommandsInvariance, RunsInvariance, PTL

(* A command that succeeds has put units, timers and registry exactly into *)
(* the state asked for, whatever an earlier command that failed or was     *)
(* killed left (installPromptJobs, uninstallPromptJobs of lifecycle.ts).   *)
THEOREM ExactSuccess == MCSpec => []SuccessIsExact
<1>1. CommandsInvariant => SuccessIsExact
  <2> SUFFICES ASSUME CommandsInvariant, command.outcome = "done" PROVE Carried
    BY DEF SuccessIsExact
  <2>1. pc = "idle"
    BY DEF CommandsInvariant, OutcomeIs
  <2> QED BY <2>1 DEF CommandsInvariant, OutcomeIs
<1> QED BY <1>1, CommandsInvariance, PTL

(* One that fails otherwise than by naming a directory to recover from has *)
(* changed nothing, if everything was in order before it, or has done what *)
(* it was asked for (the rollback of PromptJobUnitStore.publish and        *)
(* afterRollback of lifecycle.ts).                                         *)
THEOREM FailureIsUndone == MCSpec => []FailureRestores
<1>1. CommandsInvariant => FailureRestores
  <2> SUFFICES ASSUME CommandsInvariant, command.outcome = "failed", InOrder(before), ~torn
               PROVE  World = before \/ Carried
    BY DEF FailureRestores
  <2>1. pc = "idle" /\ WasInOrder
    BY DEF CommandsInvariant, OutcomeIs, WasInOrder
  <2> QED BY <2>1 DEF CommandsInvariant, OutcomeIs
<1> QED BY <1>1, CommandsInvariance, PTL

(* The units the jobs were registered with are never lost: whatever fails, *)
(* and whenever the process dies, they are in their place or in a backup   *)
(* that nothing removes (the order of renames of PromptJobUnitStore).      *)
THEOREM Preservation == MCSpec => []NothingIsLost
<1>1. CommandsInvariant => NothingIsLost
  <2> SUFFICES ASSUME CommandsInvariant, ~torn, NEW j \in registry.names
               PROVE  contents[j] \in {files[j], backup[j]} \cup {o[j] : o \in orphaned}
    BY DEF NothingIsLost
  <2>1. j \in Job /\ pc \in Places
    BY DEF CommandsInvariant, CommandsTypeOK, UnitsTypeOK, Registries
  <2>2. contents[j] # NoUnit /\ contents[j] \in {Home(j)} \cup {o[j] : o \in orphaned}
    BY DEF CommandsInvariant, ContentsAre
  <2>3. CASE pc \in {"idle", "close"}
    BY <2>2, <2>3 DEF Home
  <2>4. CASE pc \in Forward \cup Back /\ contents[j] = before.files[j]
    BY <2>1, <2>2, <2>4, UnitIsSomewhere
  <2> QED BY <2>1, <2>2, <2>3, <2>4 DEF Home, Places, Forward, Back
<1> QED BY <1>1, CommandsInvariance, PTL
=============================================================================
