------------------------ MODULE DurableFiles_proofs ------------------------
(***************************************************************************)
(* Proofs about the two writers of durable files, and about the documents  *)
(* of one of them.                                                         *)
(*                                                                         *)
(* The checkpoint store, for any number of steps, callers, process         *)
(* identities, attempts and generations; from "The assembly writer" on,    *)
(* the replacement of an assembly by the synth command, for any number of  *)
(* writers, failing calls, deaths and losses of power; and from "The       *)
(* documents of the synth command" on, that the definition's schema and    *)
(* those of the documents made from it agree, for definitions of any       *)
(* length.                                                                 *)
(***************************************************************************)
EXTENDS CheckpointStore, SynthCommand, SequenceTheorems, WellFoundedInduction, TLAPS

-----------------------------------------------------------------------------
(* The transitions map documents to documents.                             *)

LEMMA StepResultType ==
  ASSUME NEW document \in Document, NEW target \in StepTarget
  PROVE  StepResult(document, target) \in Document
BY DEF StepResult, Document

LEMMA ProcessUpdateType ==
  ASSUME NEW document \in Document, NEW i \in Indexes, NEW process \in Process
  PROVE  [document EXCEPT !.processes[i] = process] \in Document
BY DEF Document

LEMMA RegisterResultType ==
  ASSUME NEW document \in Document, NEW i \in Indexes,
         NEW generation \in Nat, NEW identity \in Identities
  PROVE  RegisterResult(document, i, generation, identity) \in Document
BY ProcessUpdateType DEF RegisterResult, Process, NoProcess, Outcomes

LEMMA AcceptResultType ==
  ASSUME NEW document \in Document, NEW i \in Indexes
  PROVE  AcceptResult(document, i) \in Document
<1>1. document.processes[i] \in Process
  BY DEF Document
<1>2. [document.processes[i] EXCEPT !.phase = "accepted", !.accepted = TRUE] \in Process
  BY <1>1 DEF Process
<1> QED
  BY <1>2, ProcessUpdateType DEF AcceptResult

LEMMA FinishResultType ==
  ASSUME NEW document \in Document, NEW i \in Indexes,
         NEW outcome \in Outcomes, NEW code \in Exits
  PROVE  FinishResult(document, i, outcome, code) \in Document
<1>1. document.processes[i] \in Process
  BY DEF Document
<1>2. [document.processes[i] EXCEPT !.phase = "finished", !.outcome = outcome, !.exit = code]
        \in Process
  BY <1>1 DEF Process
<1> QED
  BY <1>2, ProcessUpdateType DEF FinishResult

LEMMA SecretResultType ==
  ASSUME NEW document \in Document, NEW target \in SecretTarget
  PROVE  SecretResult(document, target) \in Document
BY DEF SecretResult, Document

LEMMA TerminalResultType ==
  ASSUME NEW document \in Document, NEW diagnostic \in Diagnostics
  PROVE  /\ SuccessResult(document) \in Document
         /\ FailureResult(document, diagnostic) \in Document
BY DEF SuccessResult, FailureResult, Document

LEMMA InitialType == InitialCheckpoint \in Document
BY DEF InitialCheckpoint, Document, Process, NoProcess

-----------------------------------------------------------------------------
(* Precedes, the order of a history, is reflexive and transitive.          *)

LEMMA PrecedesReflexive ==
  ASSUME NEW a \in Document
  PROVE  History!Precedes(a, a)
BY DEF History!Precedes, History!StepPrecedes, History!ProcessPrecedes

LEMMA StepPrecedesTransitive ==
  ASSUME NEW a \in StepTarget \cup {NoStep}, NEW b \in StepTarget \cup {NoStep},
         NEW c \in StepTarget \cup {NoStep},
         History!StepPrecedes(a, b), History!StepPrecedes(b, c)
  PROVE  History!StepPrecedes(a, c)
BY StepCountAssumption DEF History!StepPrecedes, StepTarget, NoStep, StepPhases, Indexes

LEMMA ProcessPrecedesTransitive ==
  ASSUME NEW a \in Process, NEW b \in Process, NEW c \in Process,
         History!ProcessPrecedes(a, b), History!ProcessPrecedes(b, c)
  PROVE  History!ProcessPrecedes(a, c)
BY DEF History!ProcessPrecedes, Process

LEMMA PrecedesTransitive ==
  ASSUME NEW a \in Document, NEW b \in Document, NEW c \in Document,
         History!Precedes(a, b), History!Precedes(b, c)
  PROVE  History!Precedes(a, c)
<1>1. History!StepPrecedes(a.step, c.step)
  BY StepPrecedesTransitive DEF History!Precedes, Document
<1>2. ASSUME NEW i \in Indexes
      PROVE  History!ProcessPrecedes(a.processes[i], c.processes[i])
  <2>1. /\ a.processes[i] \in Process
        /\ b.processes[i] \in Process
        /\ c.processes[i] \in Process
    BY DEF Document
  <2>2. /\ History!ProcessPrecedes(a.processes[i], b.processes[i])
        /\ History!ProcessPrecedes(b.processes[i], c.processes[i])
    BY DEF History!Precedes, History!Indexes, Indexes
  <2> QED
    BY <2>1, <2>2, ProcessPrecedesTransitive
<1>3. a.terminal # "none" => a = c
  BY DEF History!Precedes
<1> QED
  BY <1>1, <1>2, <1>3 DEF History!Precedes, History!Indexes, Indexes

-----------------------------------------------------------------------------
(* Every transition leads to a later document.  This needs that a process  *)
(* in the accepted phase has its time of acceptance recorded.              *)

Consistent(document) ==
  \A i \in Indexes :
    document.processes[i].phase = "accepted" => document.processes[i].accepted

(* One store transition takes `prior` to `after`.                          *)
Advances(prior, after) ==
  /\ after \in Document
  /\ Consistent(after)
  /\ History!Precedes(prior, after)

LEMMA StepAdvances ==
  ASSUME NEW document \in Document, Consistent(document), NEW target \in StepTarget,
         StepAllowed(document, target)
  PROVE  Advances(document, StepResult(document, target))
<1> DEFINE after == StepResult(document, target)
<1>1. after \in Document
  BY StepResultType
<1>2. /\ after.step = target
      /\ after.processes = document.processes
      /\ document.terminal = "none"
  BY DEF StepResult, StepAllowed, Document
<1>3. History!StepPrecedes(document.step, target)
  BY StepCountAssumption
  DEF StepAllowed, CompletesAttempt, RetriesAttempt, History!StepPrecedes, Document,
      StepTarget, NoStep, StepPhases, Indexes
<1>4. \A i \in Indexes : History!ProcessPrecedes(document.processes[i], after.processes[i])
  BY <1>2 DEF History!ProcessPrecedes
<1> QED
  BY <1>1, <1>2, <1>3, <1>4
  DEF Advances, Consistent, History!Precedes, History!Indexes, Indexes

LEMMA ProcessAdvances ==
  ASSUME NEW document \in Document, Consistent(document), NEW i \in Indexes,
         NEW process \in Process, document.terminal = "none",
         process.phase = "accepted" => process.accepted,
         History!ProcessPrecedes(document.processes[i], process)
  PROVE  Advances(document, [document EXCEPT !.processes[i] = process])
<1> DEFINE after == [document EXCEPT !.processes[i] = process]
<1>1. after \in Document
  BY ProcessUpdateType
<1>2. /\ after.step = document.step
      /\ \A j \in Indexes : after.processes[j] = IF j = i THEN process ELSE document.processes[j]
  BY DEF Document
<1>3. History!StepPrecedes(document.step, after.step)
  BY <1>2 DEF History!StepPrecedes
<1>4. \A j \in Indexes : History!ProcessPrecedes(document.processes[j], after.processes[j])
  BY <1>2 DEF History!ProcessPrecedes
<1>5. Consistent(after)
  BY <1>2 DEF Consistent
<1> QED
  BY <1>1, <1>3, <1>4, <1>5 DEF Advances, History!Precedes, History!Indexes, Indexes

LEMMA RegisterAdvances ==
  ASSUME NEW document \in Document, Consistent(document), NEW i \in Indexes,
         NEW generation \in Nat, NEW identity \in Identities,
         RegisterAllowed(document, i, generation)
  PROVE  Advances(document, RegisterResult(document, i, generation, identity))
<1> DEFINE process == [NoProcess EXCEPT !.generation = generation, !.identity = identity,
                                        !.phase = "registered"]
<1>1. /\ process \in Process
      /\ process.generation = generation
      /\ process.phase = "registered"
  BY DEF Process, NoProcess
<1>2. document.processes[i] \in Process /\ document.processes[i].generation < generation
  BY DEF RegisterAllowed, Document, Process
<1>3. History!ProcessPrecedes(document.processes[i], process)
  BY <1>1, <1>2 DEF History!ProcessPrecedes
<1> QED
  BY <1>1, <1>3, ProcessAdvances DEF RegisterAllowed, RegisterResult

LEMMA AcceptAdvances ==
  ASSUME NEW document \in Document, Consistent(document), NEW i \in Indexes,
         NEW generation \in Nat, NEW identity \in Identities,
         AcceptAllowed(document, i, generation, identity)
  PROVE  Advances(document, AcceptResult(document, i))
<1> DEFINE prior == document.processes[i]
           process == [prior EXCEPT !.phase = "accepted", !.accepted = TRUE]
<1>1. prior \in Process
  BY DEF Document
<1>2. /\ process \in Process
      /\ process.generation = prior.generation
      /\ process.identity = prior.identity
      /\ process.phase = "accepted" /\ process.accepted
      /\ process.outcome = prior.outcome /\ process.exit = prior.exit
  BY <1>1 DEF Process
<1>3. prior.phase \in {"registered", "accepted"}
  BY DEF AcceptAllowed, Unfinished
<1>4. prior.phase = "accepted" => process = prior
  <2>1. prior.phase = "accepted" => prior.accepted = TRUE
    BY <1>1 DEF Consistent, Process
  <2> QED
    BY <1>1, <2>1 DEF Process
<1>5. History!ProcessPrecedes(prior, process)
  BY <1>1, <1>2, <1>3, <1>4 DEF History!ProcessPrecedes
<1> QED
  BY <1>2, <1>5, ProcessAdvances DEF AcceptAllowed, AcceptResult

LEMMA FinishAdvances ==
  ASSUME NEW document \in Document, Consistent(document), NEW i \in Indexes,
         NEW generation \in Nat, NEW identity \in Identities,
         NEW outcome \in Outcomes, NEW code \in Exits,
         FinishAllowed(document, i, generation, identity, outcome, code)
  PROVE  Advances(document, FinishResult(document, i, outcome, code))
<1> DEFINE prior == document.processes[i]
           process == [prior EXCEPT !.phase = "finished", !.outcome = outcome, !.exit = code]
<1>1. prior \in Process
  BY DEF Document
<1>2. /\ process \in Process
      /\ process.generation = prior.generation
      /\ process.identity = prior.identity
      /\ process.phase = "finished" /\ process.accepted = prior.accepted
  BY <1>1 DEF Process
<1>3. ASSUME Unfinished(prior)
      PROVE  History!ProcessPrecedes(prior, process)
  BY <1>1, <1>2, <1>3 DEF History!ProcessPrecedes, Unfinished, Consistent
<1>4. ASSUME prior.phase = "finished", prior.outcome = outcome, prior.exit = code
      PROVE  History!ProcessPrecedes(prior, process)
  BY <1>1, <1>4 DEF History!ProcessPrecedes, Process
<1>5. History!ProcessPrecedes(prior, process)
  BY <1>3, <1>4 DEF FinishAllowed
<1> QED
  BY <1>2, <1>5, ProcessAdvances DEF FinishAllowed, FinishResult

LEMMA SecretAdvances ==
  ASSUME NEW document \in Document, Consistent(document), NEW target \in SecretTarget,
         SecretAllowed(document, target)
  PROVE  Advances(document, SecretResult(document, target))
<1> DEFINE after == SecretResult(document, target)
<1>1. after \in Document
  BY SecretResultType
<1>2. /\ after.step = document.step
      /\ after.processes = document.processes
      /\ document.terminal = "none"
  BY DEF SecretResult, SecretAllowed, Document
<1> QED
  BY <1>1, <1>2
  DEF Advances, Consistent, History!Precedes, History!StepPrecedes,
      History!ProcessPrecedes, History!Indexes, Indexes

LEMMA TerminalAdvances ==
  ASSUME NEW document \in Document, Consistent(document),
         NEW status \in {"succeeded"} \cup Diagnostics,
         document.terminal \in {"none", status}
  PROVE  Advances(document, [document EXCEPT !.terminal = status])
<1> DEFINE after == [document EXCEPT !.terminal = status]
<1>1. /\ after \in Document
      /\ after.step = document.step
      /\ after.processes = document.processes
      /\ document.terminal # "none" => after = document
  BY DEF Document
<1>2. document.terminal # "none" => document = after
  BY <1>1
<1>3. History!Precedes(document, after)
  BY <1>1, <1>2
  DEF History!Precedes, History!StepPrecedes, History!ProcessPrecedes, History!Indexes, Indexes
<1> QED
  BY <1>1, <1>3 DEF Advances, Consistent

-----------------------------------------------------------------------------
(* The inductive invariant: at most one call is past its inspection, what  *)
(* it inspected is the file, and the file has been made durable; what was  *)
(* returned, what is durable and what is visible follow one another.       *)

Serialized ==
  \A c \in Callers : Busy(c) =>
    /\ call[c] = visible
    /\ durable = visible
    /\ \A other \in Callers : Busy(other) => other = c

Chain ==
  /\ Consistent(visible.document) /\ Consistent(durable.document)
  /\ History!Precedes(returned.document, durable.document)
  /\ History!Precedes(durable.document, visible.document)

StoreInvariant == TypeOK /\ Serialized /\ ReturnedIsDurable /\ Chain

(* Whatever the event, a call that writes has inspected the file and       *)
(* writes a later document.                                                *)
Writes(c) ==
  CheckpointStep(c) \/ CheckpointProcess(c) \/ CheckpointSecret(c) \/ MarkTerminal(c)

LEMMA WriteAdvances ==
  ASSUME NEW c \in Callers, Busy(c), call[c] \in Contents,
         Consistent(call[c].document), Writes(c)
  PROVE  \E document : Advances(call[c].document, document) /\ Persist(c, document)
<1> DEFINE prior == call[c].document
<1>1. prior \in Document
  BY DEF Contents
<1>2. CASE CheckpointStep(c)
  <2>1. PICK target \in [index : Indexes, attempt : 1 .. MaxAttempt, phase : StepPhases] :
          StepAllowed(prior, target) /\ Persist(c, StepResult(prior, target))
    BY <1>2 DEF CheckpointStep
  <2>2. target \in StepTarget
    BY BoundsAssumption DEF StepTarget
  <2> QED
    BY <1>1, <2>1, <2>2, StepAdvances
<1>3. CASE CheckpointProcess(c)
  <2>1. PICK i \in Indexes, generation \in 1 .. MaxGeneration, identity \in Identities :
          \/ /\ RegisterAllowed(prior, i, generation)
             /\ Persist(c, RegisterResult(prior, i, generation, identity))
          \/ /\ AcceptAllowed(prior, i, generation, identity)
             /\ Persist(c, AcceptResult(prior, i))
          \/ \E outcome \in Outcomes, code \in Exits :
               /\ FinishAllowed(prior, i, generation, identity, outcome, code)
               /\ Persist(c, FinishResult(prior, i, outcome, code))
    BY <1>3 DEF CheckpointProcess
  <2>2. generation \in Nat
    BY BoundsAssumption
  <2> QED
    BY <1>1, <2>1, <2>2, RegisterAdvances, AcceptAdvances, FinishAdvances
<1>4. CASE CheckpointSecret(c)
  BY <1>1, <1>4, SecretAdvances DEF CheckpointSecret
<1>5. CASE MarkTerminal(c)
  <2>1. CASE SuccessAllowed(prior) /\ Persist(c, SuccessResult(prior))
    BY <1>1, <2>1, TerminalAdvances DEF SuccessAllowed, SuccessResult
  <2>2. ASSUME NEW diagnostic \in Diagnostics, FailureAllowed(prior, diagnostic),
               Persist(c, FailureResult(prior, diagnostic))
        PROVE  \E document : Advances(prior, document) /\ Persist(c, document)
    BY <1>1, <2>2, TerminalAdvances DEF FailureAllowed, FailureResult
  <2> QED
    BY <1>5, <2>1, <2>2 DEF MarkTerminal
<1> QED
  BY <1>2, <1>3, <1>4, <1>5 DEF Writes

-----------------------------------------------------------------------------
(* Every step preserves the invariant, and returns a later document.       *)

LEMMA InvariantInit == Init => StoreInvariant
<1> SUFFICES ASSUME Init PROVE StoreInvariant
  OBVIOUS
<1>1. TypeOK
  BY InitialType DEF Init, TypeOK, Contents, Pristine, Idle
<1>2. Serialized
  BY DEF Init, Serialized, Busy
<1>3. ReturnedIsDurable
  BY DEF Init, ReturnedIsDurable, NotAfter
<1>4. Consistent(InitialCheckpoint)
  BY DEF Consistent, InitialCheckpoint, NoProcess
<1>5. Chain
  BY <1>4, InitialType, PrecedesReflexive DEF Init, Chain, Pristine
<1> QED
  BY <1>1, <1>2, <1>3, <1>5 DEF StoreInvariant

LEMMA InspectPreserves ==
  ASSUME StoreInvariant, NEW c \in Callers, Inspect(c)
  PROVE  StoreInvariant'
<1> USE DEF StoreInvariant
<1>1. TypeOK'
  BY DEF TypeOK, Inspect
<1>2. \A other \in Callers : other # c => ~Busy(other)'
  BY DEF Inspect, Busy, TypeOK
<1>3. call'[c] = visible' /\ durable' = visible'
  BY DEF Inspect, TypeOK
<1>4. Serialized'
  BY <1>2, <1>3 DEF Serialized
<1>5. ReturnedIsDurable'
  BY DEF ReturnedIsDurable, NotAfter, Inspect, TypeOK, Contents
<1>6. Chain'
  <2>1. /\ returned.document \in Document
        /\ durable.document \in Document
        /\ visible.document \in Document
    BY DEF TypeOK, Contents
  <2>2. History!Precedes(returned.document, visible.document)
    BY <2>1, PrecedesTransitive DEF Chain
  <2> QED
    BY <2>1, <2>2, PrecedesReflexive DEF Chain, Inspect
<1> QED
  BY <1>1, <1>4, <1>5, <1>6

LEMMA IdleSerialized ==
  ASSUME \A c \in Callers : call'[c] = Idle
  PROVE  Serialized'
BY DEF Serialized, Busy

(* A call that ends was the only one.                                      *)
LEMMA FinishIdle ==
  ASSUME StoreInvariant, NEW c \in Callers, Busy(c), Finish(c)
  PROVE  \A other \in Callers : call'[other] = Idle
BY DEF StoreInvariant, TypeOK, Serialized, Busy, Finish

LEMMA PersistPreserves ==
  ASSUME StoreInvariant, NEW c \in Callers, Busy(c), NEW document,
         Advances(visible.document, document), Persist(c, document)
  PROVE  StoreInvariant' /\ History!Precedes(returned.document, returned'.document)
<1> DEFINE next == [revision |-> visible.revision + 1, document |-> document]
<1>1. call[c] = visible /\ durable = visible
  BY DEF StoreInvariant, Serialized
<1>2. /\ visible' = next
      /\ \/ durable' = next /\ returned' = next
         \/ durable' = durable /\ returned' = returned
      /\ Finish(c)
  BY <1>1 DEF Persist
<1>3. /\ visible \in Contents /\ returned \in Contents
      /\ next \in Contents
      /\ next.document = document /\ next.revision = visible.revision + 1
  BY DEF StoreInvariant, TypeOK, Contents, Advances
<1>4. \A other \in Callers : call'[other] = Idle
  BY <1>2, FinishIdle
<1>5. TypeOK'
  BY <1>1, <1>2, <1>3 DEF StoreInvariant, TypeOK, Finish
<1>6. ReturnedIsDurable'
  BY <1>1, <1>2, <1>3 DEF StoreInvariant, ReturnedIsDurable, NotAfter, Contents
<1>7. /\ returned.document \in Document /\ visible.document \in Document
      /\ document \in Document
  BY <1>3 DEF Contents
<1>8. /\ History!Precedes(visible.document, document)
      /\ History!Precedes(returned.document, visible.document)
      /\ History!Precedes(returned.document, document)
      /\ History!Precedes(document, document)
      /\ History!Precedes(returned.document, returned.document)
  BY <1>1, <1>7, PrecedesReflexive, PrecedesTransitive DEF StoreInvariant, Chain, Advances
<1>9. Chain'
  BY <1>1, <1>2, <1>3, <1>8 DEF StoreInvariant, Chain, Advances
<1>10. History!Precedes(returned.document, returned'.document)
  BY <1>2, <1>3, <1>8
<1> QED
  BY <1>4, <1>5, <1>6, <1>9, <1>10, IdleSerialized DEF StoreInvariant

LEMMA ReturnPreserves ==
  ASSUME StoreInvariant, NEW c \in Callers, Return(c)
  PROVE  StoreInvariant' /\ History!Precedes(returned.document, returned'.document)
<1>1. /\ returned' = visible /\ visible' = visible /\ durable' = visible
      /\ visible \in Contents /\ returned \in Contents
  BY DEF StoreInvariant, Serialized, TypeOK, Return
<1>2. \A other \in Callers : call'[other] = Idle
  BY FinishIdle DEF Return
<1>3. TypeOK'
  BY <1>1 DEF StoreInvariant, TypeOK, Return, Finish
<1>4. ReturnedIsDurable'
  BY <1>1 DEF ReturnedIsDurable, NotAfter
<1>5. visible.document \in Document /\ returned.document \in Document
  BY <1>1 DEF Contents
<1>6. Chain'
  BY <1>1, <1>5, PrecedesReflexive DEF StoreInvariant, Chain
<1>7. History!Precedes(returned.document, returned'.document)
  <2>1. durable.document = visible.document
    BY DEF StoreInvariant, Serialized, Return
  <2> QED
    BY <1>1, <2>1 DEF StoreInvariant, Chain
<1> QED
  BY <1>2, <1>3, <1>4, <1>6, <1>7, IdleSerialized DEF StoreInvariant

LEMMA RefusePreserves ==
  ASSUME StoreInvariant, NEW c \in Callers, Refuse(c)
  PROVE  StoreInvariant'
<1>1. \A other \in Callers : call'[other] = Idle
  BY FinishIdle DEF Refuse
<1>2. TypeOK' /\ ReturnedIsDurable' /\ Chain'
  BY DEF StoreInvariant, TypeOK, ReturnedIsDurable, Chain, Refuse, Finish
<1> QED
  BY <1>1, <1>2, IdleSerialized DEF StoreInvariant

(* The runner is killed, or power is lost.                                 *)
LEMMA CrashPreserves ==
  ASSUME StoreInvariant, Kill \/ PowerLoss
  PROVE  StoreInvariant'
<1>1. \A c \in Callers : call'[c] = Idle
  BY DEF Kill, PowerLoss, Abandon
<1>2. TypeOK'
  BY DEF StoreInvariant, TypeOK, Kill, PowerLoss, Abandon
<1>3. CASE Kill
  BY <1>1, <1>2, <1>3, IdleSerialized
  DEF StoreInvariant, ReturnedIsDurable, Chain, Kill
<1>4. CASE PowerLoss
  <2>1. visible' \in {visible, durable} /\ durable' = visible' /\ returned' = returned
    BY <1>4 DEF PowerLoss
  <2>2. ReturnedIsDurable'
    BY <2>1 DEF StoreInvariant, TypeOK, Contents, ReturnedIsDurable, NotAfter
  <2>3. /\ returned.document \in Document
        /\ durable.document \in Document
        /\ visible.document \in Document
    BY DEF StoreInvariant, TypeOK, Contents
  <2>4. Chain'
    BY <2>1, <2>3, PrecedesReflexive, PrecedesTransitive DEF StoreInvariant, Chain
  <2> QED
    BY <1>1, <1>2, <2>2, <2>4, IdleSerialized DEF StoreInvariant
<1> QED
  BY <1>3, <1>4

LEMMA NextPreserves ==
  ASSUME StoreInvariant, [Next]_vars
  PROVE  StoreInvariant' /\ History!Precedes(returned.document, returned'.document)
<1>0. returned.document \in Document
  BY DEF StoreInvariant, TypeOK, Contents
<1>1. ASSUME returned' = returned
      PROVE  History!Precedes(returned.document, returned'.document)
  BY <1>0, <1>1, PrecedesReflexive
<1>2. ASSUME NEW c \in Callers, Inspect(c)
      PROVE  StoreInvariant' /\ returned' = returned
  BY <1>2, InspectPreserves DEF Inspect
<1>3. ASSUME NEW c \in Callers, Return(c)
      PROVE  StoreInvariant' /\ History!Precedes(returned.document, returned'.document)
  BY <1>3, ReturnPreserves
<1>4. ASSUME NEW c \in Callers, Refuse(c)
      PROVE  StoreInvariant' /\ returned' = returned
  BY <1>4, RefusePreserves DEF Refuse
<1>5. ASSUME NEW c \in Callers, Writes(c)
      PROVE  StoreInvariant' /\ History!Precedes(returned.document, returned'.document)
  <2>1. Busy(c)
    BY <1>5 DEF Writes, CheckpointStep, CheckpointProcess, CheckpointSecret, MarkTerminal
  <2>2. call[c] = visible /\ visible \in Contents /\ Consistent(visible.document)
    BY <2>1 DEF StoreInvariant, Serialized, TypeOK, Chain
  <2>3. PICK document : Advances(visible.document, document) /\ Persist(c, document)
    BY <1>5, <2>1, <2>2, WriteAdvances
  <2> QED
    BY <2>1, <2>3, PersistPreserves
<1>6. ASSUME Kill \/ PowerLoss
      PROVE  StoreInvariant' /\ returned' = returned
  BY <1>6, CrashPreserves DEF Kill, PowerLoss
<1>7. ASSUME UNCHANGED vars
      PROVE  StoreInvariant' /\ returned' = returned
  BY <1>7
  DEF vars, StoreInvariant, TypeOK, Serialized, Busy, ReturnedIsDurable, Chain
<1> QED
  BY <1>1, <1>2, <1>3, <1>4, <1>5, <1>6, <1>7 DEF Next, Writes

-----------------------------------------------------------------------------
(* The invariant holds of every reachable state.                           *)
THEOREM StoreInvariance == Spec => []StoreInvariant
<1>1. StoreInvariant /\ [Next]_vars => StoreInvariant'
  BY NextPreserves
<1> QED
  BY InvariantInit, <1>1, PTL DEF Spec

(* Visible, durable and returned contents, and what each call inspected,   *)
(* are checkpoint documents with a revision.                               *)
THEOREM TypeCorrectness == Spec => []TypeOK
<1>1. StoreInvariant => TypeOK
  BY DEF StoreInvariant
<1> QED
  BY StoreInvariance, <1>1, PTL

(* What the store has returned to a caller survives failed writes, other   *)
(* callers, the death of the runner and power losses.                      *)
THEOREM Durability == Spec => []ReturnedIsDurable
<1>1. StoreInvariant => ReturnedIsDurable
  BY DEF StoreInvariant
<1> QED
  BY StoreInvariance, <1>1, PTL

(* The store implements its abstract specification: the documents it       *)
(* returns form a history.                                                 *)
THEOREM Refinement == Spec => ReturnedIsHistory
<1>1. Init => History!Init
  BY DEF Init, Pristine, History!Init, History!InitialCheckpoint, InitialCheckpoint,
         History!NoStep, NoStep, History!NoProcess, NoProcess, History!NoSecret, NoSecret,
         History!Indexes, Indexes
<1>2. StoreInvariant /\ [Next]_vars => [History!Next]_(returned.document)
  BY NextPreserves DEF History!Next
<1> QED
  BY <1>1, <1>2, StoreInvariance, PTL DEF Spec, ReturnedIsHistory, History!Spec

-----------------------------------------------------------------------------
(* The assembly writer: any number of writers, each with any paths.        *)

WriterStep(w) == Begin(w) \/ \E paths : Write(w, paths)
WriterNext == PowerFails \/ \E w \in Writer : WriterStep(w)
WriterSpec == WriterInit /\ [][WriterNext]_writerVars

WriterPlaces ==
  Ended \cup {"idle", "inspect", "recognize", "stage", "write", "sync", "set aside", "publish",
              "restore", "sync swap", "drop", "sync drop", "clean"}

Makers == Writer \cup {"before"}
Outputs == {Absent, Foreign} \cup [of : Makers, state : {"synced"}]
Stagings == {Absent} \cup [of : Writer, state : {"partial", "written", "synced"}]
Backups == {Absent} \cup [of : Makers, state : {"synced", "partial"}]
Disks == [out : Outputs, staging : [Writer -> Stagings], backup : [Writer -> Backups]]

WriterTypeOK ==
  /\ possible \subseteq Disks /\ disk \in possible
  /\ before \in {Absent, Foreign, Old} /\ replace \in [Writer -> BOOLEAN]
  /\ at \in [Writer -> WriterPlaces]
  /\ seen \in [Writer -> BOOLEAN] /\ backed \in [Writer -> BOOLEAN]
  /\ fine \in [Writer -> BOOLEAN]

(* What a writer owns at each of its steps.  It had no backup, in whatever *)
(* a power loss may bring back, before it sets the output aside.           *)
OwnsItsCopies(w) ==
  /\ at[w] \in {"idle", "inspect", "recognize", "stage", "write", "sync", "set aside"} =>
       ~backed[w] /\ \A d \in possible : d.backup[w] = Absent
  /\ at[w] \in {"set aside", "publish"} => disk.staging[w] = Copy(w, "synced")
  /\ at[w] \in {"idle", "inspect"} => ~seen[w]
  /\ at[w] \in {"set aside", "restore"} => seen[w]
  /\ at[w] = "publish" /\ ~seen[w] => ~backed[w] /\ disk.backup[w] = Absent
  /\ at[w] \in {"publish", "restore"} /\ seen[w] => disk.backup[w].state = "synced"
  /\ at[w] = "restore" => ~fine[w]
  /\ at[w] \notin {"idle", "inspect", "recognize", "exists", "failed", "dead"} =>
       before # Foreign

(* A writer past its publication, and one whose publication a power loss   *)
(* cannot undo any more.                                                   *)
Passed(w) ==
  at[w] = "written" \/ (fine[w] /\ at[w] \in {"sync swap", "drop", "sync drop", "clean"})
Secured(w) ==
  at[w] = "written" \/ (fine[w] /\ at[w] \in {"drop", "sync drop", "clean"})

(* Whose backup may be dropped: of a writer that published, or that failed *)
(* after it did.                                                           *)
Drops(w) == at[w] \in {"sync swap", "drop", "sync drop"} \/ (at[w] = "clean" /\ backed[w])

(* A whole assembly, or one that is not the old one, that nobody drops;    *)
(* and the same of what a power loss may bring back.                       *)
KeepsOne ==
  disk.out.state = "synced" \/ \E u \in Writer : ~Drops(u) /\ disk.backup[u].state = "synced"
New(copy) == copy.state = "synced" /\ copy.of # "before"
KeepsNew == New(disk.out) \/ \E u \in Writer : ~Drops(u) /\ New(disk.backup[u])
HoldsNew(d) == New(d.out) \/ \E u \in Writer : New(d.backup[u])

Kept ==
  /\ \A d \in possible : (d.out = Foreign <=> before = Foreign) /\ (before = Old => Holds(d))
  /\ before = Old => KeepsOne
  /\ \A w \in Writer : /\ Passed(w) => KeepsNew
                       /\ Secured(w) => \A d \in possible : HoldsNew(d)

Owned == \A w \in Writer : OwnsItsCopies(w)
WriterInvariant == WriterTypeOK /\ Owned /\ Kept

(* Of two writers, the one that publishes last is not undone by the other. *)
AtMostTwo == \A u, v, w \in Writer : u = v \/ v = w \/ u = w
StaysNew ==
  \A w \in Writer :
    /\ Passed(w) => disk.out # Old
    /\ Secured(w) => \A d \in possible : d.out # Old
    /\ \A v \in Writer \ {w} :
         Passed(w) /\ disk.out = Absent /\ at[v] \in {"publish", "restore"} =>
           disk.backup[v].of # "before"

-----------------------------------------------------------------------------
(* The fields of a parent directory, and of what a step makes of it.       *)

LEMMA CopyFields ==
  ASSUME NEW of, NEW state
  PROVE  Copy(of, state).of = of /\ Copy(of, state).state = state
BY DEF Copy

LEMMA SpecialCopies ==
  /\ Absent.of = "nobody" /\ Absent.state = "absent"
  /\ Foreign.of = "nobody" /\ Foreign.state = "foreign"
  /\ Old.of = "before" /\ Old.state = "synced"
  /\ Absent # Foreign /\ Absent # Old /\ Foreign # Old
BY DEF Absent, Foreign, Old, Copy

LEMMA OutputKinds ==
  ASSUME NEW copy \in Outputs
  PROVE  /\ copy.state \in {"absent", "foreign", "synced"}
         /\ copy.state = "absent" <=> copy = Absent
         /\ copy.state = "foreign" <=> copy = Foreign
         /\ copy = Old <=> copy.state = "synced" /\ copy.of = "before"
BY SpecialCopies DEF Outputs, Makers, Absent, Foreign, Old, Copy

LEMMA BackupKinds ==
  ASSUME NEW copy \in Backups
  PROVE  /\ copy.state \in {"absent", "synced", "partial"}
         /\ copy.state = "absent" <=> copy = Absent
         /\ copy.state = "synced" => copy \in Outputs
         /\ Shrink(copy) \in Backups /\ Shrink(copy).state # "synced"
BY SpecialCopies, CopyFields DEF Backups, Outputs, Makers, Absent, Copy, Shrink

LEMMA OwnCopies ==
  ASSUME NEW w \in Writer
  PROVE  /\ \A state \in {"partial", "written", "synced"} : Copy(w, state) \in Stagings
         /\ Copy(w, "synced") \in Outputs
         /\ New(Copy(w, "synced")) /\ Copy(w, "synced") # Foreign
BY WriterAssumption DEF Stagings, Outputs, Makers, Copy, New, Foreign

LEMMA DiskFields ==
  ASSUME NEW d \in Disks
  PROVE  /\ d.out \in Outputs
         /\ d.staging \in [Writer -> Stagings] /\ d.backup \in [Writer -> Backups]
BY DEF Disks

LEMMA StagingUpdate ==
  ASSUME NEW d \in Disks, NEW w \in Writer, NEW copy \in Stagings
  PROVE  LET e == [d EXCEPT !.staging[w] = copy] IN
         /\ e \in Disks /\ e.out = d.out /\ e.backup = d.backup
         /\ e.staging = [d.staging EXCEPT ![w] = copy]
BY DEF Disks

LEMMA BackupUpdate ==
  ASSUME NEW d \in Disks, NEW w \in Writer, NEW copy \in Backups
  PROVE  LET e == [d EXCEPT !.backup[w] = copy] IN
         /\ e \in Disks /\ e.out = d.out /\ e.staging = d.staging
         /\ e.backup = [d.backup EXCEPT ![w] = copy]
BY DEF Disks

(* A power loss hurts staging areas only.                                  *)
LEMMA SettledDisk ==
  ASSUME NEW d \in Disks
  PROVE  /\ Settled(d) \in Disks
         /\ Settled(d).out = d.out /\ Settled(d).backup = d.backup
<1> DEFINE settle(copy) == IF copy.state = "written" THEN Copy(copy.of, "partial") ELSE copy
<1>1. d.out \in Outputs /\ d.staging \in [Writer -> Stagings]
      /\ d.backup \in [Writer -> Backups]
  BY DiskFields
<1>2. settle(d.out) = d.out
  BY <1>1, OutputKinds
<1>3. \A w \in Writer : settle(d.backup[w]) = d.backup[w]
  BY <1>1, BackupKinds
<1>4. [w \in Writer |-> settle(d.backup[w])] = d.backup
  BY <1>1, <1>3
<1>5. \A w \in Writer : settle(d.staging[w]) \in Stagings
  <2> SUFFICES ASSUME NEW w \in Writer PROVE settle(d.staging[w]) \in Stagings
    OBVIOUS
  <2>1. d.staging[w] \in Stagings
    BY <1>1
  <2> QED
    BY <2>1, SpecialCopies DEF Stagings, Copy
<1>6. Settled(d) = [out |-> d.out, staging |-> [w \in Writer |-> settle(d.staging[w])],
                    backup |-> d.backup]
  BY <1>2, <1>4 DEF Settled
<1> HIDE DEF settle
<1> QED
  BY <1>1, <1>5, <1>6 DEF Disks

-----------------------------------------------------------------------------
(* A step of one writer leaves the others alone.                           *)

Others(w) ==
  \A u \in Writer \ {w} :
    /\ at'[u] = at[u] /\ seen'[u] = seen[u] /\ backed'[u] = backed[u] /\ fine'[u] = fine[u]
    /\ disk'.staging[u] = disk.staging[u] /\ disk'.backup[u] = disk.backup[u]

Touched(w) ==
  /\ before' = before /\ replace' = replace
  /\ disk' \in Disks /\ disk' \in possible' /\ possible' \subseteq possible \cup {disk'}
  /\ at' \in [Writer -> WriterPlaces] /\ seen' \in [Writer -> BOOLEAN]
  /\ backed' \in [Writer -> BOOLEAN] /\ fine' \in [Writer -> BOOLEAN]
  /\ Others(w)

(* A step that leaves the parent directory alone.                          *)
LEMMA LeaveTouches ==
  ASSUME WriterTypeOK, Leave
  PROVE  /\ disk' \in Disks /\ disk' \in possible' /\ possible' \subseteq possible \cup {disk'}
         /\ disk'.out = disk.out /\ disk'.backup = disk.backup /\ disk'.staging = disk.staging
BY DEF WriterTypeOK, Leave

(* A step that changes a staging area.                                     *)
LEMMA StagingTouches ==
  ASSUME WriterTypeOK, NEW w \in Writer, NEW copy \in Stagings,
         Change([disk EXCEPT !.staging[w] = copy])
  PROVE  /\ disk' \in Disks /\ disk' \in possible' /\ possible' \subseteq possible \cup {disk'}
         /\ disk'.out = disk.out /\ disk'.backup = disk.backup
         /\ \A u \in Writer \ {w} : disk'.staging[u] = disk.staging[u]
         /\ disk'.staging[w] = copy
<1>1. disk \in Disks
  BY DEF WriterTypeOK
<1>2. disk.staging \in [Writer -> Stagings]
  BY <1>1, DiskFields
<1>3. disk' = [disk EXCEPT !.staging[w] = copy] /\ possible' = possible \cup {disk'}
  BY DEF Change
<1>4. /\ disk' \in Disks /\ disk'.out = disk.out /\ disk'.backup = disk.backup
      /\ disk'.staging = [disk.staging EXCEPT ![w] = copy]
  BY <1>1, <1>3, StagingUpdate
<1> QED
  BY <1>2, <1>3, <1>4

(* A step that changes a backup.                                           *)
LEMMA BackupTouches ==
  ASSUME WriterTypeOK, NEW w \in Writer, NEW copy \in Backups,
         Change([disk EXCEPT !.backup[w] = copy])
  PROVE  /\ disk' \in Disks /\ disk' \in possible' /\ possible' \subseteq possible \cup {disk'}
         /\ disk'.out = disk.out /\ disk'.staging = disk.staging
         /\ \A u \in Writer \ {w} : disk'.backup[u] = disk.backup[u]
         /\ disk'.backup[w] = copy
<1>1. disk \in Disks
  BY DEF WriterTypeOK
<1>2. disk.backup \in [Writer -> Backups]
  BY <1>1, DiskFields
<1>3. disk' = [disk EXCEPT !.backup[w] = copy] /\ possible' = possible \cup {disk'}
  BY DEF Change
<1>4. /\ disk' \in Disks /\ disk'.out = disk.out /\ disk'.staging = disk.staging
      /\ disk'.backup = [disk.backup EXCEPT ![w] = copy]
  BY <1>1, <1>3, BackupUpdate
<1> QED
  BY <1>2, <1>3, <1>4

(* A rename between the output and a backup.                               *)
LEMMA SwapTouches ==
  ASSUME WriterTypeOK, NEW w \in Writer, NEW copy \in Backups, NEW out \in Outputs,
         Change([disk EXCEPT !.out = out, !.backup[w] = copy])
  PROVE  /\ disk' \in Disks /\ disk' \in possible' /\ possible' \subseteq possible \cup {disk'}
         /\ disk'.out = out /\ disk'.staging = disk.staging
         /\ \A u \in Writer \ {w} : disk'.backup[u] = disk.backup[u]
         /\ disk'.backup[w] = copy
<1>1. disk \in Disks
  BY DEF WriterTypeOK
<1>2. disk.backup \in [Writer -> Backups]
  BY <1>1, DiskFields
<1>3. disk' = [disk EXCEPT !.out = out, !.backup[w] = copy] /\ possible' = possible \cup {disk'}
  BY DEF Change
<1>4. /\ disk' \in Disks /\ disk'.out = out /\ disk'.staging = disk.staging
      /\ disk'.backup = [disk.backup EXCEPT ![w] = copy]
  BY <1>1, <1>3 DEF Disks
<1> QED
  BY <1>2, <1>3, <1>4

(* The rename of a staging area to the output.                             *)
LEMMA PublishTouches ==
  ASSUME WriterTypeOK, NEW w \in Writer, NEW out \in Outputs,
         Change([disk EXCEPT !.out = out, !.staging[w] = Absent])
  PROVE  /\ disk' \in Disks /\ disk' \in possible' /\ possible' \subseteq possible \cup {disk'}
         /\ disk'.out = out /\ disk'.backup = disk.backup
         /\ \A u \in Writer \ {w} : disk'.staging[u] = disk.staging[u]
<1>1. disk \in Disks /\ Absent \in Stagings
  BY DEF WriterTypeOK, Stagings
<1>2. disk.staging \in [Writer -> Stagings]
  BY <1>1, DiskFields
<1>3. disk' = [disk EXCEPT !.out = out, !.staging[w] = Absent] /\ possible' = possible \cup {disk'}
  BY DEF Change
<1>4. /\ disk' \in Disks /\ disk'.out = out /\ disk'.backup = disk.backup
      /\ disk'.staging = [disk.staging EXCEPT ![w] = Absent]
  BY <1>1, <1>3 DEF Disks
<1> QED
  BY <1>2, <1>3, <1>4

LEMMA MoveTouches ==
  ASSUME NEW w \in Writer, at \in [Writer -> WriterPlaces], NEW here, NEW next \in WriterPlaces,
         At(w, here, next)
  PROVE  /\ at[w] = here /\ at' \in [Writer -> WriterPlaces] /\ at'[w] = next
         /\ \A u \in Writer \ {w} : at'[u] = at[u]
BY DEF At

LEMMA SetTouches ==
  ASSUME NEW w \in Writer, NEW S, NEW f \in [Writer -> S], NEW value \in S
  PROVE  /\ Set(f, w, value) \in [Writer -> S] /\ Set(f, w, value)[w] = value
         /\ \A u \in Writer \ {w} : Set(f, w, value)[u] = f[u]
BY DEF Set

-----------------------------------------------------------------------------
(* Steps that change neither the output nor a backup, and bring the writer *)
(* past no publication.                                                    *)

Quiet(w) ==
  /\ disk'.out = disk.out /\ disk'.backup = disk.backup
  /\ Passed(w)' => Passed(w)
  /\ Secured(w)' => Secured(w)
  /\ Drops(w)' => Drops(w) \/ disk.backup[w].state # "synced"
  /\ at'[w] \in {"publish", "restore"} =>
       at[w] \in {"publish", "restore"} \/ disk.backup[w].of # "before"

Quietly(w) == Touched(w) /\ OwnsItsCopies(w)' /\ Quiet(w)

LEMMA BeginsQuietly ==
  ASSUME WriterInvariant, NEW w \in Writer, Begin(w)
  PROVE  Quietly(w)
<1>1. /\ at[w] = "idle" /\ at' \in [Writer -> WriterPlaces] /\ at'[w] = "inspect"
      /\ \A u \in Writer \ {w} : at'[u] = at[u]
  BY MoveTouches DEF Begin, WriterInvariant, WriterTypeOK, WriterPlaces
<1>2. /\ disk' \in Disks /\ disk' \in possible' /\ possible' = possible
      /\ disk' = disk
  BY DEF Begin, Leave, WriterInvariant, WriterTypeOK
<1>3. Touched(w)
  BY <1>1, <1>2 DEF Touched, Others, Begin, Constant, WriterInvariant, WriterTypeOK
<1>4. OwnsItsCopies(w)'
  BY <1>1, <1>2 DEF OwnsItsCopies, Begin, Constant, WriterInvariant, Owned
<1> QED
  BY <1>1, <1>2, <1>3, <1>4 DEF Quietly, Quiet, Passed, Secured, Drops, Begin

LEMMA InspectsQuietly ==
  ASSUME WriterInvariant, NEW w \in Writer, InspectExistingOutput(w)
  PROVE  Quietly(w)
<1>1. /\ at[w] = "inspect" /\ at' \in [Writer -> WriterPlaces]
      /\ at'[w] \in {"stage", "exists", "recognize"}
      /\ \A u \in Writer \ {w} : at'[u] = at[u]
  BY DEF InspectExistingOutput, At, WriterInvariant, WriterTypeOK, WriterPlaces, Ended
<1>2. /\ disk' \in Disks /\ disk' \in possible' /\ possible' = possible
      /\ disk' = disk
  BY DEF InspectExistingOutput, Leave, WriterInvariant, WriterTypeOK
<1>3. /\ seen' \in [Writer -> BOOLEAN] /\ \A u \in Writer \ {w} : seen'[u] = seen[u]
  BY DEF InspectExistingOutput, Set, WriterInvariant, WriterTypeOK
<1>4. at'[w] = "stage" => disk.out = Absent
  BY <1>1 DEF InspectExistingOutput, At, WriterInvariant, WriterTypeOK
<1>5. at'[w] = "stage" => before # Foreign
  BY <1>4, SpecialCopies DEF WriterInvariant, WriterTypeOK, Kept
<1>6. Touched(w)
  BY <1>1, <1>2, <1>3
  DEF Touched, Others, InspectExistingOutput, Constant, WriterInvariant, WriterTypeOK
<1>7. OwnsItsCopies(w)'
  BY <1>1, <1>2, <1>5
  DEF OwnsItsCopies, InspectExistingOutput, Constant, WriterInvariant, Owned
<1> QED
  BY <1>1, <1>2, <1>6, <1>7
  DEF Quietly, Quiet, Passed, Secured, Drops, InspectExistingOutput

LEMMA RecognizesQuietly ==
  ASSUME WriterInvariant, NEW w \in Writer, AssertReplaceableAssembly(w)
  PROVE  Quietly(w)
<1>1. /\ at[w] = "recognize" /\ at' \in [Writer -> WriterPlaces]
      /\ at'[w] \in {"stage", "failed"} /\ (at'[w] = "stage" => disk.out # Foreign)
      /\ \A u \in Writer \ {w} : at'[u] = at[u]
  BY DEF AssertReplaceableAssembly, At, WriterInvariant, WriterTypeOK, WriterPlaces, Ended
<1>2. /\ disk' \in Disks /\ disk' \in possible' /\ possible' = possible
      /\ disk' = disk
  BY DEF AssertReplaceableAssembly, Leave, WriterInvariant, WriterTypeOK
<1>3. at'[w] = "stage" => before # Foreign
  BY <1>1 DEF WriterInvariant, WriterTypeOK, Kept
<1>4. Touched(w)
  BY <1>1, <1>2
  DEF Touched, Others, AssertReplaceableAssembly, Constant, WriterInvariant, WriterTypeOK
<1>5. OwnsItsCopies(w)'
  BY <1>1, <1>2, <1>3
  DEF OwnsItsCopies, AssertReplaceableAssembly, Constant, WriterInvariant, Owned
<1> QED
  BY <1>1, <1>2, <1>4, <1>5
  DEF Quietly, Quiet, Passed, Secured, Drops, AssertReplaceableAssembly

LEMMA StagesQuietly ==
  ASSUME WriterInvariant, NEW w \in Writer, MakeStaging(w)
  PROVE  Quietly(w)
<1>1. /\ at[w] = "stage" /\ at' \in [Writer -> WriterPlaces] /\ at'[w] = "write"
      /\ \A u \in Writer \ {w} : at'[u] = at[u]
  BY DEF MakeStaging, At, WriterInvariant, WriterTypeOK, WriterPlaces
<1>2. /\ disk' \in Disks /\ disk' \in possible' /\ possible' \subseteq possible \cup {disk'}
      /\ disk'.out = disk.out /\ disk'.backup = disk.backup
      /\ \A u \in Writer \ {w} : disk'.staging[u] = disk.staging[u]
  BY StagingTouches, OwnCopies DEF MakeStaging, WriterInvariant
<1>3. Touched(w)
  BY <1>1, <1>2
  DEF Touched, Others, MakeStaging, Constant, WriterInvariant, WriterTypeOK
<1>4. OwnsItsCopies(w)'
  BY <1>1, <1>2
  DEF OwnsItsCopies, MakeStaging, Constant, WriterInvariant, WriterTypeOK, Owned
<1> QED
  BY <1>1, <1>2, <1>3, <1>4
  DEF Quietly, Quiet, Passed, Secured, Drops, MakeStaging

LEMMA WritesQuietly ==
  ASSUME WriterInvariant, NEW w \in Writer, NEW paths, WriteStaging(w, paths)
  PROVE  Quietly(w)
<1>1. CASE /\ At(w, "write", "sync") /\ UNCHANGED fine
           /\ Change([disk EXCEPT !.staging[w] = Copy(w, "written")])
  <2>1. /\ at[w] = "write" /\ at' \in [Writer -> WriterPlaces] /\ at'[w] = "sync"
        /\ \A u \in Writer \ {w} : at'[u] = at[u]
    BY <1>1 DEF At, WriterInvariant, WriterTypeOK, WriterPlaces
  <2>2. /\ disk' \in Disks /\ disk' \in possible' /\ possible' \subseteq possible \cup {disk'}
        /\ disk'.out = disk.out /\ disk'.backup = disk.backup
        /\ \A u \in Writer \ {w} : disk'.staging[u] = disk.staging[u]
    BY <1>1, StagingTouches, OwnCopies DEF WriterInvariant
  <2>3. Touched(w)
    BY <1>1, <2>1, <2>2
    DEF Touched, Others, WriteStaging, Constant, WriterInvariant, WriterTypeOK
  <2>4. OwnsItsCopies(w)'
    BY <1>1, <2>1, <2>2
    DEF OwnsItsCopies, WriteStaging, Constant, WriterInvariant, WriterTypeOK, Owned
  <2> QED
    BY <1>1, <2>1, <2>2, <2>3, <2>4
    DEF Quietly, Quiet, Passed, Secured, Drops, WriteStaging
<1>2. CASE At(w, "write", "clean") /\ Throws(w) /\ Leave
  <2>1. /\ at[w] = "write" /\ at' \in [Writer -> WriterPlaces] /\ at'[w] = "clean"
        /\ \A u \in Writer \ {w} : at'[u] = at[u]
    BY <1>2 DEF At, WriterInvariant, WriterTypeOK, WriterPlaces
  <2>2. disk' \in Disks /\ disk' \in possible' /\ possible' = possible /\ disk' = disk
    BY <1>2 DEF Leave, WriterInvariant, WriterTypeOK
  <2>3. /\ fine' \in [Writer -> BOOLEAN] /\ fine'[w] = FALSE
        /\ \A u \in Writer \ {w} : fine'[u] = fine[u]
    BY <1>2 DEF Throws, Set, WriterInvariant, WriterTypeOK
  <2>4. Touched(w)
    BY <2>1, <2>2, <2>3
    DEF Touched, Others, WriteStaging, Constant, WriterInvariant, WriterTypeOK
  <2>5. OwnsItsCopies(w)' /\ ~backed[w]
    BY <2>1, <2>2
    DEF OwnsItsCopies, WriteStaging, Constant, WriterInvariant, WriterTypeOK, Owned
  <2> QED
    BY <2>1, <2>2, <2>3, <2>4, <2>5
    DEF Quietly, Quiet, Passed, Secured, Drops, WriteStaging
<1> QED
  BY <1>1, <1>2 DEF WriteStaging

LEMMA SyncsQuietly ==
  ASSUME WriterInvariant, NEW w \in Writer, SyncStaging(w)
  PROVE  Quietly(w)
<1>1. /\ at[w] = "sync" /\ at' \in [Writer -> WriterPlaces]
      /\ at'[w] = IF seen[w] THEN "set aside" ELSE "publish"
      /\ \A u \in Writer \ {w} : at'[u] = at[u]
  BY DEF SyncStaging, At, WriterInvariant, WriterTypeOK, WriterPlaces
<1>2. /\ disk' \in Disks /\ disk' \in possible' /\ possible' \subseteq possible \cup {disk'}
      /\ disk'.out = disk.out /\ disk'.backup = disk.backup
      /\ \A u \in Writer \ {w} : disk'.staging[u] = disk.staging[u]
      /\ disk'.staging[w] = Copy(w, "synced")
  BY StagingTouches, OwnCopies DEF SyncStaging, WriterInvariant
<1>3. Touched(w)
  BY <1>1, <1>2
  DEF Touched, Others, SyncStaging, Constant, WriterInvariant, WriterTypeOK
<1>4. ~backed[w] /\ (\A d \in possible : d.backup[w] = Absent) /\ before # Foreign
  BY <1>1 DEF OwnsItsCopies, WriterInvariant, Owned
<1>5. disk'.backup[w] = Absent /\ \A d \in possible' : d.backup[w] = Absent
  BY <1>2, <1>4 DEF WriterInvariant, WriterTypeOK
<1>6. OwnsItsCopies(w)'
  BY <1>1, <1>2, <1>4, <1>5 DEF OwnsItsCopies, SyncStaging, Constant
<1> QED
  BY <1>1, <1>2, <1>3, <1>5, <1>6, SpecialCopies
  DEF Quietly, Quiet, Passed, Secured, Drops, SyncStaging

(* What a failed rename, a call that fails and a death have in common: the *)
(* parent directory stays as it is.                                        *)
LEMMA StaysQuietly ==
  ASSUME WriterInvariant, NEW w \in Writer, Leave, UNCHANGED <<before, replace, seen>>,
         at' \in [Writer -> WriterPlaces], fine' \in [Writer -> BOOLEAN],
         backed' \in [Writer -> BOOLEAN],
         \A u \in Writer \ {w} :
           at'[u] = at[u] /\ backed'[u] = backed[u] /\ fine'[u] = fine[u],
         \/ ~fine'[w] /\ at'[w] \in {"failed", "clean"}
         \/ ~fine'[w] /\ at'[w] = "restore" /\ at[w] = "publish" /\ seen[w]
         \/ at'[w] = "dead",
         at'[w] \in {"clean", "restore"} => before # Foreign,
         at'[w] = "clean" /\ backed'[w] => Drops(w) \/ disk.backup[w].state # "synced"
  PROVE  Quietly(w)
<1>1. disk' \in Disks /\ disk' \in possible' /\ possible' = possible /\ disk' = disk
  BY DEF Leave, WriterInvariant, WriterTypeOK
<1>2. Touched(w)
  BY <1>1 DEF Touched, Others, WriterInvariant, WriterTypeOK
<1>3. OwnsItsCopies(w)'
  <2>1. CASE at'[w] = "restore"
    BY <1>1, <2>1 DEF OwnsItsCopies, WriterInvariant, Owned
  <2>2. CASE at'[w] # "restore"
    BY <1>1, <2>2 DEF OwnsItsCopies
  <2> QED
    BY <2>1, <2>2
<1>4. Quiet(w)
  BY <1>1 DEF Quiet, Passed, Secured, Drops
<1> QED
  BY <1>2, <1>3, <1>4 DEF Quietly

LEMMA MissesQuietly ==
  ASSUME WriterInvariant, NEW w \in Writer, SetAside(w), disk.out = Absent
  PROVE  Quietly(w)
<1>1. At(w, "set aside", "clean") /\ Throws(w) /\ Leave
  BY DEF SetAside
<1>2. /\ at[w] = "set aside" /\ at' \in [Writer -> WriterPlaces] /\ at'[w] = "clean"
      /\ \A u \in Writer \ {w} : at'[u] = at[u]
  BY <1>1 DEF At, WriterInvariant, WriterTypeOK, WriterPlaces
<1>3. /\ fine' \in [Writer -> BOOLEAN] /\ fine'[w] = FALSE
      /\ \A u \in Writer \ {w} : fine'[u] = fine[u]
  BY <1>1 DEF Throws, Set, WriterInvariant, WriterTypeOK
<1>4. /\ backed' \in [Writer -> BOOLEAN]
      /\ \A u \in Writer \ {w} : backed'[u] = backed[u]
  BY DEF SetAside, Set, WriterInvariant, WriterTypeOK
<1>5. disk.backup[w].state # "synced" /\ before # Foreign
  BY <1>2, SpecialCopies DEF OwnsItsCopies, WriterInvariant, WriterTypeOK, Owned
<1> QED
  BY <1>1, <1>2, <1>3, <1>4, <1>5, StaysQuietly DEF SetAside, Constant

LEMMA LosesQuietly ==
  ASSUME WriterInvariant, NEW w \in Writer, Publish(w), disk.out # Absent
  PROVE  Quietly(w)
<1>1. /\ At(w, "publish", IF seen[w] THEN "restore" ELSE "clean") /\ Throws(w) /\ Leave
      /\ UNCHANGED <<before, replace, seen, backed>>
  BY DEF Publish, Constant
<1>2. /\ at[w] = "publish" /\ at' \in [Writer -> WriterPlaces]
      /\ at'[w] = IF seen[w] THEN "restore" ELSE "clean"
      /\ \A u \in Writer \ {w} : at'[u] = at[u]
  BY <1>1 DEF At, WriterInvariant, WriterTypeOK, WriterPlaces
<1>3. /\ fine' \in [Writer -> BOOLEAN] /\ fine'[w] = FALSE
      /\ \A u \in Writer \ {w} : fine'[u] = fine[u]
  BY <1>1 DEF Throws, Set, WriterInvariant, WriterTypeOK
<1>4. backed' \in [Writer -> BOOLEAN]
  BY <1>1 DEF WriterInvariant, WriterTypeOK
<1>5. (~seen[w] => ~backed[w]) /\ before # Foreign
  BY <1>2 DEF OwnsItsCopies, WriterInvariant, Owned
<1>6. \A u \in Writer \ {w} : backed'[u] = backed[u]
  BY <1>1
<1>7. at'[w] = "clean" => ~backed'[w]
  BY <1>1, <1>2, <1>5
<1>8. \/ at'[w] = "clean"
      \/ at'[w] = "restore" /\ seen[w]
  BY <1>2
<1> QED
  BY <1>1, <1>2, <1>3, <1>4, <1>5, <1>6, <1>7, <1>8, StaysQuietly

LEMMA LeavesItQuietly ==
  ASSUME WriterInvariant, NEW w \in Writer, Restore(w), disk.out # Absent
  PROVE  Quietly(w)
<1>1. At(w, "restore", "clean") /\ Leave /\ UNCHANGED <<before, replace, seen, fine>>
  BY DEF Restore, Constant
<1>2. /\ at[w] = "restore" /\ at' \in [Writer -> WriterPlaces] /\ at'[w] = "clean"
      /\ \A u \in Writer \ {w} : at'[u] = at[u]
  BY <1>1 DEF At, WriterInvariant, WriterTypeOK, WriterPlaces
<1>3. /\ backed' \in [Writer -> BOOLEAN] /\ backed'[w] = FALSE
      /\ \A u \in Writer \ {w} : backed'[u] = backed[u]
  BY DEF Restore, Set, WriterInvariant, WriterTypeOK
<1>4. before # Foreign /\ ~fine[w]
  BY <1>2 DEF OwnsItsCopies, WriterInvariant, Owned
<1>5. fine' \in [Writer -> BOOLEAN] /\ fine' = fine
  BY <1>1 DEF WriterInvariant, WriterTypeOK
<1> QED
  BY <1>1, <1>2, <1>3, <1>4, <1>5, StaysQuietly

LEMMA FailsQuietly ==
  ASSUME WriterInvariant, NEW w \in Writer, Failure(w)
  PROVE  Quietly(w)
<1>1. /\ Leave /\ UNCHANGED <<before, replace, seen>> /\ Throws(w)
      /\ at' = Set(at, w, AfterFailure(w))
      /\ backed' = Set(backed, w, backed[w] /\ at[w] # "restore")
  BY DEF Failure
<1>2. at[w] \in WriterPlaces /\ Running(w) /\ backed[w] \in BOOLEAN
  BY DEF Failure, WriterInvariant, WriterTypeOK
<1>3. /\ AfterFailure(w) \in {"failed", "clean", "restore"}
      /\ AfterFailure(w) = "restore" => at[w] = "publish" /\ seen[w]
      /\ AfterFailure(w) = "clean" =>
           at[w] \in {"write", "sync", "set aside", "restore", "sync swap", "drop", "sync drop"}
           \/ (at[w] = "publish" /\ ~seen[w])
  BY <1>2 DEF AfterFailure, WriterPlaces, Running, Ended
<1>4. /\ at' \in [Writer -> WriterPlaces] /\ at'[w] = AfterFailure(w)
      /\ \A u \in Writer \ {w} : at'[u] = at[u]
  BY <1>1, <1>3 DEF Set, WriterInvariant, WriterTypeOK, WriterPlaces, Ended
<1>5. /\ fine' \in [Writer -> BOOLEAN] /\ fine'[w] = FALSE
      /\ \A u \in Writer \ {w} : fine'[u] = fine[u]
  BY <1>1 DEF Throws, Set, WriterInvariant, WriterTypeOK
<1>6. /\ backed' \in [Writer -> BOOLEAN]
      /\ backed'[w] = (backed[w] /\ at[w] # "restore")
      /\ \A u \in Writer \ {w} : backed'[u] = backed[u]
  <2> DEFINE owned == backed[w] /\ at[w] # "restore"
  <2>1. owned \in BOOLEAN /\ backed \in [Writer -> BOOLEAN] /\ backed' = Set(backed, w, owned)
    BY <1>1 DEF WriterInvariant, WriterTypeOK
  <2> HIDE DEF owned
  <2>2. /\ backed' \in [Writer -> BOOLEAN] /\ backed'[w] = owned
        /\ \A u \in Writer \ {w} : backed'[u] = backed[u]
    BY <2>1, SetTouches
  <2> QED
    BY <2>2 DEF owned
<1>7. AfterFailure(w) \in {"clean", "restore"} => before # Foreign
  BY <1>3 DEF OwnsItsCopies, WriterInvariant, Owned
<1>8. AfterFailure(w) = "clean" /\ backed'[w] => Drops(w)
  BY <1>3, <1>6 DEF OwnsItsCopies, WriterInvariant, Owned, Drops
<1> QED
  BY <1>1, <1>3, <1>4, <1>5, <1>6, <1>7, <1>8, StaysQuietly

LEMMA DiesQuietly ==
  ASSUME WriterInvariant, NEW w \in Writer, Die(w)
  PROVE  Quietly(w)
<1>1. /\ Leave /\ UNCHANGED <<before, replace, seen, backed, fine>>
      /\ at' = Set(at, w, "dead")
  BY DEF Die
<1>2. /\ at' \in [Writer -> WriterPlaces] /\ at'[w] = "dead"
      /\ \A u \in Writer \ {w} : at'[u] = at[u]
  BY <1>1 DEF Set, WriterInvariant, WriterTypeOK, WriterPlaces, Ended
<1> QED
  BY <1>1, <1>2, StaysQuietly DEF WriterInvariant, WriterTypeOK

LEMMA SyncsTheDropQuietly ==
  ASSUME WriterInvariant, NEW w \in Writer, SyncDrop(w)
  PROVE  Quietly(w)
<1>1. /\ at[w] = "sync drop" /\ at' \in [Writer -> WriterPlaces] /\ at'[w] = "clean"
      /\ \A u \in Writer \ {w} : at'[u] = at[u]
  BY DEF SyncDrop, At, WriterInvariant, WriterTypeOK, WriterPlaces
<1>2. disk' \in Disks /\ possible' = {disk'} /\ disk' = disk
  BY DEF SyncDrop, SyncParent, WriterInvariant, WriterTypeOK
<1>3. Touched(w)
  BY <1>1, <1>2 DEF Touched, Others, SyncDrop, Constant, WriterInvariant, WriterTypeOK
<1>4. OwnsItsCopies(w)'
  BY <1>1, <1>2 DEF OwnsItsCopies, SyncDrop, Constant, WriterInvariant, Owned
<1> QED
  BY <1>1, <1>2, <1>3, <1>4 DEF Quietly, Quiet, Passed, Secured, Drops, SyncDrop

(* Two of the three steps of the cleaning.                                 *)
LEMMA ClearsQuietly ==
  ASSUME WriterInvariant, NEW w \in Writer, Clean(w), disk.staging[w] # Absent
  PROVE  Quietly(w)
<1>1. /\ at[w] = "clean" /\ UNCHANGED <<at, backed, before, replace, seen, fine>>
      /\ Change([disk EXCEPT !.staging[w] = Absent])
  BY DEF Clean, Constant
<1>2. /\ disk' \in Disks /\ disk' \in possible' /\ possible' \subseteq possible \cup {disk'}
      /\ disk'.out = disk.out /\ disk'.backup = disk.backup
      /\ \A u \in Writer \ {w} : disk'.staging[u] = disk.staging[u]
  BY <1>1, StagingTouches DEF WriterInvariant, Stagings
<1>3. Touched(w)
  BY <1>1, <1>2 DEF Touched, Others, WriterInvariant, WriterTypeOK
<1>4. OwnsItsCopies(w)'
  BY <1>1, <1>2 DEF OwnsItsCopies, WriterInvariant, Owned
<1> QED
  BY <1>1, <1>2, <1>3, <1>4 DEF Quietly, Quiet, Passed, Secured, Drops

LEMMA EndsQuietly ==
  ASSUME WriterInvariant, NEW w \in Writer, Clean(w), disk.staging[w] = Absent, ~backed[w]
  PROVE  Quietly(w)
<1>1. /\ at[w] = "clean" /\ UNCHANGED <<backed, before, replace, seen, fine>> /\ Leave
      /\ at' = Set(at, w, IF fine[w] THEN "written" ELSE "failed")
  BY DEF Clean, Constant
<1>2. /\ at' \in [Writer -> WriterPlaces]
      /\ at'[w] = IF fine[w] THEN "written" ELSE "failed"
      /\ \A u \in Writer \ {w} : at'[u] = at[u]
  BY <1>1 DEF Set, WriterInvariant, WriterTypeOK, WriterPlaces, Ended
<1>3. disk' \in Disks /\ disk' \in possible' /\ possible' = possible /\ disk' = disk
  BY <1>1 DEF Leave, WriterInvariant, WriterTypeOK
<1>4. Touched(w)
  BY <1>1, <1>2, <1>3 DEF Touched, Others, WriterInvariant, WriterTypeOK
<1>5. OwnsItsCopies(w)'
  BY <1>1, <1>2, <1>3 DEF OwnsItsCopies, WriterInvariant, Owned
<1> QED
  BY <1>1, <1>2, <1>3, <1>4, <1>5 DEF Quietly, Quiet, Passed, Secured, Drops

(* A quiet step keeps what there is.                                       *)
LEMMA QuietTouchesNobody ==
  ASSUME WriterInvariant, NEW w \in Writer, Touched(w), Quiet(w), NEW u \in Writer
  PROVE  /\ Passed(u)' => Passed(u)
         /\ Secured(u)' => Secured(u)
         /\ Drops(u)' => Drops(u) \/ disk.backup[u].state # "synced"
         /\ at'[u] \in {"publish", "restore"} =>
              at[u] \in {"publish", "restore"} \/ disk.backup[u].of # "before"
<1>1. CASE u = w
  BY <1>1 DEF Quiet
<1>2. CASE u # w
  BY <1>2 DEF Touched, Others, Passed, Secured, Drops
<1> QED
  BY <1>1, <1>2

LEMMA QuietKeeps ==
  ASSUME WriterInvariant, NEW w \in Writer, Touched(w), Quiet(w)
  PROVE  Kept'
<1>1. /\ disk \in possible /\ disk'.out = disk.out /\ disk'.backup = disk.backup
      /\ before' = before /\ possible' \subseteq possible \cup {disk'}
  BY DEF WriterInvariant, WriterTypeOK, Touched, Quiet
<1>2. /\ Holds(disk) => Holds(disk')
      /\ HoldsNew(disk) => HoldsNew(disk')
  BY <1>1 DEF Holds, HoldsNew
<1>3. KeepsOne => KeepsOne'
  BY <1>1, QuietTouchesNobody DEF KeepsOne
<1>4. KeepsNew => KeepsNew'
  BY <1>1, QuietTouchesNobody DEF KeepsNew, New
<1>5. ASSUME NEW d \in possible'
      PROVE  (d.out = Foreign <=> before' = Foreign) /\ (before' = Old => Holds(d))
  BY <1>1, <1>2, <1>5 DEF WriterInvariant, Kept
<1>6. ASSUME NEW u \in Writer, Passed(u)'
      PROVE  KeepsNew'
  BY <1>4, <1>6, QuietTouchesNobody DEF WriterInvariant, Kept
<1>7. ASSUME NEW u \in Writer, Secured(u)', NEW d \in possible'
      PROVE  HoldsNew(d)
  BY <1>1, <1>2, <1>7, QuietTouchesNobody DEF WriterInvariant, Kept
<1> QED
  BY <1>1, <1>3, <1>5, <1>6, <1>7 DEF WriterInvariant, Kept

LEMMA QuietStays ==
  ASSUME WriterInvariant, StaysNew, NEW w \in Writer, Touched(w), Quiet(w)
  PROVE  StaysNew'
<1>1. /\ disk \in possible /\ disk'.out = disk.out /\ disk'.backup = disk.backup
      /\ possible' \subseteq possible \cup {disk'}
  BY DEF WriterInvariant, WriterTypeOK, Touched, Quiet
<1> QED
  BY <1>1, QuietTouchesNobody DEF StaysNew

-----------------------------------------------------------------------------
(* The steps that move an assembly, or give one up.                        *)

LEMMA OthersStay ==
  ASSUME NEW w \in Writer, Touched(w), NEW u \in Writer \ {w}
  PROVE  /\ (Passed(u)' <=> Passed(u)) /\ (Secured(u)' <=> Secured(u))
         /\ (Drops(u)' <=> Drops(u))
         /\ disk'.backup[u] = disk.backup[u] /\ at'[u] = at[u]
BY DEF Touched, Others, Passed, Secured, Drops

(* The four parts of `Kept` after a step of w.                             *)
LEMMA KeptByParts ==
  ASSUME WriterInvariant, NEW w \in Writer, Touched(w),
         disk'.out = Foreign <=> before = Foreign,
         before = Old => KeepsOne', KeepsNew => KeepsNew', Passed(w)' => KeepsNew',
         Secured(w)' => Secured(w) \/ possible' = {disk'}
  PROVE  Kept'
<1>1. before' = before /\ possible' \subseteq possible \cup {disk'}
  BY DEF Touched
<1>2. (KeepsOne' => Holds(disk')) /\ (KeepsNew' => HoldsNew(disk'))
  BY DEF KeepsOne, KeepsNew, Holds, HoldsNew
<1>3. ASSUME NEW d \in possible'
      PROVE  (d.out = Foreign <=> before' = Foreign) /\ (before' = Old => Holds(d))
  BY <1>1, <1>2, <1>3 DEF WriterInvariant, Kept
<1>4. ASSUME NEW u \in Writer, Passed(u)'
      PROVE  KeepsNew'
  BY <1>4, OthersStay DEF WriterInvariant, Kept
<1>5. ASSUME NEW u \in Writer, Secured(u)', NEW d \in possible'
      PROVE  HoldsNew(d)
  <2>1. Passed(u)'
    BY <1>5 DEF Passed, Secured
  <2>2. HoldsNew(disk')
    BY <1>2, <1>4, <2>1
  <2>3. Secured(u) \/ possible' = {disk'}
    BY <1>5, OthersStay
  <2> QED
    BY <1>1, <1>5, <2>2, <2>3 DEF WriterInvariant, Kept
<1> QED
  BY <1>1, <1>3, <1>4, <1>5 DEF Kept

LEMMA SetAsideTouches ==
  ASSUME WriterInvariant, NEW w \in Writer, SetAside(w), disk.out # Absent
  PROVE  /\ Touched(w) /\ at[w] = "set aside" /\ at'[w] = "publish"
         /\ disk'.out = Absent /\ disk'.backup[w] = disk.out /\ disk.out.state = "synced"
         /\ disk.backup[w] = Absent /\ before # Foreign
         /\ OwnsItsCopies(w)'
<1>1. /\ At(w, "set aside", "publish") /\ UNCHANGED <<before, replace, seen, fine>>
      /\ Change([disk EXCEPT !.out = Absent, !.backup[w] = disk.out])
      /\ backed' = Set(backed, w, TRUE)
  BY DEF SetAside, Constant
<1>2. /\ at[w] = "set aside" /\ at' \in [Writer -> WriterPlaces] /\ at'[w] = "publish"
      /\ \A u \in Writer \ {w} : at'[u] = at[u]
  BY <1>1 DEF At, WriterInvariant, WriterTypeOK, WriterPlaces
<1>3. before # Foreign /\ disk.backup[w] = Absent /\ seen[w]
      /\ disk.staging[w] = Copy(w, "synced")
  BY <1>2 DEF OwnsItsCopies, WriterInvariant, WriterTypeOK, Owned
<1>4. disk.out \in Outputs /\ disk.out # Foreign
  BY <1>3, DiskFields DEF WriterInvariant, WriterTypeOK, Kept
<1>5. disk.out.state = "synced" /\ disk.out \in Backups /\ Absent \in Outputs
  BY <1>4, OutputKinds DEF Outputs, Backups
<1>6. /\ disk' \in Disks /\ disk' \in possible' /\ possible' \subseteq possible \cup {disk'}
      /\ disk'.out = Absent /\ disk'.staging = disk.staging
      /\ \A u \in Writer \ {w} : disk'.backup[u] = disk.backup[u]
      /\ disk'.backup[w] = disk.out
  BY <1>1, <1>5, SwapTouches DEF WriterInvariant
<1>7. /\ backed' \in [Writer -> BOOLEAN]
      /\ \A u \in Writer \ {w} : backed'[u] = backed[u]
  BY <1>1 DEF Set, WriterInvariant, WriterTypeOK
<1>8. Touched(w)
  BY <1>1, <1>2, <1>6, <1>7 DEF Touched, Others, WriterInvariant, WriterTypeOK
<1>9. OwnsItsCopies(w)'
  BY <1>1, <1>2, <1>3, <1>5, <1>6 DEF OwnsItsCopies
<1> QED
  BY <1>2, <1>3, <1>5, <1>6, <1>8, <1>9

LEMMA SetAsideKeeps ==
  ASSUME WriterInvariant, NEW w \in Writer, SetAside(w), disk.out # Absent
  PROVE  Kept'
<1>1. /\ Touched(w) /\ at[w] = "set aside" /\ at'[w] = "publish"
      /\ disk'.out = Absent /\ disk'.backup[w] = disk.out /\ disk.out.state = "synced"
      /\ disk.backup[w] = Absent /\ before # Foreign
  BY SetAsideTouches
<1>2. ~Drops(w)'
  BY <1>1 DEF Drops
<1>3. KeepsOne'
  BY <1>1, <1>2 DEF KeepsOne
<1>4. ASSUME KeepsNew
      PROVE  KeepsNew'
  <2>1. CASE New(disk.out)
    BY <1>1, <1>2, <2>1 DEF KeepsNew
  <2>2. CASE \E u \in Writer : ~Drops(u) /\ New(disk.backup[u])
    <3>1. PICK u \in Writer : ~Drops(u) /\ New(disk.backup[u])
      BY <2>2
    <3>2. u # w
      BY <1>1, <3>1, SpecialCopies DEF New
    <3> QED
      BY <1>1, <3>1, <3>2, OthersStay DEF KeepsNew
  <2> QED
    BY <1>4, <2>1, <2>2 DEF KeepsNew
<1>5. ~Passed(w)' /\ ~Secured(w)'
  BY <1>1 DEF Passed, Secured
<1> QED
  BY <1>1, <1>3, <1>4, <1>5, KeptByParts, SpecialCopies

LEMMA PublishTouchesIt ==
  ASSUME WriterInvariant, NEW w \in Writer, Publish(w), disk.out = Absent
  PROVE  /\ Touched(w) /\ at[w] = "publish" /\ at'[w] = "sync swap"
         /\ disk'.out = Copy(w, "synced") /\ disk'.backup = disk.backup
         /\ before # Foreign /\ OwnsItsCopies(w)'
<1>1. /\ At(w, "publish", "sync swap") /\ UNCHANGED <<before, replace, seen, backed, fine>>
      /\ Change([disk EXCEPT !.out = disk.staging[w], !.staging[w] = Absent])
  BY DEF Publish, Constant
<1>2. /\ at[w] = "publish" /\ at' \in [Writer -> WriterPlaces] /\ at'[w] = "sync swap"
      /\ \A u \in Writer \ {w} : at'[u] = at[u]
  BY <1>1 DEF At, WriterInvariant, WriterTypeOK, WriterPlaces
<1>3. before # Foreign /\ disk.staging[w] = Copy(w, "synced")
  BY <1>2 DEF OwnsItsCopies, WriterInvariant, Owned
<1>4. /\ disk' \in Disks /\ disk' \in possible' /\ possible' \subseteq possible \cup {disk'}
      /\ disk'.out = Copy(w, "synced") /\ disk'.backup = disk.backup
      /\ \A u \in Writer \ {w} : disk'.staging[u] = disk.staging[u]
  BY <1>1, <1>3, PublishTouches, OwnCopies DEF WriterInvariant
<1>5. Touched(w)
  BY <1>1, <1>2, <1>4 DEF Touched, Others, WriterInvariant, WriterTypeOK
<1>6. OwnsItsCopies(w)'
  BY <1>1, <1>2, <1>3 DEF OwnsItsCopies
<1> QED
  BY <1>2, <1>3, <1>4, <1>5, <1>6

LEMMA PublishKeeps ==
  ASSUME WriterInvariant, NEW w \in Writer, Publish(w), disk.out = Absent
  PROVE  Kept'
<1>1. /\ Touched(w) /\ at[w] = "publish" /\ at'[w] = "sync swap"
      /\ disk'.out = Copy(w, "synced") /\ before # Foreign
  BY PublishTouchesIt
<1>2. New(disk'.out) /\ disk'.out # Foreign
  BY <1>1, OwnCopies
<1>3. KeepsOne' /\ KeepsNew'
  BY <1>2 DEF KeepsOne, KeepsNew, New
<1>4. ~Secured(w)'
  BY <1>1 DEF Secured
<1> QED
  BY <1>1, <1>2, <1>3, <1>4, KeptByParts

LEMMA RestoreTouches ==
  ASSUME WriterInvariant, NEW w \in Writer, Restore(w), disk.out = Absent
  PROVE  /\ Touched(w) /\ at[w] = "restore" /\ at'[w] = "clean" /\ ~fine'[w] /\ ~backed'[w]
         /\ disk'.out = disk.backup[w] /\ disk'.backup[w] = Absent
         /\ disk.backup[w].state = "synced" /\ before # Foreign /\ OwnsItsCopies(w)'
<1>1. /\ At(w, "restore", "clean") /\ UNCHANGED <<before, replace, seen, fine>>
      /\ Change([disk EXCEPT !.out = disk.backup[w], !.backup[w] = Absent])
      /\ backed' = Set(backed, w, FALSE)
  BY DEF Restore, Constant
<1>2. /\ at[w] = "restore" /\ at' \in [Writer -> WriterPlaces] /\ at'[w] = "clean"
      /\ \A u \in Writer \ {w} : at'[u] = at[u]
  BY <1>1 DEF At, WriterInvariant, WriterTypeOK, WriterPlaces
<1>3. before # Foreign /\ disk.backup[w].state = "synced" /\ ~fine[w]
  BY <1>2 DEF OwnsItsCopies, WriterInvariant, Owned
<1>4. disk.backup[w] \in Backups
  BY DiskFields DEF WriterInvariant, WriterTypeOK
<1>5. disk.backup[w] \in Outputs /\ Absent \in Backups
  BY <1>3, <1>4, BackupKinds DEF Backups
<1>6. /\ disk' \in Disks /\ disk' \in possible' /\ possible' \subseteq possible \cup {disk'}
      /\ disk'.out = disk.backup[w] /\ disk'.staging = disk.staging
      /\ \A u \in Writer \ {w} : disk'.backup[u] = disk.backup[u]
      /\ disk'.backup[w] = Absent
  BY <1>1, <1>5, SwapTouches DEF WriterInvariant
<1>7. /\ backed' \in [Writer -> BOOLEAN] /\ backed'[w] = FALSE
      /\ \A u \in Writer \ {w} : backed'[u] = backed[u]
  BY <1>1 DEF Set, WriterInvariant, WriterTypeOK
<1>8. Touched(w)
  BY <1>1, <1>2, <1>6, <1>7 DEF Touched, Others, WriterInvariant, WriterTypeOK
<1>9. OwnsItsCopies(w)'
  BY <1>1, <1>2, <1>3 DEF OwnsItsCopies
<1> QED
  BY <1>1, <1>2, <1>3, <1>6, <1>7, <1>8, <1>9

LEMMA RestoreKeeps ==
  ASSUME WriterInvariant, NEW w \in Writer, Restore(w), disk.out = Absent
  PROVE  Kept'
<1>1. /\ Touched(w) /\ at[w] = "restore" /\ at'[w] = "clean" /\ ~fine'[w]
      /\ disk'.out = disk.backup[w] /\ disk.backup[w].state = "synced" /\ before # Foreign
  BY RestoreTouches
<1>2. KeepsOne' /\ disk'.out # Foreign
  BY <1>1, SpecialCopies DEF KeepsOne
<1>3. ASSUME KeepsNew
      PROVE  KeepsNew'
  <2>1. PICK u \in Writer : ~Drops(u) /\ New(disk.backup[u])
    BY <1>3, SpecialCopies DEF KeepsNew, New
  <2>2. CASE u = w
    BY <1>1, <2>1, <2>2 DEF KeepsNew
  <2>3. CASE u # w
    BY <1>1, <2>1, <2>3, OthersStay DEF KeepsNew
  <2> QED
    BY <2>2, <2>3
<1>4. ~Passed(w)' /\ ~Secured(w)'
  BY <1>1 DEF Passed, Secured
<1> QED
  BY <1>1, <1>2, <1>3, <1>4, KeptByParts

LEMMA SyncSwapTouches ==
  ASSUME WriterInvariant, NEW w \in Writer, SyncSwap(w)
  PROVE  /\ Touched(w) /\ disk' = disk /\ possible' = {disk'} /\ fine'[w] = fine[w]
         /\ at[w] = "sync swap" /\ at'[w] = IF backed[w] THEN "drop" ELSE "clean"
         /\ OwnsItsCopies(w)'
<1>1. /\ at[w] = "sync swap" /\ at' \in [Writer -> WriterPlaces]
      /\ at'[w] = IF backed[w] THEN "drop" ELSE "clean"
      /\ \A u \in Writer \ {w} : at'[u] = at[u]
  BY DEF SyncSwap, At, WriterInvariant, WriterTypeOK, WriterPlaces
<1>2. disk' \in Disks /\ possible' = {disk'} /\ disk' = disk
  BY DEF SyncSwap, SyncParent, WriterInvariant, WriterTypeOK
<1>3. Touched(w)
  BY <1>1, <1>2 DEF Touched, Others, SyncSwap, Constant, WriterInvariant, WriterTypeOK
<1>4. OwnsItsCopies(w)'
  BY <1>1, <1>2 DEF OwnsItsCopies, SyncSwap, Constant, WriterInvariant, Owned
<1> QED
  BY <1>1, <1>2, <1>3, <1>4 DEF SyncSwap

LEMMA SyncSwapKeeps ==
  ASSUME WriterInvariant, NEW w \in Writer, SyncSwap(w)
  PROVE  Kept'
<1>1. /\ Touched(w) /\ disk' = disk /\ possible' = {disk'} /\ fine'[w] = fine[w]
      /\ at[w] = "sync swap" /\ at'[w] = IF backed[w] THEN "drop" ELSE "clean"
  BY SyncSwapTouches
<1>2. \A u \in Writer : Drops(u)' => Drops(u)
  BY <1>1, OthersStay DEF Drops
<1>3. (KeepsOne => KeepsOne') /\ (KeepsNew => KeepsNew')
  BY <1>1, <1>2 DEF KeepsOne, KeepsNew
<1>4. Passed(w)' => Passed(w)
  BY <1>1 DEF Passed
<1>5. disk \in possible
  BY DEF WriterInvariant, WriterTypeOK
<1> QED
  BY <1>1, <1>3, <1>4, <1>5, KeptByParts DEF WriterInvariant, Kept

(* Both ways of giving a backup up, file by file.                          *)
Shrinks(w) ==
  /\ Drops(w) /\ Change([disk EXCEPT !.backup[w] = Shrink(disk.backup[w])])
  /\ UNCHANGED <<before, replace, seen, fine>>
  /\ backed' = Set(backed, w, Shrink(disk.backup[w]) # Absent)
  /\ at' \in [Writer -> WriterPlaces] /\ \A u \in Writer \ {w} : at'[u] = at[u]
  /\ at[w] \in {"drop", "clean"}
  /\ at[w] = "drop" => at'[w] \in {"drop", "sync drop"}
  /\ at[w] = "clean" => at'[w] = "clean"

LEMMA DropShrinks ==
  ASSUME WriterInvariant, NEW w \in Writer, DropBackup(w)
  PROVE  Shrinks(w)
<1>1. /\ At(w, "drop", IF Shrink(disk.backup[w]) = Absent THEN "sync drop" ELSE "drop")
      /\ Change([disk EXCEPT !.backup[w] = Shrink(disk.backup[w])])
      /\ backed' = Set(backed, w, Shrink(disk.backup[w]) # Absent)
      /\ UNCHANGED <<before, replace, seen, fine>>
  BY DEF DropBackup, Constant
<1>2. /\ at[w] = "drop" /\ at' \in [Writer -> WriterPlaces]
      /\ at'[w] \in {"drop", "sync drop"} /\ \A u \in Writer \ {w} : at'[u] = at[u]
  BY <1>1 DEF At, WriterInvariant, WriterTypeOK, WriterPlaces
<1> QED
  BY <1>1, <1>2 DEF Shrinks, Drops

LEMMA CleanShrinks ==
  ASSUME WriterInvariant, NEW w \in Writer, Clean(w), disk.staging[w] = Absent, backed[w]
  PROVE  Shrinks(w)
<1>1. /\ at[w] = "clean" /\ UNCHANGED <<at, before, replace, seen, fine>>
      /\ Change([disk EXCEPT !.backup[w] = Shrink(@)])
      /\ backed' = Set(backed, w, Shrink(disk.backup[w]) # Absent)
  BY DEF Clean, Constant
<1>2. Change([disk EXCEPT !.backup[w] = Shrink(disk.backup[w])])
  BY <1>1 DEF WriterInvariant, WriterTypeOK, Disks
<1> QED
  BY <1>1, <1>2 DEF Shrinks, Drops, WriterInvariant, WriterTypeOK

LEMMA ShrinkTouches ==
  ASSUME WriterInvariant, NEW w \in Writer, Shrinks(w)
  PROVE  /\ Touched(w) /\ disk'.out = disk.out /\ disk'.backup[w].state # "synced"
         /\ fine'[w] = fine[w] /\ OwnsItsCopies(w)'
<1>1. disk.backup[w] \in Backups
  BY DiskFields DEF WriterInvariant, WriterTypeOK
<1>2. Shrink(disk.backup[w]) \in Backups /\ Shrink(disk.backup[w]).state # "synced"
  BY <1>1, BackupKinds
<1>3. /\ disk' \in Disks /\ disk' \in possible' /\ possible' \subseteq possible \cup {disk'}
      /\ disk'.out = disk.out /\ disk'.staging = disk.staging
      /\ \A u \in Writer \ {w} : disk'.backup[u] = disk.backup[u]
      /\ disk'.backup[w] = Shrink(disk.backup[w])
  BY <1>2, BackupTouches DEF WriterInvariant, Shrinks
<1>4. /\ backed' \in [Writer -> BOOLEAN]
      /\ \A u \in Writer \ {w} : backed'[u] = backed[u]
  <2> DEFINE left == Shrink(disk.backup[w]) # Absent
  <2>1. left \in BOOLEAN /\ backed \in [Writer -> BOOLEAN] /\ backed' = Set(backed, w, left)
    BY DEF WriterInvariant, WriterTypeOK, Shrinks
  <2> HIDE DEF left
  <2> QED
    BY <2>1, SetTouches
<1>5. Touched(w)
  BY <1>3, <1>4 DEF Touched, Others, Shrinks, WriterInvariant, WriterTypeOK
<1>6. at'[w] \in {"drop", "sync drop", "clean"} /\ before # Foreign
  BY DEF Shrinks, OwnsItsCopies, WriterInvariant, Owned
<1>7. OwnsItsCopies(w)'
  BY <1>6 DEF OwnsItsCopies, Shrinks
<1> QED
  BY <1>2, <1>3, <1>5, <1>7 DEF Shrinks

LEMMA ShrinkKeeps ==
  ASSUME WriterInvariant, NEW w \in Writer, Shrinks(w)
  PROVE  Kept'
<1>1. Touched(w) /\ disk'.out = disk.out /\ fine'[w] = fine[w] /\ Drops(w)
  BY ShrinkTouches DEF Shrinks
<1>2. \A u \in Writer : ~Drops(u) => ~Drops(u)' /\ disk'.backup[u] = disk.backup[u]
  BY <1>1, OthersStay
<1>3. (KeepsOne => KeepsOne') /\ (KeepsNew => KeepsNew')
  BY <1>1, <1>2 DEF KeepsOne, KeepsNew
<1>4. (Passed(w)' => Passed(w)) /\ (Secured(w)' => Secured(w))
  BY <1>1 DEF Passed, Secured, Shrinks
<1>5. disk \in possible
  BY DEF WriterInvariant, WriterTypeOK
<1> QED
  BY <1>1, <1>3, <1>4, <1>5, KeptByParts DEF WriterInvariant, Kept

-----------------------------------------------------------------------------
(* Every step keeps the invariant.                                         *)

LEMMA OthersOwn ==
  ASSUME WriterInvariant, NEW w \in Writer, Touched(w), NEW u \in Writer \ {w}
  PROVE  OwnsItsCopies(u)'
<1>1. /\ OwnsItsCopies(u) /\ disk \in possible
      /\ disk'.backup[u] = disk.backup[u] /\ disk'.staging[u] = disk.staging[u]
      /\ at'[u] = at[u] /\ seen'[u] = seen[u] /\ backed'[u] = backed[u] /\ fine'[u] = fine[u]
      /\ before' = before /\ possible' \subseteq possible \cup {disk'}
  BY DEF WriterInvariant, WriterTypeOK, Owned, Touched, Others
<1> QED
  BY <1>1 DEF OwnsItsCopies

LEMMA TouchKeeps ==
  ASSUME WriterInvariant, NEW w \in Writer, Touched(w), OwnsItsCopies(w)', Kept'
  PROVE  WriterInvariant'
<1>1. WriterTypeOK'
  BY DEF WriterInvariant, WriterTypeOK, Touched
<1>2. Owned'
  BY OthersOwn DEF Owned
<1> QED
  BY <1>1, <1>2 DEF WriterInvariant

LEMMA StepKinds ==
  ASSUME WriterInvariant, NEW w \in Writer, WriterStep(w)
  PROVE  \/ Quietly(w) \/ SyncSwap(w) \/ Shrinks(w)
         \/ disk.out # Absent /\ SetAside(w)
         \/ disk.out = Absent /\ (Publish(w) \/ Restore(w))
<1>1. CASE Begin(w)
  BY <1>1, BeginsQuietly
<1>2. ASSUME NEW paths, Write(w, paths)
      PROVE  \/ Quietly(w) \/ SyncSwap(w) \/ Shrinks(w)
             \/ disk.out # Absent /\ SetAside(w)
             \/ disk.out = Absent /\ (Publish(w) \/ Restore(w))
  <2>1. CASE InspectExistingOutput(w)
    BY <2>1, InspectsQuietly
  <2>2. CASE AssertReplaceableAssembly(w)
    BY <2>2, RecognizesQuietly
  <2>3. CASE MakeStaging(w)
    BY <2>3, StagesQuietly
  <2>4. CASE WriteStaging(w, paths)
    BY <2>4, WritesQuietly
  <2>5. CASE SyncStaging(w)
    BY <2>5, SyncsQuietly
  <2>6. CASE SetAside(w)
    BY <2>6, MissesQuietly
  <2>7. CASE Publish(w)
    BY <2>7, LosesQuietly
  <2>8. CASE Restore(w)
    BY <2>8, LeavesItQuietly
  <2>9. CASE DropBackup(w)
    BY <2>9, DropShrinks
  <2>10. CASE SyncDrop(w)
    BY <2>10, SyncsTheDropQuietly
  <2>11. CASE Clean(w)
    BY <2>11, ClearsQuietly, EndsQuietly, CleanShrinks
  <2>12. CASE Failure(w)
    BY <2>12, FailsQuietly
  <2>13. CASE Die(w)
    BY <2>13, DiesQuietly
  <2> QED
    BY <1>2, <2>1, <2>2, <2>3, <2>4, <2>5, <2>6, <2>7, <2>8, <2>9, <2>10, <2>11, <2>12, <2>13
    DEF Write
<1> QED
  BY <1>1, <1>2 DEF WriterStep

LEMMA StepKeeps ==
  ASSUME WriterInvariant, NEW w \in Writer, WriterStep(w)
  PROVE  WriterInvariant'
<1>1. CASE Quietly(w)
  BY <1>1, QuietKeeps, TouchKeeps DEF Quietly
<1>2. CASE SyncSwap(w)
  BY <1>2, SyncSwapTouches, SyncSwapKeeps, TouchKeeps
<1>3. CASE Shrinks(w)
  BY <1>3, ShrinkTouches, ShrinkKeeps, TouchKeeps
<1>4. CASE disk.out # Absent /\ SetAside(w)
  BY <1>4, SetAsideTouches, SetAsideKeeps, TouchKeeps
<1>5. CASE disk.out = Absent /\ Publish(w)
  BY <1>5, PublishTouchesIt, PublishKeeps, TouchKeeps
<1>6. CASE disk.out = Absent /\ Restore(w)
  BY <1>6, RestoreTouches, RestoreKeeps, TouchKeeps
<1> QED
  BY <1>1, <1>2, <1>3, <1>4, <1>5, <1>6, StepKinds

(* With the power go the writers that run, and what a journal had not      *)
(* committed.                                                              *)
LEMMA LossLeaves ==
  ASSUME WriterInvariant, PowerFails
  PROVE  /\ UNCHANGED <<before, replace, seen, backed, fine>> /\ possible' = {disk'}
         /\ disk' \in Disks
         /\ \E d \in possible : disk'.out = d.out /\ disk'.backup = d.backup
         /\ at' \in [Writer -> WriterPlaces]
         /\ \A w \in Writer :
              at'[w] = IF at[w] \in Ended \cup {"idle"} THEN at[w] ELSE "dead"
<1>1. PICK d \in possible : disk' = Settled(d) /\ possible' = {Settled(d)}
  BY DEF PowerFails
<1>2. d \in Disks
  BY DEF WriterInvariant, WriterTypeOK
<1>3. disk' \in Disks /\ disk'.out = d.out /\ disk'.backup = d.backup
  BY <1>1, <1>2, SettledDisk
<1>4. at' = [w \in Writer |-> IF Running(w) THEN "dead" ELSE at[w]]
  BY DEF PowerFails
<1>5. at' \in [Writer -> WriterPlaces]
  BY <1>4 DEF WriterInvariant, WriterTypeOK, WriterPlaces, Ended
<1> QED
  BY <1>1, <1>3, <1>4, <1>5 DEF PowerFails, Running

LEMMA LossKeeps ==
  ASSUME WriterInvariant, PowerFails
  PROVE  WriterInvariant'
<1>1. /\ UNCHANGED <<before, replace, seen, backed, fine>> /\ possible' = {disk'}
      /\ disk' \in Disks /\ at' \in [Writer -> WriterPlaces]
      /\ \A w \in Writer :
           at'[w] = IF at[w] \in Ended \cup {"idle"} THEN at[w] ELSE "dead"
  BY LossLeaves
<1>2. PICK d \in possible : disk'.out = d.out /\ disk'.backup = d.backup
  BY LossLeaves
<1>3. WriterTypeOK'
  BY <1>1 DEF WriterInvariant, WriterTypeOK
<1>4. Owned'
  <2> SUFFICES ASSUME NEW w \in Writer PROVE OwnsItsCopies(w)'
    BY DEF Owned
  <2>1. at'[w] \in Ended \cup {"idle"} /\ (at'[w] # "dead" => at'[w] = at[w])
    BY <1>1 DEF Ended
  <2>2. OwnsItsCopies(w)
    BY DEF WriterInvariant, Owned
  <2> QED
    BY <1>1, <1>2, <2>1, <2>2 DEF OwnsItsCopies, Ended
<1>5. \A w \in Writer : ~Drops(w)' /\ (Passed(w)' => Secured(w))
  BY <1>1 DEF Drops, Passed, Secured, Ended
<1>6. /\ d.out = Foreign <=> before = Foreign
      /\ before = Old => Holds(d)
      /\ \A w \in Writer : Secured(w) => HoldsNew(d)
  BY DEF WriterInvariant, Kept
<1>7. (Holds(d) => Holds(disk') /\ KeepsOne') /\ (HoldsNew(d) => HoldsNew(disk') /\ KeepsNew')
  BY <1>2, <1>5 DEF Holds, KeepsOne, HoldsNew, KeepsNew
<1>8. ASSUME NEW w \in Writer, Secured(w)'
      PROVE  Passed(w)'
  BY <1>8 DEF Secured, Passed
<1>9. Kept'
  BY <1>1, <1>2, <1>5, <1>6, <1>7, <1>8 DEF Kept
<1> QED
  BY <1>3, <1>4, <1>9 DEF WriterInvariant

LEMMA InitialWriters == WriterInit => WriterInvariant
<1> SUFFICES ASSUME WriterInit PROVE WriterInvariant
  OBVIOUS
<1>1. /\ disk.out = before /\ disk.staging = [w \in Writer |-> Absent]
      /\ disk.backup = [w \in Writer |-> Absent]
      /\ disk = [out |-> before, staging |-> [w \in Writer |-> Absent],
                 backup |-> [w \in Writer |-> Absent]]
  BY DEF WriterInit
<1>2. before \in Outputs
  BY DEF WriterInit, Outputs, Makers, Old, Copy
<1>3. disk \in Disks /\ possible = {disk}
  BY <1>1, <1>2 DEF WriterInit, Disks, Stagings, Backups
<1>4. WriterTypeOK
  BY <1>3 DEF WriterInit, WriterTypeOK, WriterPlaces
<1>5. Owned
  BY <1>1, <1>3 DEF WriterInit, Owned, OwnsItsCopies
<1>6. \A w \in Writer : ~Passed(w) /\ ~Secured(w)
  BY DEF WriterInit, Passed, Secured
<1>7. Kept
  BY <1>1, <1>3, <1>6, SpecialCopies DEF Kept, Holds, KeepsOne
<1> QED
  BY <1>4, <1>5, <1>7 DEF WriterInvariant

(* The inductive invariant: what a writer owns at each of its steps, and   *)
(* that a whole assembly, or a new one, is always somewhere nobody removes *)
(* it from, in all that a power loss may bring back.                       *)
THEOREM WriterInvariance == WriterSpec => []WriterInvariant
<1>1. WriterInit => WriterInvariant
  BY InitialWriters
<1>2. WriterInvariant /\ [WriterNext]_writerVars => WriterInvariant'
  <2> SUFFICES ASSUME WriterInvariant, [WriterNext]_writerVars PROVE WriterInvariant'
    OBVIOUS
  <2>1. CASE PowerFails
    BY <2>1, LossKeeps
  <2>2. CASE \E w \in Writer : WriterStep(w)
    BY <2>2, StepKeeps
  <2>3. CASE UNCHANGED writerVars
    BY <2>3 DEF writerVars, WriterInvariant, WriterTypeOK, Owned, OwnsItsCopies, Kept, KeepsOne,
       KeepsNew, Drops, Passed, Secured
  <2> QED
    BY <2>1, <2>2, <2>3 DEF WriterNext
<1> QED
  BY <1>1, <1>2, PTL DEF WriterSpec

-----------------------------------------------------------------------------
(* The synth command: what its users do to the output are steps of the     *)
(* writers, whatever they read and whoever edits it meanwhile.             *)

SynthNext == CommandNext \/ \E url, contents : Edit(url, contents)
SynthSpec ==
  WriterInit /\ CommandInit /\ users \subseteq Writer /\ [][SynthNext]_synthVars

LEMMA CommandStepWrites ==
  ASSUME users \subseteq Writer, [SynthNext]_synthVars
  PROVE  [WriterNext]_writerVars /\ (users \subseteq Writer)'
<1>1. CASE \E w \in users : Load(w) \/ Collect(w) \/ Synthesize(w)
  BY <1>1 DEF Load, Collect, Synthesize, Moves, writerVars
<1>2. CASE \E w \in users : Plan(w) \/ Customize(w) \/ Boot(w)
  BY <1>2 DEF Plan, Customize, Boot, commandVars, writerVars
<1>3. ASSUME NEW w \in users, WriteAssembly(w)
      PROVE  [WriterNext]_writerVars /\ (users \subseteq Writer)'
  <2>1. WriterStep(w) /\ users' = users
    BY <1>3 DEF WriteAssembly, WriterStep
  <2> QED
    BY <2>1 DEF WriterNext
<1>4. CASE LosePower
  BY <1>4 DEF LosePower, commandVars, WriterNext
<1>5. CASE \E url, contents : Edit(url, contents)
  BY <1>5 DEF Edit, commandVars, writerVars
<1>6. CASE UNCHANGED synthVars
  BY <1>6 DEF synthVars, commandVars, writerVars
<1> QED
  BY <1>1, <1>2, <1>3, <1>4, <1>5, <1>6 DEF SynthNext, CommandNext

(* The synth command implements the writers of one output.                 *)
THEOREM SynthIsWriters == SynthSpec => WriterSpec
<1>1. users \subseteq Writer /\ [SynthNext]_synthVars =>
        [WriterNext]_writerVars /\ (users \subseteq Writer)'
  BY CommandStepWrites
<1> DEFINE Users == users \subseteq Writer
<1>2. Users /\ [SynthNext]_synthVars => [WriterNext]_writerVars /\ Users'
  BY <1>1
<1>3. SynthSpec => WriterInit /\ Users /\ [][SynthNext]_synthVars
  BY DEF SynthSpec
<1> HIDE DEF Users
<1> QED
  BY <1>2, <1>3, PTL DEF WriterSpec

-----------------------------------------------------------------------------
(* Two writers.                                                            *)

LEMMA StaysByParts ==
  ASSUME WriterInvariant, StaysNew, NEW w \in Writer, Touched(w),
         \A u \in Writer : Passed(u)' => disk'.out # Old,
         Secured(w)' => Secured(w) \/ possible' = {disk'},
         \A u \in Writer : \A v \in Writer \ {u} :
           Passed(u)' /\ disk'.out = Absent /\ at'[v] \in {"publish", "restore"} =>
             disk'.backup[v].of # "before"
  PROVE  StaysNew'
<1>1. ASSUME NEW u \in Writer, Secured(u)', NEW d \in possible'
      PROVE  d.out # Old
  <2>1. Passed(u)'
    BY <1>1 DEF Passed, Secured
  <2>2. disk'.out # Old
    BY <2>1
  <2>3. Secured(u) \/ possible' = {disk'}
    BY <1>1, OthersStay
  <2>4. possible' \subseteq possible \cup {disk'}
    BY DEF Touched
  <2> QED
    BY <1>1, <2>2, <2>3, <2>4 DEF StaysNew
<1> QED
  BY <1>1 DEF StaysNew

LEMMA StepStays ==
  ASSUME AtMostTwo, WriterInvariant, StaysNew, NEW w \in Writer, WriterStep(w)
  PROVE  StaysNew'
<1>1. CASE Quietly(w)
  BY <1>1, QuietStays DEF Quietly
<1>2. CASE SyncSwap(w)
  <2>1. /\ Touched(w) /\ disk' = disk /\ possible' = {disk'} /\ fine'[w] = fine[w]
        /\ at[w] = "sync swap" /\ at'[w] = IF backed[w] THEN "drop" ELSE "clean"
    BY <1>2, SyncSwapTouches
  <2>2. \A u \in Writer :
          /\ Passed(u)' => Passed(u)
          /\ at'[u] \in {"publish", "restore"} => at[u] \in {"publish", "restore"}
    BY <2>1, OthersStay DEF Passed
  <2> QED
    BY <2>1, <2>2, StaysByParts DEF StaysNew
<1>3. CASE Shrinks(w)
  <2>1. Touched(w) /\ disk'.out = disk.out /\ fine'[w] = fine[w]
    BY <1>3, ShrinkTouches
  <2>2. at'[w] \notin {"publish", "restore"} /\ (Passed(w)' => Passed(w))
        /\ (Secured(w)' => Secured(w))
    BY <1>3, <2>1 DEF Shrinks, Passed, Secured
  <2>3. \A u \in Writer : Passed(u)' => Passed(u)
    BY <2>1, <2>2, OthersStay
  <2>4. \A u \in Writer : at'[u] \in {"publish", "restore"} =>
          at[u] \in {"publish", "restore"} /\ disk'.backup[u] = disk.backup[u]
    BY <2>1, <2>2, OthersStay
  <2> QED
    BY <2>1, <2>2, <2>3, <2>4, StaysByParts DEF StaysNew
<1>4. CASE disk.out # Absent /\ SetAside(w)
  <2>1. /\ Touched(w) /\ at[w] = "set aside" /\ at'[w] = "publish"
        /\ disk'.out = Absent /\ disk'.backup[w] = disk.out /\ disk.out.state = "synced"
    BY <1>4, SetAsideTouches
  <2>2. ~Passed(w)' /\ ~Secured(w)'
    BY <2>1 DEF Passed, Secured
  <2>3. \A u \in Writer : Passed(u)' => u # w /\ Passed(u)
    BY <2>1, <2>2, OthersStay
  <2>4. ASSUME NEW u \in Writer, NEW v \in Writer \ {u}, Passed(u)'
        PROVE  disk'.backup[v].of # "before"
    <3>1. u # w /\ Passed(u)
      BY <2>3, <2>4
    <3>2. v = w
      BY <3>1 DEF AtMostTwo
    <3>3. disk.out # Old
      BY <3>1 DEF StaysNew
    <3>4. disk.out \in Outputs
      BY DiskFields DEF WriterInvariant, WriterTypeOK
    <3> QED
      BY <2>1, <3>2, <3>3, <3>4, OutputKinds
  <2> QED
    BY <2>1, <2>2, <2>4, StaysByParts, SpecialCopies
<1>5. CASE disk.out = Absent /\ Publish(w)
  <2>1. /\ Touched(w) /\ at'[w] = "sync swap" /\ disk'.out = Copy(w, "synced")
    BY <1>5, PublishTouchesIt
  <2>2. New(disk'.out)
    BY <2>1, OwnCopies
  <2>3. disk'.out # Old /\ disk'.out # Absent
    BY <2>2, SpecialCopies DEF New
  <2>4. ~Secured(w)'
    BY <2>1 DEF Secured
  <2> QED
    BY <2>1, <2>3, <2>4, StaysByParts
<1>6. CASE disk.out = Absent /\ Restore(w)
  <2>1. /\ Touched(w) /\ at[w] = "restore" /\ at'[w] = "clean" /\ ~fine'[w]
        /\ disk'.out = disk.backup[w] /\ disk.backup[w].state = "synced"
    BY <1>6, RestoreTouches
  <2>2. ~Passed(w)' /\ ~Secured(w)'
    BY <2>1 DEF Passed, Secured
  <2>3. \A u \in Writer : Passed(u)' => u # w /\ Passed(u)
    BY <2>1, <2>2, OthersStay
  <2>4. disk'.out # Absent
    BY <2>1, SpecialCopies
  <2>5. ASSUME NEW u \in Writer, Passed(u)'
        PROVE  disk'.out # Old
    BY <1>6, <2>1, <2>3, <2>5, SpecialCopies DEF StaysNew
  <2> QED
    BY <2>1, <2>2, <2>4, <2>5, StaysByParts
<1> QED
  BY <1>1, <1>2, <1>3, <1>4, <1>5, <1>6, StepKinds

LEMMA LossStays ==
  ASSUME WriterInvariant, StaysNew, PowerFails
  PROVE  StaysNew'
<1>1. /\ fine' = fine /\ possible' = {disk'}
      /\ \E d \in possible : disk'.out = d.out
      /\ \A w \in Writer :
           at'[w] = IF at[w] \in Ended \cup {"idle"} THEN at[w] ELSE "dead"
  BY LossLeaves
<1>2. \A w \in Writer : /\ at'[w] \notin {"publish", "restore"}
                        /\ (Passed(w)' => Secured(w)) /\ (Secured(w)' => Secured(w))
  BY <1>1 DEF Passed, Secured, Ended
<1> QED
  BY <1>1, <1>2 DEF StaysNew

(* An assembly is kept whole.  The rest of `AssemblyIsKept`, that a        *)
(* reported replacement is not undone, is about two writers.               *)
AssemblyIsWhole ==
  LET published == \E w \in Writer : at[w] = "written" IN
  \A d \in {Settled(e) : e \in possible \cup {disk}} :
    /\ d.out.state # "partial"
    /\ d.out = Foreign <=> before = Foreign
    /\ before = Old \/ published => Holds(d)

LEMMA KeptIsWhole ==
  ASSUME WriterInvariant
  PROVE  AssemblyIsWhole
<1>1. ASSUME NEW e \in possible
      PROVE  /\ Settled(e).out.state # "partial"
             /\ Settled(e).out = Foreign <=> before = Foreign
             /\ before = Old \/ (\E w \in Writer : at[w] = "written") => Holds(Settled(e))
  <2>1. e \in Disks
    BY DEF WriterInvariant, WriterTypeOK
  <2>2. Settled(e).out = e.out /\ Settled(e).backup = e.backup
    BY <2>1, SettledDisk
  <2>3. e.out.state # "partial"
    BY <2>1, DiskFields, OutputKinds
  <2>4. \A w \in Writer : at[w] = "written" => HoldsNew(e)
    BY DEF WriterInvariant, Kept, Secured
  <2>5. (before = Old => Holds(e)) /\ (e.out = Foreign <=> before = Foreign)
    BY DEF WriterInvariant, Kept
  <2>6. (HoldsNew(e) => Holds(e)) /\ (Holds(e) => Holds(Settled(e)))
    BY <2>2 DEF Holds, HoldsNew, New
  <2> QED
    BY <2>2, <2>3, <2>4, <2>5, <2>6
<1>2. possible \cup {disk} = possible
  BY DEF WriterInvariant, WriterTypeOK
<1> QED
  BY <1>1, <1>2 DEF AssemblyIsWhole

LEMMA KeptIsKept ==
  ASSUME WriterInvariant, StaysNew
  PROVE  AssemblyIsKept
<1>1. ASSUME NEW e \in possible, NEW w \in Writer, at[w] = "written"
      PROVE  Settled(e).out # Old
  <2>1. e \in Disks
    BY DEF WriterInvariant, WriterTypeOK
  <2>2. Settled(e).out = e.out
    BY <2>1, SettledDisk
  <2>3. e.out # Old
    BY <1>1 DEF StaysNew, Secured
  <2> QED
    BY <2>2, <2>3
<1>2. disk \in possible
  BY DEF WriterInvariant, WriterTypeOK
<1>3. AssemblyIsWhole
  BY KeptIsWhole
<1> QED
  BY <1>1, <1>2, <1>3 DEF AssemblyIsKept, AssemblyIsWhole

(* Whatever the number of users who write to one output, and whatever      *)
(* fails: the output is never a part of an assembly, a directory of        *)
(* somebody else is never touched, and an assembly is only given up for    *)
(* another whole one.                                                      *)
THEOREM WholeAssembly == SynthSpec => []AssemblyIsWhole
<1>1. WriterInvariant => AssemblyIsWhole
  BY KeptIsWhole
<1> QED
  BY <1>1, WriterInvariance, SynthIsWriters, PTL

(* And neither a loss of power nor the other one of two users undoes a     *)
(* reported replacement.  With three users it may be undone: the first     *)
(* sets the old assembly aside, the second publishes and reports success,  *)
(* the third sets that one aside, and the first, which failed to publish,   *)
(* puts the old one back.                                                  *)
THEOREM AssemblySafety ==
  ASSUME AtMostTwo
  PROVE  SynthSpec => []AssemblyIsKept
<1> DEFINE Inv == WriterInvariant /\ StaysNew
<1>1. WriterInit => Inv
  <2> SUFFICES ASSUME WriterInit PROVE StaysNew
    BY InitialWriters
  <2>1. \A w \in Writer : ~Passed(w) /\ ~Secured(w)
    BY DEF WriterInit, Passed, Secured
  <2> QED
    BY <2>1 DEF StaysNew
<1>2. Inv /\ [WriterNext]_writerVars => Inv'
  <2> SUFFICES ASSUME WriterInvariant, StaysNew, [WriterNext]_writerVars PROVE Inv'
    OBVIOUS
  <2>1. CASE PowerFails
    BY <2>1, LossKeeps, LossStays
  <2>2. CASE \E w \in Writer : WriterStep(w)
    BY <2>2, StepKeeps, StepStays
  <2>3. CASE UNCHANGED writerVars
    <3>1. WriterInvariant'
      BY <2>3 DEF writerVars, WriterInvariant, WriterTypeOK, Owned, OwnsItsCopies, Kept,
         KeepsOne, KeepsNew, Drops, Passed, Secured
    <3>2. StaysNew'
      BY <2>3 DEF writerVars, StaysNew, Passed, Secured
    <3> QED
      BY <3>1, <3>2
  <2> QED
    BY <2>1, <2>2, <2>3 DEF WriterNext
<1>3. Inv => AssemblyIsKept
  BY KeptIsKept
<1> HIDE DEF Inv
<1>4. WriterSpec => []AssemblyIsKept
  BY <1>1, <1>2, <1>3, PTL DEF WriterSpec
<1> QED
  BY <1>4, SynthIsWriters, PTL

-----------------------------------------------------------------------------
(* The documents of the synth command. A definition may be of any length,  *)
(* so the lemmas on its lists take the least index at which something      *)
(* holds; a set of naturals has a least element because < is well founded. *)
LEMMA Least ==
  ASSUME NEW S \in SUBSET Nat, S # {}
  PROVE  \E m \in S : \A n \in S : m <= n
<1> DEFINE Less == {pair \in Nat \X Nat : pair[1] < pair[2]}
<1>1. IsWellFoundedOn(Less, Nat)
  BY NatLessThanWellFounded DEF OpToRel
<1> HIDE DEF Less
<1>2. PICK m \in S : \A n \in S : <<n, m>> \notin Less
  BY <1>1, WFMin
<1>3. ASSUME NEW n \in S
      PROVE  m <= n
  <2> DEFINE pair == <<n, m>>
  <2>1. pair \in Nat \X Nat /\ pair[1] = n /\ pair[2] = m
    OBVIOUS
  <2>2. pair \notin Less
    BY <1>2
  <2> QED
    BY <2>1, <2>2 DEF Less
<1> QED
  BY <1>3

LEMMA Induction ==
  ASSUME NEW S, 0 \in S, \A n \in Nat : n \in S => n + 1 \in S
  PROVE  \A n \in Nat : n \in S
<1> SUFFICES ASSUME NEW k \in Nat, k \notin S
             PROVE  FALSE
  OBVIOUS
<1> DEFINE Out == {n \in Nat : n \notin S}
<1>1. PICK m \in Out : \A n \in Out : m <= n
  <2>1. Out \in SUBSET Nat /\ Out # {}
    OBVIOUS
  <2> HIDE DEF Out
  <2> QED
    BY <2>1, Least
<1>2. m \in Nat /\ m # 0 /\ m - 1 \in Nat /\ (m - 1) + 1 = m
  OBVIOUS
<1>3. m - 1 \in S
  BY <1>1, <1>2
<1> QED
  BY <1>2, <1>3

(* FlattenSeq appends one sequence after the other, and its elements are   *)
(* those of the sequences.                                                 *)
LEMMA Flattened ==
  ASSUME NEW T, NEW seqs \in Seq(Seq(T)), seqs # <<>>
  PROVE  \E F \in [1..Len(seqs) -> Seq(T)] :
           /\ FlattenSeq(seqs) = F[Len(seqs)]
           /\ F[1] = seqs[1]
           /\ \A i \in 2..Len(seqs) : F[i] = F[i - 1] \o seqs[i]
<1> DEFINE N == Len(seqs)
           Steps(f, n) == \A i \in 1..n : f[i] = IF i = 1 THEN seqs[i] ELSE f[i - 1] \o seqs[i]
           Built == {n \in Nat : n \in 1..N => \E f \in [1..n -> Seq(T)] : Steps(f, n)}
           flatten == CHOOSE f : f = [i \in 1..N |-> IF i = 1 THEN seqs[i]
                                                     ELSE f[i - 1] \o seqs[i]]
<1>1. N \in Nat /\ N >= 1 /\ \A i \in 1..N : seqs[i] \in Seq(T)
  BY EmptySeq, LenProperties
<1>2. \A n \in Nat : n \in Built
  <2>1. 0 \in Built
    OBVIOUS
  <2>2. ASSUME NEW n \in Nat, n \in Built
        PROVE  n + 1 \in Built
    <3> SUFFICES ASSUME n + 1 \in 1..N
                 PROVE  \E f \in [1..(n + 1) -> Seq(T)] : Steps(f, n + 1)
      OBVIOUS
    <3>1. CASE n = 0
      <4> DEFINE f == [i \in 1..(n + 1) |-> seqs[i]]
      <4>1. f \in [1..(n + 1) -> Seq(T)] /\ Steps(f, n + 1)
        BY <3>1, <1>1
      <4> QED
        BY <4>1
    <3>2. CASE n # 0
      <4>1. n \in 1..N /\ n + 1 # 1 /\ (n + 1) - 1 = n
        BY <3>2, <1>1
      <4>2. PICK f \in [1..n -> Seq(T)] : Steps(f, n)
        BY <4>1, <2>2
      <4> DEFINE last == f[n] \o seqs[n + 1]
                 g == [i \in 1..(n + 1) |-> IF i \in 1..n THEN f[i] ELSE last]
      <4>3. last \in Seq(T)
        <5>1. f[n] \in Seq(T) /\ seqs[n + 1] \in Seq(T)
          BY <1>1, <4>1, <4>2
        <5> QED
          BY <5>1, ConcatProperties
      <4> HIDE DEF last
      <4>4. g \in [1..(n + 1) -> Seq(T)]
        BY <4>3
      <4>5. ASSUME NEW i \in 1..(n + 1)
            PROVE  g[i] = IF i = 1 THEN seqs[i] ELSE g[i - 1] \o seqs[i]
        <5>1. CASE i \in 1..n
          <6>1. g[i] = f[i] /\ (i # 1 => g[i - 1] = f[i - 1])
            BY <5>1
          <6> QED
            BY <6>1, <5>1, <4>2
        <5>2. CASE i = n + 1
          <6>1. g[i] = last /\ g[i - 1] = f[n] /\ i # 1
            BY <5>2, <4>1
          <6> QED
            BY <6>1, <5>2 DEF last
        <5> QED
          BY <5>1, <5>2
      <4>6. Steps(g, n + 1)
        BY <4>5
      <4> QED
        BY <4>4, <4>6
    <3> QED
      BY <3>1, <3>2
  <2> HIDE DEF Built
  <2> QED
    BY <2>1, <2>2, Induction
<1>3. PICK F \in [1..N -> Seq(T)] : Steps(F, N)
  <2>1. N \in 1..N
    BY <1>1
  <2>2. N \in Built
    <3> HIDE DEF Built
    <3> QED
      BY <1>1, <1>2
  <2>3. \E f \in [1..N -> Seq(T)] : Steps(f, N)
    <3> HIDE DEF Steps, N
    <3> QED
      BY <2>1, <2>2
  <2> QED
    BY <2>3
<1>4. F = [i \in 1..N |-> IF i = 1 THEN seqs[i] ELSE F[i - 1] \o seqs[i]]
  BY <1>3
<1>5. flatten = [i \in 1..N |-> IF i = 1 THEN seqs[i] ELSE flatten[i - 1] \o seqs[i]]
  BY <1>4
<1> HIDE DEF flatten
<1>11. /\ DOMAIN flatten = 1..N
       /\ \A i \in 1..N : flatten[i] = IF i = 1 THEN seqs[i] ELSE flatten[i - 1] \o seqs[i]
  <2> DEFINE step == [i \in 1..N |-> IF i = 1 THEN seqs[i] ELSE flatten[i - 1] \o seqs[i]]
  <2>2. /\ DOMAIN step = 1..N
        /\ \A i \in 1..N : step[i] = IF i = 1 THEN seqs[i] ELSE flatten[i - 1] \o seqs[i]
    OBVIOUS
  <2> HIDE DEF step
  <2> QED
    BY <1>5, <2>2
<1> HIDE DEF Steps, Built
<1>12. 1 \in 1..N /\ flatten[1] = seqs[1]
  <2>1. 1 \in 1..N
    BY <1>1
  <2> HIDE DEF N
  <2> QED
    BY <2>1, <1>11
<1>13. ASSUME NEW i \in 2..N
       PROVE  flatten[i] = flatten[i - 1] \o seqs[i]
  <2>1. i \in 1..N /\ i # 1
    BY <1>1
  <2> HIDE DEF N
  <2> QED
    BY <2>1, <1>11
<1>6. FlattenSeq(seqs) = flatten[N]
  BY <1>1 DEF FlattenSeq, flatten
<1> DEFINE Typed == {n \in Nat : n \in 1..N => flatten[n] \in Seq(T)}
<1>7. \A n \in Nat : n \in Typed
  <2>1. 0 \in Typed
    OBVIOUS
  <2>2. ASSUME NEW n \in Nat, n \in Typed
        PROVE  n + 1 \in Typed
    <3> SUFFICES ASSUME n + 1 \in 1..N
                 PROVE  flatten[n + 1] \in Seq(T)
      OBVIOUS
    <3>1. CASE n = 0
      BY <3>1, <1>1, <1>12
    <3>2. CASE n # 0
      <4>1. flatten[n + 1] = flatten[n] \o seqs[n + 1]
        <5>1. n + 1 \in 2..N /\ (n + 1) - 1 = n
          BY <3>2, <1>1
        <5> QED
          BY <5>1, <1>13
      <4>2. flatten[n] \in Seq(T) /\ seqs[n + 1] \in Seq(T)
        BY <3>2, <2>2, <1>1
      <4> QED
        BY <4>1, <4>2, ConcatProperties
    <3> QED
      BY <3>1, <3>2
  <2> HIDE DEF Typed
  <2> QED
    BY <2>1, <2>2, Induction
<1>8. flatten \in [1..N -> Seq(T)]
  <2>1. \A i \in 1..N : flatten[i] \in Seq(T)
    BY <1>7
  <2> QED
    BY <2>1, <1>5
<1> QED
  BY <1>6, <1>8, <1>12, <1>13

LEMMA FlattenedRange ==
  ASSUME NEW T, NEW seqs \in Seq(Seq(T))
  PROVE  /\ FlattenSeq(seqs) \in Seq(T)
         /\ Range(FlattenSeq(seqs)) = UNION {Range(seqs[i]) : i \in DOMAIN seqs}
<1>1. Len(seqs) \in Nat /\ DOMAIN seqs = 1..Len(seqs)
  BY LenProperties
<1>2. CASE seqs = <<>>
  <2>1. Len(seqs) = 0
    BY <1>2
  <2>2. FlattenSeq(seqs) = <<>>
    BY <1>2, <2>1 DEF FlattenSeq
  <2> QED
    BY <1>1, <2>1, <2>2 DEF Range
<1>3. CASE seqs # <<>>
  <2>1. PICK F \in [1..Len(seqs) -> Seq(T)] :
          /\ FlattenSeq(seqs) = F[Len(seqs)]
          /\ F[1] = seqs[1]
          /\ \A i \in 2..Len(seqs) : F[i] = F[i - 1] \o seqs[i]
    BY <1>3, Flattened
  <2> DEFINE N == Len(seqs)
             Upto(n) == UNION {Range(seqs[i]) : i \in 1..n}
             Covered == {n \in Nat : n \in 1..N => Range(F[n]) = Upto(n)}
  <2>2. N \in Nat /\ N \in 1..N
    BY <1>1, <1>3, EmptySeq
  <2>3. \A n \in Nat : n \in Covered
    <3>1. 0 \in Covered
      OBVIOUS
    <3>2. ASSUME NEW n \in Nat, n \in Covered
          PROVE  n + 1 \in Covered
      <4> SUFFICES ASSUME n + 1 \in 1..N
                   PROVE  Range(F[n + 1]) = Upto(n + 1)
        OBVIOUS
      <4>1. CASE n = 0
        <5>1. 1..(n + 1) = {1} /\ n + 1 = 1
          BY <4>1
        <5> QED
          BY <5>1, <2>1
      <4>2. CASE n # 0
        <5>1. n \in 1..N /\ n + 1 \in 2..N /\ (n + 1) - 1 = n
          BY <4>2, <2>2
        <5>2. F[n] \in Seq(T) /\ seqs[n + 1] \in Seq(T) /\ F[n + 1] = F[n] \o seqs[n + 1]
          <6>1. n + 1 \in DOMAIN seqs
            BY <1>1
          <6> QED
            BY <5>1, <6>1, <2>1, ElementOfSeq, <1>1
        <5>3. Range(F[n + 1]) = Range(F[n]) \cup Range(seqs[n + 1])
          BY <5>2, RangeConcatenation
        <5>4. Range(F[n]) = Upto(n)
          BY <5>1, <3>2
        <5>5. 1..(n + 1) = 1..n \cup {n + 1}
          BY <5>1
        <5>6. Upto(n + 1) = Upto(n) \cup Range(seqs[n + 1])
          BY <5>5, Zenon
        <5> QED
          BY <5>3, <5>4, <5>6
      <4> QED
        BY <4>1, <4>2
    <3> HIDE DEF Covered
    <3> QED
      BY <3>1, <3>2, Induction
  <2>4. Range(F[N]) = Upto(N)
    BY <2>2, <2>3
  <2> QED
    BY <2>1, <2>2, <2>4, <1>1
<1> QED
  BY <1>2, <1>3

-----------------------------------------------------------------------------
(* The registry of scripts and secrets: it holds the local declarations of *)
(* the uses, each id once; and a list that was made by it, put before uses *)
(* that declare nothing else, is made of them again (definition.ts: the    *)
(* registries of parseDefinition).                                         *)
Kinds == {"script", "secret"}
AnyUse == [kind : Kinds, id : Identifier] \cup [kind : Kinds, id : Identifier, url : Location]
Locals(kind) == {Local(kind, id, url) : id \in Identifier, url \in Location}

LEMMA UseFields ==
  ASSUME NEW use \in AnyUse
  PROVE  /\ use.kind \in Kinds /\ use.id \in Identifier
         /\ Has(use, "url") => use.url \in Location
BY DEF AnyUse, Has

LEMMA LocalFields ==
  ASSUME NEW kind, NEW id, NEW url
  PROVE  /\ Local(kind, id, url).kind = kind /\ Local(kind, id, url).id = id
         /\ Local(kind, id, url).source = [kind |-> "local", url |-> url]
         /\ DOMAIN Local(kind, id, url) = {"kind", "id", "source"}
BY DEF Local

LEMMA RegistryRange ==
  ASSUME NEW kind, NEW uses \in Seq(AnyUse)
  PROVE  /\ Registry(kind, uses) \in Seq(Locals(kind))
         /\ \A use \in Range(uses) :
              Declares(use, kind) => use.id \in Range(Ids(Registry(kind, uses)))
<1> DEFINE new == [n \in DOMAIN uses |->
                     IF IsFirst(uses, kind, n)
                     THEN <<Local(kind, uses[n].id, uses[n].url)>> ELSE <<>>]
<1>1. Len(uses) \in Nat /\ DOMAIN uses = 1..Len(uses) /\ \A n \in 1..Len(uses) : uses[n] \in AnyUse
  BY LenProperties, ElementOfSeq
<1>2. ASSUME NEW n \in DOMAIN uses, IsFirst(uses, kind, n)
      PROVE  Local(kind, uses[n].id, uses[n].url) \in Locals(kind)
  <2>1. uses[n].id \in Identifier /\ uses[n].url \in Location
    BY <1>1, <1>2, UseFields DEF IsFirst, Declares
  <2> QED
    BY <2>1 DEF Locals
<1>3. new \in Seq(Seq(Locals(kind)))
  <2>1. \A n \in 1..Len(uses) : new[n] \in Seq(Locals(kind))
    BY <1>1, <1>2
  <2>2. new \in [1..Len(uses) -> Seq(Locals(kind))]
    BY <1>1, <2>1
  <2> QED
    BY <2>2, <1>1, SeqDef
<1>4. Registry(kind, uses) = FlattenSeq(new)
  BY DEF Registry
<1>5. ASSUME NEW use \in Range(uses), Declares(use, kind)
      PROVE  use.id \in Range(Ids(FlattenSeq(new)))
  <2> DEFINE same == {m \in DOMAIN uses : Declares(uses[m], kind) /\ uses[m].id = use.id}
  <2>1. same # {} /\ same \in SUBSET Nat
    BY <1>1, <1>5 DEF Range
  <2>2. PICK n \in same : \A m \in same : n <= m
    <3> HIDE DEF same
    <3> QED
      BY <2>1, Least
  <2>3. IsFirst(uses, kind, n) /\ n \in DOMAIN uses
    <3>1. ASSUME NEW m \in 1..(n - 1), Declares(uses[m], kind), uses[m].id = uses[n].id
          PROVE  FALSE
      <4>1. m \in same /\ ~(n <= m)
        BY <2>2, <3>1, <1>1
      <4> QED
        BY <4>1, <2>2
    <3> QED
      BY <2>2, <3>1 DEF IsFirst
  <2> DEFINE one == Local(kind, uses[n].id, uses[n].url)
  <2>4. new[n] = <<one>>
    BY <2>3
  <2>5. one \in Range(new[n])
    BY <2>4 DEF Range
  <2>6. one.id = use.id
    <3>1. uses[n].id = use.id
      BY <2>2
    <3>2. one.id = uses[n].id
      BY DEF Local
    <3> QED
      BY <3>1, <3>2
  <2> HIDE DEF one
  <2>7. one \in Range(FlattenSeq(new))
    <3>1. n \in DOMAIN new
      BY <2>3
    <3> HIDE DEF new
    <3> QED
      BY <2>5, <3>1, <1>3, FlattenedRange
  <2> HIDE DEF new
  <2> QED
    BY <2>6, <2>7 DEF Range, Ids
<1> HIDE DEF new
<1> QED
  BY <1>3, <1>4, <1>5, FlattenedRange

LEMMA RegistryIds ==
  ASSUME NEW kind, NEW uses \in Seq(AnyUse)
  PROVE  IsInjective(Ids(Registry(kind, uses)))
<1> DEFINE N == Len(uses)
           new == [n \in DOMAIN uses |->
                     IF IsFirst(uses, kind, n)
                     THEN <<Local(kind, uses[n].id, uses[n].url)>> ELSE <<>>]
<1>1. N \in Nat /\ DOMAIN uses = 1..N /\ \A n \in 1..N : uses[n] \in AnyUse
  BY LenProperties, ElementOfSeq
<1>2. ASSUME NEW n \in DOMAIN uses, IsFirst(uses, kind, n)
      PROVE  Local(kind, uses[n].id, uses[n].url) \in Locals(kind)
  <2>1. uses[n].id \in Identifier /\ uses[n].url \in Location
    BY <1>1, <1>2, UseFields DEF IsFirst, Declares
  <2> QED
    BY <2>1 DEF Locals
<1>3. new \in Seq(Seq(Locals(kind))) /\ Len(new) = N
  <2>1. \A n \in 1..N : new[n] \in Seq(Locals(kind))
    BY <1>1, <1>2
  <2>2. new \in [1..N -> Seq(Locals(kind))]
    BY <1>1, <2>1
  <2> QED
    BY <2>2, <1>1, SeqDef
<1>4. CASE new = <<>>
  <2>1. Registry(kind, uses) = <<>>
    <3>1. FlattenSeq(new) = <<>>
      <4> HIDE DEF new
      <4> QED
        BY <1>4 DEF FlattenSeq
    <3> QED
      BY <3>1 DEF Registry
  <2> QED
    BY <2>1 DEF IsInjective, Ids
<1>5. CASE new # <<>>
  <2>1. PICK F \in [1..N -> Seq(Locals(kind))] :
          /\ FlattenSeq(new) = F[N]
          /\ F[1] = new[1]
          /\ \A i \in 2..N : F[i] = F[i - 1] \o new[i]
    <3>1. new \in Seq(Seq(Locals(kind))) /\ Len(new) = N /\ new # <<>>
      BY <1>3, <1>5
    <3> HIDE DEF new, N
    <3>2. \E F \in [1..Len(new) -> Seq(Locals(kind))] :
            /\ FlattenSeq(new) = F[Len(new)]
            /\ F[1] = new[1]
            /\ \A i \in 2..Len(new) : F[i] = F[i - 1] \o new[i]
      BY <3>1, Flattened
    <3> QED
      BY <3>1, <3>2
  <2> DEFINE Known(f, n) ==
               /\ \A k \in DOMAIN f : \E m \in 1..n :
                    Declares(uses[m], kind) /\ f[k].id = uses[m].id
               /\ \A j, k \in DOMAIN f : f[j].id = f[k].id => j = k
             Good == {n \in Nat : n \in 1..N => Known(F[n], n)}
  <2>2. N \in 1..N
    <3>1. N # 0
      BY <1>3, <1>5, EmptySeq
    <3> QED
      BY <3>1, <1>1
  <2>3. ASSUME NEW n \in 1..N, IsFirst(uses, kind, n)
        PROVE  /\ new[n] = <<Local(kind, uses[n].id, uses[n].url)>>
               /\ new[n][1].id = uses[n].id /\ Len(new[n]) = 1
               /\ Declares(uses[n], kind)
               /\ \A m \in 1..(n - 1) : Declares(uses[m], kind) => uses[m].id # uses[n].id
    <3>1. new[n] = <<Local(kind, uses[n].id, uses[n].url)>>
      BY <1>1, <2>3
    <3>2. Local(kind, uses[n].id, uses[n].url).id = uses[n].id
      BY DEF Local
    <3> HIDE DEF new
    <3> QED
      BY <3>1, <3>2, <2>3 DEF IsFirst
  <2>4. ASSUME NEW n \in 1..N, ~IsFirst(uses, kind, n)
        PROVE  new[n] = <<>>
    BY <1>1, <2>4
  <2> HIDE DEF new
  <2>5. \A n \in Nat : n \in Good
    <3>1. 0 \in Good
      OBVIOUS
    <3>2. ASSUME NEW n \in Nat, n \in Good
          PROVE  n + 1 \in Good
      <4> SUFFICES ASSUME n + 1 \in 1..N
                   PROVE  Known(F[n + 1], n + 1)
        OBVIOUS
      <4>1. CASE n = 0
        <5>1. n + 1 = 1 /\ F[n + 1] = new[n + 1]
          BY <4>1, <2>1
        <5>2. CASE IsFirst(uses, kind, n + 1)
          <6> DEFINE local == Local(kind, uses[n + 1].id, uses[n + 1].url)
          <6>1. F[n + 1] = <<local>>
            BY <5>1, <5>2, <2>3
          <6>2. /\ F[n + 1][1].id = uses[n + 1].id /\ Declares(uses[n + 1], kind)
            BY <5>1, <5>2, <2>3
          <6> HIDE DEF local
          <6>3. DOMAIN F[n + 1] = {1}
            BY <6>1
          <6>4. n + 1 \in 1..(n + 1)
            OBVIOUS
          <6> QED
            BY <6>2, <6>3, <6>4
        <5>3. CASE ~IsFirst(uses, kind, n + 1)
          BY <5>1, <5>3, <2>4
        <5> QED
          BY <5>2, <5>3
      <4>2. CASE n # 0
        <5>1. n \in 1..N /\ n + 1 \in 2..N /\ (n + 1) - 1 = n
          BY <4>2, <1>1
        <5>2. F[n + 1] = F[n] \o new[n + 1] /\ F[n] \in Seq(Locals(kind))
          BY <5>1, <2>1
        <5>3. Known(F[n], n)
          BY <5>1, <3>2
        <5> DEFINE f == F[n]
                   g == F[n + 1]
        <5>4. CASE IsFirst(uses, kind, n + 1)
          <6>1. /\ new[n + 1] \in Seq(Locals(kind)) /\ Len(new[n + 1]) = 1
                /\ new[n + 1][1].id = uses[n + 1].id /\ Declares(uses[n + 1], kind)
                /\ \A m \in 1..n : Declares(uses[m], kind) => uses[m].id # uses[n + 1].id
            BY <5>1, <5>4, <2>3, <1>3, ElementOfSeq
          <6>2. /\ Len(f) \in Nat /\ DOMAIN f = 1..Len(f)
                /\ g \in Seq(Locals(kind)) /\ Len(g) = Len(f) + 1
                /\ DOMAIN g = 1..(Len(f) + 1)
                /\ \A i \in 1..Len(f) : g[i] = f[i]
                /\ g[Len(f) + 1] = new[n + 1][1]
            <7>1. Len(f) \in Nat /\ DOMAIN f = 1..Len(f)
              BY <5>2, LenProperties
            <7> DEFINE h == new[n + 1]
            <7>4. f \in Seq(Locals(kind)) /\ h \in Seq(Locals(kind)) /\ g = f \o h /\ Len(h) = 1
              BY <5>2, <6>1
            <7>2. /\ g \in Seq(Locals(kind)) /\ Len(g) = Len(f) + 1
                  /\ \A i \in 1..(Len(f) + 1) :
                       g[i] = IF i <= Len(f) THEN f[i] ELSE h[i - Len(f)]
              <8> HIDE DEF f, g, h
              <8>1. /\ f \o h \in Seq(Locals(kind)) /\ Len(f \o h) = Len(f) + Len(h)
                    /\ \A i \in 1..(Len(f) + Len(h)) :
                         (f \o h)[i] = IF i <= Len(f) THEN f[i] ELSE h[i - Len(f)]
                BY <7>4, ConcatProperties
              <8> QED
                BY <7>4, <8>1
            <7>3. DOMAIN g = 1..(Len(f) + 1)
              BY <7>2, LenProperties
            <7> HIDE DEF f, g
            <7> QED
              BY <7>1, <7>2, <7>3
          <6>10. Known(f, n)
            BY <5>3
          <6> HIDE DEF f, g
          <6>3. \A k \in 1..Len(f) : \E m \in 1..n :
                  Declares(uses[m], kind) /\ g[k].id = uses[m].id
            BY <6>10, <6>2
          <6>4. g[Len(f) + 1].id = uses[n + 1].id
            BY <6>1, <6>2
          <6>5. \A k \in 1..Len(f) : g[k].id # g[Len(f) + 1].id
            BY <6>1, <6>3, <6>4
          <6>6. \A j, k \in 1..Len(f) : g[j].id = g[k].id => j = k
            BY <6>10, <6>2
          <6>7. \A k \in DOMAIN g : k \in 1..Len(f) \/ k = Len(f) + 1
            BY <6>2
          <6>8. \A j, k \in DOMAIN g : g[j].id = g[k].id => j = k
            BY <6>5, <6>6, <6>7
          <6>9. \A k \in DOMAIN g : \E m \in 1..(n + 1) :
                  Declares(uses[m], kind) /\ g[k].id = uses[m].id
            <7>1. 1..n \subseteq 1..(n + 1) /\ n + 1 \in 1..(n + 1)
              BY <5>1
            <7> QED
              BY <6>1, <6>3, <6>4, <6>7, <7>1
          <6> QED
            BY <6>8, <6>9 DEF g
        <5>5. CASE ~IsFirst(uses, kind, n + 1)
          <6>1. F[n + 1] = F[n]
            BY <5>1, <5>2, <5>5, <2>4, ConcatEmptySeq
          <6>2. 1..n \subseteq 1..(n + 1)
            BY <5>1
          <6> QED
            BY <6>1, <6>2, <5>3
        <5> QED
          BY <5>4, <5>5
      <4> QED
        BY <4>1, <4>2
    <3> HIDE DEF Good
    <3> QED
      BY <3>1, <3>2, Induction
  <2>6. Known(F[N], N)
    BY <2>2, <2>5
  <2>7. Registry(kind, uses) = F[N]
    BY <2>1 DEF Registry, new
  <2> QED
    BY <2>6, <2>7 DEF IsInjective, Ids
<1> QED
  BY <1>4, <1>5

LEMMA RegistryOfList ==
  ASSUME NEW kind \in Kinds, NEW uses \in Seq(AnyUse),
         NEW list \in Seq(Locals(kind)), IsInjective(Ids(list)),
         NEW p \in Nat, p + Len(list) <= Len(uses),
         \A i \in 1..Len(list) :
           uses[p + i] = [kind |-> kind, id |-> list[i].id, url |-> list[i].source.url],
         \A i \in 1..Len(uses) : i \notin (p + 1)..(p + Len(list)) => ~Declares(uses[i], kind)
  PROVE  Registry(kind, uses) = list
<1> DEFINE N == Len(uses)
           L == Len(list)
           new == [n \in DOMAIN uses |->
                     IF IsFirst(uses, kind, n)
                     THEN <<Local(kind, uses[n].id, uses[n].url)>> ELSE <<>>]
<1>1. /\ N \in Nat /\ DOMAIN uses = 1..N /\ \A n \in 1..N : uses[n] \in AnyUse
      /\ L \in Nat /\ DOMAIN list = 1..L /\ \A i \in 1..L : list[i] \in Locals(kind)
  BY LenProperties, ElementOfSeq
<1>2. ASSUME NEW i \in 1..L
      PROVE  /\ p + i \in 1..N /\ Declares(uses[p + i], kind)
             /\ uses[p + i].id = list[i].id /\ uses[p + i].url = list[i].source.url
  <2> DEFINE use == [kind |-> kind, id |-> list[i].id, url |-> list[i].source.url]
  <2>1. use.kind = kind /\ use.id = list[i].id /\ use.url = list[i].source.url /\ "url" \in DOMAIN use
    OBVIOUS
  <2>2. uses[p + i] = use
    OBVIOUS
  <2>3. p + i \in 1..N
    BY <1>1
  <2> HIDE DEF use
  <2> QED
    BY <2>1, <2>2, <2>3 DEF Declares, Has
<1>3. ASSUME NEW i \in 1..L
      PROVE  IsFirst(uses, kind, p + i)
  <2>1. ASSUME NEW m \in 1..(p + i - 1), Declares(uses[m], kind)
        PROVE  uses[m].id # uses[p + i].id
    <3>1. m \in 1..N /\ p + i \in 1..N
      BY <1>1
    <3>2. m \in (p + 1)..(p + L)
      BY <3>1, <2>1
    <3>3. m - p \in 1..L /\ p + (m - p) = m /\ m - p # i
      BY <3>2, <1>1
    <3>4. uses[m].id = list[m - p].id /\ uses[p + i].id = list[i].id
      BY <3>3, <1>2
    <3>5. list[m - p].id # list[i].id
      BY <3>3, <1>1 DEF IsInjective, Ids
    <3> QED
      BY <3>4, <3>5
  <2> QED
    BY <2>1, <1>2 DEF IsFirst
<1>4. ASSUME NEW i \in 1..L
      PROVE  new[p + i] = <<list[i]>>
  <2>1. PICK id \in Identifier, url \in Location : list[i] = Local(kind, id, url)
    BY <1>1 DEF Locals
  <2>2. list[i] = Local(kind, list[i].id, list[i].source.url)
    BY <2>1 DEF Local
  <2>3. p + i \in DOMAIN uses
    BY <1>1, <1>2
  <2>4. new[p + i] = <<Local(kind, uses[p + i].id, uses[p + i].url)>>
    BY <1>3, <2>3
  <2> HIDE DEF new
  <2> QED
    BY <2>2, <2>4, <1>2
<1>5. ASSUME NEW n \in 1..N, n \notin (p + 1)..(p + L)
      PROVE  new[n] = <<>>
  <2>1. ~IsFirst(uses, kind, n)
    BY <1>5 DEF IsFirst
  <2> QED
    BY <2>1, <1>1
<1>6. new \in Seq(Seq(Locals(kind))) /\ Len(new) = N /\ DOMAIN new = 1..N
  <2>1. ASSUME NEW n \in 1..N
        PROVE  new[n] \in Seq(Locals(kind))
    <3>1. CASE n \in (p + 1)..(p + L)
      <4>1. n - p \in 1..L /\ p + (n - p) = n
        BY <3>1, <1>1
      <4>2. new[n] = <<list[n - p]>> /\ list[n - p] \in Locals(kind)
        BY <4>1, <1>4, <1>1
      <4> HIDE DEF new
      <4> QED
        BY <4>2
    <3>2. CASE n \notin (p + 1)..(p + L)
      <4>1. new[n] = <<>>
        BY <3>2, <1>5
      <4> HIDE DEF new
      <4> QED
        BY <4>1
    <3> QED
      BY <3>1, <3>2
  <2>2. new \in [1..N -> Seq(Locals(kind))]
    BY <1>1, <2>1
  <2> QED
    BY <2>2, <1>1, SeqDef
<1>7. Registry(kind, uses) = FlattenSeq(new)
  BY DEF Registry
<1> HIDE DEF new
<1>8. CASE N = 0
  <2>1. new = <<>> /\ L = 0
    BY <1>1, <1>6, <1>8, EmptySeq
  <2>2. list = <<>> /\ FlattenSeq(new) = <<>>
    BY <2>1, EmptySeq DEF FlattenSeq
  <2> QED
    BY <1>7, <2>2
<1>9. CASE N # 0
  <2>1. PICK F \in [1..N -> Seq(Locals(kind))] :
          /\ FlattenSeq(new) = F[N]
          /\ F[1] = new[1]
          /\ \A i \in 2..N : F[i] = F[i - 1] \o new[i]
    <3>1. new \in Seq(Seq(Locals(kind))) /\ Len(new) = N /\ new # <<>>
      BY <1>6, <1>9, EmptySeq
    <3> HIDE DEF new, N
    <3>2. \E F \in [1..Len(new) -> Seq(Locals(kind))] :
            /\ FlattenSeq(new) = F[Len(new)]
            /\ F[1] = new[1]
            /\ \A i \in 2..Len(new) : F[i] = F[i - 1] \o new[i]
      BY <3>1, Flattened
    <3> QED
      BY <3>1, <3>2
  <2> DEFINE Count(n) == IF n <= p THEN 0 ELSE IF n <= p + L THEN n - p ELSE L
             Before(n) == IF n = 0 THEN <<>> ELSE F[n]
             Good == {n \in Nat : n <= N => Before(n) = SubSeq(list, 1, Count(n))}
  <2>2. \A n \in Nat : n \in Good
    <3>1. 0 \in Good
      <4>1. SubSeq(list, 1, 0) = <<>>
        BY SubSeqEmpty
      <4> QED
        BY <4>1
    <3>2. ASSUME NEW n \in Nat, n \in Good
          PROVE  n + 1 \in Good
      <4> SUFFICES ASSUME n + 1 <= N
                   PROVE  F[n + 1] = SubSeq(list, 1, Count(n + 1))
        OBVIOUS
      <4>1. n + 1 \in 1..N /\ n <= N
        BY <1>1
      <4>2. Before(n) \in Seq(Locals(kind)) /\ Before(n) = SubSeq(list, 1, Count(n))
        <5>1. Before(n) = SubSeq(list, 1, Count(n))
          BY <4>1, <3>2
        <5>2. n # 0 => F[n] \in Seq(Locals(kind))
          BY <4>1, <2>1
        <5> QED
          BY <5>1, <5>2
      <4>3. F[n + 1] = Before(n) \o new[n + 1]
        <5>1. CASE n = 0
          <6>1. new[1] \in Seq(Locals(kind))
            BY <4>1, <5>1, <1>6, ElementOfSeq
          <6> QED
            BY <5>1, <6>1, <2>1, ConcatEmptySeq
        <5>2. CASE n # 0
          <6>1. n + 1 \in 2..N /\ (n + 1) - 1 = n
            BY <5>2, <4>1
          <6> QED
            BY <5>2, <6>1, <2>1
        <5> QED
          BY <5>1, <5>2
      <4> HIDE DEF Before
      <4>4. CASE n + 1 \in (p + 1)..(p + L)
        <5> DEFINE k == n + 1 - p
        <5>1. k \in 1..L /\ p + k = n + 1 /\ Count(n) = k - 1 /\ Count(n + 1) = k
          BY <4>4, <1>1
        <5> HIDE DEF k, Count
        <5>2. new[n + 1] = <<list[k]>>
          BY <5>1, <1>4
        <5>3. SubSeq(list, 1, k) = SubSeq(list, 1, k - 1) \o <<list[k]>>
          <6>1. 1 \in 1..Len(list) /\ k \in 1..Len(list)
            BY <5>1, <1>1
          <6> QED
            BY <6>1, SubSeqRecursiveSecond
        <5> QED
          BY <4>2, <4>3, <5>1, <5>2, <5>3
      <4>5. CASE n + 1 \notin (p + 1)..(p + L)
        <5>1. Count(n + 1) = Count(n) /\ new[n + 1] = <<>>
          BY <4>5, <4>1, <1>1, <1>5
        <5>2. Before(n) \o <<>> = Before(n)
          BY <4>2, ConcatEmptySeq
        <5> QED
          BY <4>2, <4>3, <5>1, <5>2
      <4> QED
        BY <4>4, <4>5
    <3> HIDE DEF Good
    <3> QED
      BY <3>1, <3>2, Induction
  <2>3. F[N] = SubSeq(list, 1, Count(N))
    <3>1. N \in Good /\ N # 0 /\ N <= N
      <4> HIDE DEF Good
      <4> QED
        BY <2>2, <1>1, <1>9
    <3>2. Before(N) = SubSeq(list, 1, Count(N))
      BY <3>1
    <3> HIDE DEF Count
    <3> QED
      BY <3>1, <3>2
  <2>4. Count(N) = Len(list)
    <3>1. N \in Nat /\ L \in Nat /\ p + L <= N
      BY <1>1
    <3>2. Count(N) = L
      <4> HIDE DEF N, L
      <4> QED
        BY <3>1
    <3> QED
      BY <3>2
  <2> HIDE DEF Count
  <2> QED
    BY <1>7, <2>1, <2>3, <2>4, SubSeqFull
<1> QED
  BY <1>8, <1>9

(* The uses in a definition that was parsed: its scripts and its secrets   *)
(* declare, all others name what these declared.                           *)
Declaration(kind, local) == [kind |-> kind, id |-> local.id, url |-> local.source.url]

Canonical(uses, scripts, secrets) ==
  /\ uses \in Seq(AnyUse)
  /\ scripts \in Seq(Locals("script")) /\ IsInjective(Ids(scripts))
  /\ secrets \in Seq(Locals("secret")) /\ IsInjective(Ids(secrets))
  /\ Len(scripts) + Len(secrets) <= Len(uses)
  /\ \A i \in 1..Len(scripts) : uses[i] = Declaration("script", scripts[i])
  /\ \A i \in 1..Len(secrets) : uses[Len(scripts) + i] = Declaration("secret", secrets[i])
  /\ \A i \in 1..Len(uses) :
       i > Len(scripts) + Len(secrets) =>
         /\ ~Has(uses[i], "url")
         /\ uses[i].id \in Range(Ids(IF uses[i].kind = "script" THEN scripts ELSE secrets))

LEMMA DeclarationFields ==
  ASSUME NEW kind, NEW local
  PROVE  /\ Declaration(kind, local).kind = kind /\ Declaration(kind, local).id = local.id
         /\ Declaration(kind, local).url = local.source.url
         /\ Has(Declaration(kind, local), "url")
BY DEF Declaration, Has

LEMMA CanonicalRegisters ==
  ASSUME NEW uses, NEW scripts, NEW secrets, Canonical(uses, scripts, secrets)
  PROVE  Registers(uses)
<1> DEFINE N == Len(uses)
           A == Len(scripts)
           B == Len(secrets)
           SameBefore(i) == {k \in 1..(i - 1) : /\ uses[k].kind = uses[i].kind
                                             /\ uses[k].id = uses[i].id
                                             /\ Has(uses[k], "url")}
<1>1. /\ N \in Nat /\ DOMAIN uses = 1..N /\ \A n \in 1..N : uses[n] \in AnyUse
      /\ A \in Nat /\ DOMAIN scripts = 1..A /\ B \in Nat /\ DOMAIN secrets = 1..B
      /\ A + B <= N
  BY LenProperties, ElementOfSeq DEF Canonical
<1>2. ASSUME NEW i \in 1..A
      PROVE  /\ uses[i].kind = "script" /\ uses[i].id = scripts[i].id /\ Has(uses[i], "url")
             /\ i \in 1..N
  BY <1>1, DeclarationFields DEF Canonical
<1>3. ASSUME NEW i \in 1..B
      PROVE  /\ uses[A + i].kind = "secret" /\ uses[A + i].id = secrets[i].id
             /\ Has(uses[A + i], "url") /\ A + i \in 1..N
  BY <1>1, DeclarationFields DEF Canonical
<1>4. ASSUME NEW i \in 1..N
      PROVE  i \in 1..A \/ i - A \in 1..B \/ i > A + B
  BY <1>1
<1>5. ASSUME NEW i \in 1..A
      PROVE  SameBefore(i) = {}
  <2>1. ASSUME NEW k \in SameBefore(i)
        PROVE  FALSE
    <3>1. k \in 1..A /\ k # i /\ uses[k].id = uses[i].id
      BY <1>1
    <3>2. scripts[k].id = scripts[i].id
      BY <3>1, <1>2
    <3> QED
      BY <3>1, <3>2, <1>1 DEF Canonical, IsInjective, Ids
  <2> QED
    BY <2>1
<1>6. ASSUME NEW i \in 1..B
      PROVE  SameBefore(A + i) = {}
  <2>1. ASSUME NEW k \in SameBefore(A + i)
        PROVE  FALSE
    <3>1. k \in 1..(A + i - 1) /\ uses[k].kind = "secret" /\ uses[k].id = uses[A + i].id
      BY <1>3
    <3>2. k \notin 1..A
      BY <3>1, <1>2
    <3>3. k - A \in 1..B /\ A + (k - A) = k /\ k - A # i
      BY <3>1, <3>2, <1>1
    <3>4. secrets[k - A].id = secrets[i].id
      BY <3>1, <3>3, <1>3
    <3> QED
      BY <3>3, <3>4, <1>1 DEF Canonical, IsInjective, Ids
  <2> QED
    BY <2>1
<1>7. ASSUME NEW i \in 1..N, i > A + B
      PROVE  ~Has(uses[i], "url") /\ SameBefore(i) # {}
  <2>1. /\ ~Has(uses[i], "url") /\ uses[i].kind \in Kinds
        /\ uses[i].id \in Range(Ids(IF uses[i].kind = "script" THEN scripts ELSE secrets))
    BY <1>1, <1>7, UseFields DEF Canonical
  <2>2. CASE uses[i].kind = "script"
    <3>1. PICK k \in 1..A : uses[i].id = scripts[k].id
      BY <1>1, <2>1, <2>2 DEF Range, Ids
    <3>2. k \in 1..(i - 1)
      BY <1>1, <1>7
    <3> QED
      BY <1>2, <2>1, <2>2, <3>1, <3>2
  <2>3. CASE uses[i].kind = "secret"
    <3>1. PICK k \in 1..B : uses[i].id = secrets[k].id
      BY <1>1, <2>1, <2>3 DEF Range, Ids
    <3>2. A + k \in 1..(i - 1)
      BY <1>1, <1>7
    <3> QED
      BY <1>3, <2>1, <2>3, <3>1, <3>2
  <2> QED
    BY <2>1, <2>2, <2>3 DEF Kinds
<1>8. ASSUME NEW i \in DOMAIN uses
      PROVE  IF Has(uses[i], "url") THEN {uses[j].url : j \in SameBefore(i)} \subseteq {uses[i].url}
             ELSE {uses[j].url : j \in SameBefore(i)} # {}
  <2>1. Has(uses[i], "url") => SameBefore(i) = {}
    <3>1. CASE i \in 1..A
      BY <3>1, <1>5
    <3>2. CASE i - A \in 1..B
      <4>1. i = A + (i - A)
        BY <1>1
      <4> HIDE DEF SameBefore
      <4> QED
        BY <3>2, <4>1, <1>6
    <3>3. CASE i > A + B
      BY <1>1, <3>3, <1>7
    <3> QED
      BY <1>1, <1>4, <3>1, <3>2, <3>3
  <2>2. ~Has(uses[i], "url") => SameBefore(i) # {}
    <3>1. CASE i \in 1..A
      BY <3>1, <1>2
    <3>2. CASE i - A \in 1..B
      <4>1. i = A + (i - A)
        BY <1>1
      <4> QED
        BY <3>2, <4>1, <1>3
    <3>3. CASE i > A + B
      BY <1>1, <3>3, <1>7
    <3> QED
      BY <1>1, <1>4, <3>1, <3>2, <3>3
  <2> HIDE DEF SameBefore
  <2> QED
    BY <2>1, <2>2
<1> QED
  BY <1>8 DEF Registers

LEMMA CanonicalRegistry ==
  ASSUME NEW uses, NEW scripts, NEW secrets, Canonical(uses, scripts, secrets)
  PROVE  Registry("script", uses) = scripts /\ Registry("secret", uses) = secrets
<1> DEFINE N == Len(uses)
           A == Len(scripts)
           B == Len(secrets)
<1>1. /\ N \in Nat /\ DOMAIN uses = 1..N /\ A \in Nat /\ B \in Nat /\ A + B <= N
      /\ uses \in Seq(AnyUse)
  BY LenProperties DEF Canonical
<1>2. \A i \in 1..A : uses[i] = Declaration("script", scripts[i]) /\ uses[i].kind = "script"
  BY DeclarationFields DEF Canonical
<1>3. \A i \in 1..B : /\ uses[A + i] = Declaration("secret", secrets[i])
                      /\ uses[A + i].kind = "secret"
  BY DeclarationFields DEF Canonical
<1>4. \A i \in 1..N : i > A + B => ~Has(uses[i], "url")
  BY DEF Canonical
<1>5. Registry("script", uses) = scripts
  <2>1. \A i \in 1..Len(scripts) :
          uses[0 + i] = [kind |-> "script", id |-> scripts[i].id, url |-> scripts[i].source.url]
    BY <1>1, <1>2 DEF Declaration
  <2>2. ASSUME NEW i \in 1..N, i \notin (0 + 1)..(0 + A)
        PROVE  ~Declares(uses[i], "script")
    <3>1. CASE i - A \in 1..B
      <4>1. i = A + (i - A)
        BY <1>1
      <4>2. uses[i].kind = "secret"
        BY <3>1, <4>1, <1>3
      <4> QED
        BY <4>2 DEF Declares
    <3>2. CASE i > A + B
      BY <3>2, <1>4 DEF Declares
    <3> QED
      BY <1>1, <2>2, <3>1, <3>2
  <2>3. /\ "script" \in Kinds /\ scripts \in Seq(Locals("script")) /\ IsInjective(Ids(scripts))
        /\ 0 \in Nat /\ 0 + Len(scripts) <= Len(uses)
    BY <1>1 DEF Canonical, Kinds
  <2> QED
    BY <1>1, <2>1, <2>2, <2>3, RegistryOfList
<1>6. Registry("secret", uses) = secrets
  <2>1. \A i \in 1..Len(secrets) :
          uses[A + i] = [kind |-> "secret", id |-> secrets[i].id, url |-> secrets[i].source.url]
    BY <1>1, <1>3 DEF Declaration
  <2>2. ASSUME NEW i \in 1..N, i \notin (A + 1)..(A + B)
        PROVE  ~Declares(uses[i], "secret")
    <3>1. CASE i \in 1..A
      BY <3>1, <1>2 DEF Declares
    <3>2. CASE i > A + B
      BY <3>2, <1>4 DEF Declares
    <3> QED
      BY <1>1, <2>2, <3>1, <3>2
  <2>3. /\ "secret" \in Kinds /\ secrets \in Seq(Locals("secret")) /\ IsInjective(Ids(secrets))
        /\ A \in Nat /\ A + Len(secrets) <= Len(uses)
    BY <1>1 DEF Canonical, Kinds
  <2> QED
    BY <1>1, <2>1, <2>2, <2>3, RegistryOfList
<1> QED
  BY <1>5, <1>6

-----------------------------------------------------------------------------
(* What a parser made of a part is accepted by the same parser and comes   *)
(* out as it went in, and its uses are those of the part with their        *)
(* declarations removed: one lemma for each part of a definition.          *)
Stripped(use) == [kind |-> use.kind, id |-> use.id]

IdFields == {"scriptId", "secretId"}

LEMMA UrlOfSource ==
  ASSUME NEW value, ParsesSource(value)
  PROVE  /\ Url(value) \in Location
         /\ ParsesSource([kind |-> "local", url |-> Url(value)])
         /\ Url([kind |-> "local", url |-> Url(value)]) = Url(value)
<1>1. Url(value) \in Location
  <2>1. CASE Object(value, {"relative"}, {}) /\ value.relative \in Location
    BY <2>1 DEF Object, Url, Has
  <2>2. CASE Object(value, {"kind", "url"}, {}) /\ value.url \in Location
    BY <2>2 DEF Object, Url, Has
  <2> QED
    BY <2>1, <2>2 DEF ParsesSource
<1> DEFINE source == [kind |-> "local", url |-> Url(value)]
<1>2. DOMAIN source = {"kind", "url"} /\ source.kind = "local" /\ source.url = Url(value)
  OBVIOUS
<1> HIDE DEF source
<1>3. Url(source) = Url(value)
  BY <1>2 DEF Url, Has
<1>4. ParsesSource(source)
  BY <1>1, <1>2 DEF ParsesSource, Object
<1> QED
  BY <1>1, <1>3, <1>4 DEF source

LEMMA UseTyped ==
  ASSUME NEW value, NEW kind \in Kinds, NEW idField \in IdFields,
         ParsesUse(value, kind, idField)
  PROVE  /\ Use(kind, idField, value) \in AnyUse
         /\ Use(kind, idField, value).kind = kind
         /\ Use(kind, idField, value).id \in Identifier
         /\ Stripped(Use(kind, idField, value)) \in AnyUse
<1>1. CASE Object(value, {idField}, {}) /\ ParsesIdentifier(value[idField])
  <2>1. Use(kind, idField, value) = [kind |-> kind, id |-> value[idField]]
    BY <1>1 DEF Use, Has, Object
  <2> QED
    BY <1>1, <2>1 DEF ParsesIdentifier, AnyUse, Stripped
<1>2. CASE ParsesReference(value, kind)
  <2>1. idField \notin DOMAIN value
    BY <1>2 DEF ParsesReference, Object, IdFields
  <2>2. Use(kind, idField, value) = [kind |-> kind, id |-> value.id, url |-> Url(value.source)]
    BY <2>1 DEF Use, Has
  <2>3. value.id \in Identifier /\ Url(value.source) \in Location
    BY <1>2, UrlOfSource DEF ParsesReference, ParsesIdentifier
  <2> QED
    BY <2>2, <2>3 DEF AnyUse, Stripped
<1> QED
  BY <1>1, <1>2 DEF ParsesUse

LEMMA NamedAgain ==
  ASSUME NEW value, NEW kind \in Kinds, NEW idField \in IdFields,
         ParsesUse(value, kind, idField)
  PROVE  /\ DOMAIN Named(kind, idField, value) = {idField}
         /\ Named(kind, idField, value)[idField] = Use(kind, idField, value).id
         /\ ParsesUse(Named(kind, idField, value), kind, idField)
         /\ Use(kind, idField, Named(kind, idField, value)) = Stripped(Use(kind, idField, value))
         /\ Named(kind, idField, Named(kind, idField, value)) = Named(kind, idField, value)
<1> DEFINE use == Use(kind, idField, value)
           named == Named(kind, idField, value)
<1>1. use.kind = kind /\ use.id \in Identifier
  BY UseTyped
<1> HIDE DEF use
<1>2. DOMAIN named = {idField} /\ named[idField] = use.id
  BY DEF Named, use
<1> HIDE DEF named
<1>3. ParsesUse(named, kind, idField)
  BY <1>1, <1>2 DEF ParsesUse, Object, ParsesIdentifier
<1>4. Use(kind, idField, named) = Stripped(use)
  BY <1>1, <1>2 DEF Use, Has, Stripped
<1>5. Use(kind, idField, named).id = use.id
  BY <1>4 DEF Stripped
<1>6. Named(kind, idField, named) = named
  BY <1>5 DEF Named, named, use
<1> QED
  BY <1>2, <1>3, <1>4, <1>6 DEF use, named

(* After the parser a part uses only what it used before, and declares     *)
(* nothing.                                                                *)
Restates(after, former) ==
  /\ after \in Seq(AnyUse) /\ former \in Seq(AnyUse)
  /\ \A use \in Range(after) : \E earlier \in Range(former) : use = Stripped(earlier)

LEMMA NothingRestates == Restates(<<>>, <<>>)
BY DEF Restates, Range

LEMMA OneRestates ==
  ASSUME NEW value, NEW kind \in Kinds, NEW idField \in IdFields,
         ParsesUse(value, kind, idField)
  PROVE  Restates(<<Use(kind, idField, Named(kind, idField, value))>>,
                  <<Use(kind, idField, value)>>)
<1> DEFINE use == Use(kind, idField, value)
           again == Use(kind, idField, Named(kind, idField, value))
<1>1. use \in AnyUse /\ again = Stripped(use) /\ again \in AnyUse
  BY UseTyped, NamedAgain
<1> HIDE DEF use, again
<1> QED
  BY <1>1 DEF Restates, Range, use, again

LEMMA ConcatRestates ==
  ASSUME NEW a, NEW b, NEW c, NEW d, Restates(a, b), Restates(c, d)
  PROVE  Restates(a \o c, b \o d)
<1>1. /\ a \in Seq(AnyUse) /\ b \in Seq(AnyUse) /\ c \in Seq(AnyUse) /\ d \in Seq(AnyUse)
      /\ \A use \in Range(a) : \E earlier \in Range(b) : use = Stripped(earlier)
      /\ \A use \in Range(c) : \E earlier \in Range(d) : use = Stripped(earlier)
  BY DEF Restates
<1>2. Range(a \o c) = Range(a) \cup Range(c) /\ Range(b \o d) = Range(b) \cup Range(d)
  BY <1>1, RangeConcatenation
<1>3. a \o c \in Seq(AnyUse) /\ b \o d \in Seq(AnyUse)
  BY <1>1, ConcatProperties
<1> QED
  BY <1>1, <1>2, <1>3 DEF Restates

LEMMA FlattenRestates ==
  ASSUME NEW n \in Nat, NEW after, NEW former,
         DOMAIN after = 1..n, DOMAIN former = 1..n,
         after = [i \in 1..n |-> after[i]], former = [i \in 1..n |-> former[i]],
         \A i \in 1..n : Restates(after[i], former[i])
  PROVE  Restates(FlattenSeq(after), FlattenSeq(former))
<1>1. after \in [1..n -> Seq(AnyUse)] /\ former \in [1..n -> Seq(AnyUse)]
  BY DEF Restates
<1>2. after \in Seq(Seq(AnyUse)) /\ former \in Seq(Seq(AnyUse))
  BY <1>1, SeqDef
<1>3. /\ FlattenSeq(after) \in Seq(AnyUse) /\ FlattenSeq(former) \in Seq(AnyUse)
      /\ Range(FlattenSeq(after)) = UNION {Range(after[i]) : i \in 1..n}
      /\ Range(FlattenSeq(former)) = UNION {Range(former[i]) : i \in 1..n}
  BY <1>2, FlattenedRange
<1>4. ASSUME NEW use \in Range(FlattenSeq(after))
      PROVE  \E earlier \in Range(FlattenSeq(former)) : use = Stripped(earlier)
  <2>1. PICK i \in 1..n : use \in Range(after[i])
    BY <1>3, <1>4
  <2>2. PICK earlier \in Range(former[i]) : use = Stripped(earlier)
    BY <2>1 DEF Restates
  <2>3. earlier \in Range(FlattenSeq(former))
    BY <1>3, <2>2
  <2> QED
    BY <2>2, <2>3
<1> QED
  BY <1>3, <1>4 DEF Restates

LEMMA CommandAgain ==
  ASSUME NEW value, ParsesCommand(value)
  PROVE  /\ ParsesCommand(ParsedCommand(value))
         /\ ParsedCommand(ParsedCommand(value)) = ParsedCommand(value)
         /\ Restates(CommandUses(ParsedCommand(value)), CommandUses(value))
         /\ DOMAIN ParsedCommand(value) = DOMAIN value
<1> DEFINE executable == value.executable
           parsed == ParsedCommand(value)
           named == Named("script", "scriptId", executable)
<1>1. /\ Object(value, {"executable", "arguments"}, {"workingDirectory"})
      /\ Array(value.arguments)
      /\ \A i \in DOMAIN value.arguments : ParsesString(value.arguments[i])
      /\ Has(value, "workingDirectory") => ParsesTarget(value.workingDirectory)
  BY DEF ParsesCommand
<1>2. /\ DOMAIN parsed = DOMAIN value
      /\ parsed.executable = IF Has(executable, "program") THEN executable ELSE named
      /\ \A field \in DOMAIN value \ {"executable"} : parsed[field] = value[field]
      /\ parsed = [field \in DOMAIN value |-> parsed[field]]
  BY <1>1 DEF ParsedCommand, Object
<1>3. /\ parsed.arguments = value.arguments
      /\ Has(parsed, "workingDirectory") <=> Has(value, "workingDirectory")
      /\ Has(value, "workingDirectory") => parsed.workingDirectory = value.workingDirectory
  BY <1>1, <1>2 DEF Object, Has
<1>4. ParsedCommand(parsed) = [parsed EXCEPT !.executable =
                                 IF Has(parsed.executable, "program") THEN parsed.executable
                                 ELSE Named("script", "scriptId", parsed.executable)]
  BY DEF ParsedCommand
<1> HIDE DEF parsed
<1>5. CASE Object(executable, {"program"}, {}) /\ ParsesString(executable.program)
  <2>1. Has(executable, "program")
    BY <1>5 DEF Object, Has
  <2>2. parsed.executable = executable
    BY <1>2, <2>1
  <2>3. ParsesCommand(parsed)
    BY <1>1, <1>2, <1>3, <1>5, <2>2 DEF ParsesCommand, Object
  <2>4. ParsedCommand(parsed) = parsed
    BY <1>2, <1>4, <2>1, <2>2
  <2>5. CommandUses(parsed) = <<>> /\ CommandUses(value) = <<>>
    BY <2>1, <2>2 DEF CommandUses
  <2> QED
    BY <1>2, <2>3, <2>4, <2>5, NothingRestates DEF parsed
<1>6. CASE ParsesUse(executable, "script", "scriptId")
  <2>1. ~Has(executable, "program")
    BY <1>6 DEF ParsesUse, ParsesReference, Object, Has
  <2>2. parsed.executable = named
    BY <1>2, <2>1
  <2>3. /\ DOMAIN named = {"scriptId"} /\ ParsesUse(named, "script", "scriptId")
        /\ Named("script", "scriptId", named) = named
    BY <1>6, NamedAgain DEF Kinds, IdFields
  <2> HIDE DEF named
  <2>4. ~Has(parsed.executable, "program")
    BY <2>2, <2>3 DEF Has
  <2>5. ParsesCommand(parsed)
    BY <1>1, <1>2, <1>3, <2>2, <2>3 DEF ParsesCommand, Object
  <2>6. ParsedCommand(parsed) = parsed
    BY <1>2, <1>4, <2>2, <2>3, <2>4
  <2>7. /\ CommandUses(parsed) = <<Use("script", "scriptId", named)>>
        /\ CommandUses(value) = <<Use("script", "scriptId", executable)>>
    BY <2>1, <2>2, <2>4 DEF CommandUses
  <2>8. Restates(<<Use("script", "scriptId", named)>>, <<Use("script", "scriptId", executable)>>)
    BY <1>6, OneRestates DEF named, Kinds, IdFields
  <2> QED
    BY <1>2, <2>5, <2>6, <2>7, <2>8 DEF parsed
<1> QED
  BY <1>5, <1>6 DEF ParsesCommand

LEMMA ResourceAgain ==
  ASSUME NEW value, "source" \in DOMAIN value, ParsesSource(value.source)
  PROVE  /\ DOMAIN ParsedResource(value) = DOMAIN value
         /\ \A field \in DOMAIN value \ {"source"} : ParsedResource(value)[field] = value[field]
         /\ ParsesSource(ParsedResource(value).source)
         /\ ParsedResource(value).source.url \in Location
         /\ ParsedResource(ParsedResource(value)) = ParsedResource(value)
<1> DEFINE parsed == ParsedResource(value)
           source == [kind |-> "local", url |-> Url(value.source)]
<1>1. /\ DOMAIN parsed = DOMAIN value /\ parsed.source = source
      /\ \A field \in DOMAIN value \ {"source"} : parsed[field] = value[field]
      /\ parsed = [field \in DOMAIN value |-> parsed[field]]
  BY DEF ParsedResource
<1>2. ParsesSource(source) /\ Url(source) = Url(value.source) /\ source.url \in Location
  BY UrlOfSource
<1>3. ParsedResource(parsed) = [parsed EXCEPT !.source = source]
  BY <1>1, <1>2 DEF ParsedResource
<1> HIDE DEF parsed, source
<1>4. [parsed EXCEPT !.source = source] = parsed
  BY <1>1
<1> QED
  BY <1>1, <1>2, <1>3, <1>4 DEF parsed

LEMMA AssetAgain ==
  ASSUME NEW value, ParsesAsset(value)
  PROVE  /\ ParsesAsset(ParsedResource(value))
         /\ ParsedResource(ParsedResource(value)) = ParsedResource(value)
         /\ ParsedResource(value).id = value.id
<1>1. "source" \in DOMAIN value /\ ParsesSource(value.source)
  BY DEF ParsesAsset, Object
<1> DEFINE parsed == ParsedResource(value)
<1>2. /\ DOMAIN parsed = DOMAIN value
      /\ \A field \in DOMAIN value \ {"source"} : parsed[field] = value[field]
      /\ ParsesSource(parsed.source) /\ ParsedResource(parsed) = parsed
  BY <1>1, ResourceAgain
<1> HIDE DEF parsed
<1>3. parsed.kind = value.kind /\ parsed.id = value.id
  BY <1>2 DEF ParsesAsset, Object
<1>4. Has(value, "placement") => parsed.placement = value.placement
  BY <1>2 DEF Has
<1>5. ParsesAsset(parsed)
  BY <1>2, <1>3, <1>4 DEF ParsesAsset, Object, Has
<1> QED
  BY <1>2, <1>3, <1>5 DEF parsed

LEMMA PromptAgain ==
  ASSUME NEW value, ParsesPrompt(value)
  PROVE  /\ ParsesPrompt(ParsedResource(value))
         /\ ParsedResource(ParsedResource(value)) = ParsedResource(value)
         /\ ParsedResource(value).id = value.id
         /\ ParsedResource(value).variables = value.variables
<1>1. "source" \in DOMAIN value /\ ParsesSource(value.source)
  BY DEF ParsesPrompt, Object
<1> DEFINE parsed == ParsedResource(value)
<1>2. /\ DOMAIN parsed = DOMAIN value
      /\ \A field \in DOMAIN value \ {"source"} : parsed[field] = value[field]
      /\ ParsesSource(parsed.source) /\ ParsedResource(parsed) = parsed
  BY <1>1, ResourceAgain
<1> HIDE DEF parsed
<1>3. parsed.kind = value.kind /\ parsed.id = value.id /\ parsed.variables = value.variables
  BY <1>2 DEF ParsesPrompt, Object
<1>4. ParsesPrompt(parsed)
  BY <1>2, <1>3 DEF ParsesPrompt, Object
<1> QED
  BY <1>2, <1>3, <1>4 DEF parsed

ParsedProvider(value) == [value EXCEPT !.command = ParsedCommand(@)]

LEMMA ProviderAgain ==
  ASSUME NEW value, ParsesProvider(value)
  PROVE  /\ ParsesProvider(ParsedProvider(value))
         /\ ParsedProvider(ParsedProvider(value)) = ParsedProvider(value)
         /\ ParsedProvider(value).id = value.id
         /\ Restates(CommandUses(ParsedProvider(value).command), CommandUses(value.command))
<1> DEFINE parsed == ParsedProvider(value)
           again == ParsedCommand(value.command)
<1>1. Object(value, {"id", "command", "promptTransport"}, {}) /\ ParsesCommand(value.command)
  BY DEF ParsesProvider
<1>2. /\ ParsesCommand(again) /\ ParsedCommand(again) = again
      /\ Restates(CommandUses(again), CommandUses(value.command))
  BY <1>1, CommandAgain
<1>3. /\ DOMAIN parsed = DOMAIN value /\ parsed.command = again
      /\ parsed.id = value.id /\ parsed.promptTransport = value.promptTransport
      /\ parsed = [field \in DOMAIN value |-> parsed[field]]
  BY <1>1 DEF ParsedProvider, Object
<1>4. ParsedProvider(parsed) = [parsed EXCEPT !.command = ParsedCommand(parsed.command)]
  BY DEF ParsedProvider
<1> HIDE DEF parsed, again
<1>5. ParsedProvider(parsed) = parsed
  BY <1>2, <1>3, <1>4
<1>6. ParsesProvider(parsed)
  BY <1>1, <1>2, <1>3 DEF ParsesProvider, Object
<1> QED
  BY <1>2, <1>3, <1>5, <1>6 DEF parsed

LEMMA SecretAgain ==
  ASSUME NEW value, NEW fields, "secret" \notin fields, "secretId" \notin fields,
         ParsesSecretIn(value, fields)
  PROVE  /\ SecretUse(value) \in AnyUse /\ SecretUse(value).id \in Identifier
         /\ \A parsed : Object(parsed, fields \cup {"secretId"}, {})
                        /\ parsed.secretId = SecretUse(value).id =>
              /\ ParsesSecretIn(parsed, fields)
              /\ SecretUse(parsed) = Stripped(SecretUse(value))
              /\ SecretUse(parsed).id = SecretUse(value).id
<1> DEFINE use == SecretUse(value)
<1>1. use \in AnyUse /\ use.id \in Identifier /\ use.kind = "secret"
  <2>1. CASE Object(value, fields \cup {"secret"}, {}) /\ ParsesReference(value.secret, "secret")
    <3>1. use = Use("secret", "secretId", value.secret)
      BY <2>1 DEF SecretUse, Object, Has
    <3>2. ParsesUse(value.secret, "secret", "secretId")
      BY <2>1 DEF ParsesUse
    <3> QED
      BY <3>1, <3>2, UseTyped DEF Kinds, IdFields
  <2>2. CASE Object(value, fields \cup {"secretId"}, {}) /\ ParsesIdentifier(value.secretId)
    <3>1. use = [kind |-> "secret", id |-> value.secretId]
      BY <2>2 DEF SecretUse, Use, Object, Has
    <3> QED
      BY <2>2, <3>1 DEF AnyUse, Kinds, ParsesIdentifier
  <2> QED
    BY <2>1, <2>2 DEF ParsesSecretIn
<1> HIDE DEF use
<1>2. ASSUME NEW parsed, Object(parsed, fields \cup {"secretId"}, {}), parsed.secretId = use.id
      PROVE  /\ ParsesSecretIn(parsed, fields)
             /\ SecretUse(parsed) = Stripped(use) /\ SecretUse(parsed).id = use.id
  <2>1. ParsesSecretIn(parsed, fields)
    BY <1>1, <1>2 DEF ParsesSecretIn, ParsesIdentifier
  <2>2. SecretUse(parsed) = [kind |-> "secret", id |-> use.id]
    BY <1>2 DEF SecretUse, Use, Object, Has
  <2> QED
    BY <1>1, <2>1, <2>2 DEF Stripped
<1> QED
  BY <1>1, <1>2 DEF use

(* The steps, by kind.                                                     *)
StepAgain(step) ==
  /\ ParsesStep(ParsedStep(step)) /\ ParsedStep(ParsedStep(step)) = ParsedStep(step)
  /\ Restates(StepUses(ParsedStep(step)), StepUses(step))
  /\ ParsedStep(step).id = step.id /\ ParsedStep(step).kind = step.kind

LEMMA OtherStepAgain ==
  ASSUME NEW step, ParsesStep(step), ParsesEnvironment(step) \/ ParsesProviderStep(step)
  PROVE  StepAgain(step) /\ ParsedStep(step) = step
<1>1. step.kind \in {"environment", "provider"}
  BY DEF ParsesEnvironment, ParsesProviderStep
<1>2. ParsedStep(step) = step
  BY <1>1 DEF ParsedStep
<1>3. StepUses(step) = <<>>
  BY <1>1 DEF StepUses
<1> QED
  BY <1>2, <1>3, NothingRestates DEF StepAgain

LEMMA CommandStepAgain ==
  ASSUME NEW step, ParsesStep(step), ParsesAutomatic(step) \/ ParsesFireAndForget(step)
  PROVE  StepAgain(step)
<1> DEFINE parsed == ParsedStep(step)
           again == ParsedCommand(step.command)
<1>1. /\ step.kind \in {"automatic", "fire-and-forget"} /\ ParsesCommand(step.command)
      /\ "command" \in DOMAIN step /\ {"id", "kind"} \subseteq DOMAIN step
  BY DEF ParsesAutomatic, ParsesFireAndForget, Object
<1>2. /\ ParsesCommand(again) /\ ParsedCommand(again) = again
      /\ Restates(CommandUses(again), CommandUses(step.command))
  BY <1>1, CommandAgain
<1>3. parsed = [step EXCEPT !.command = again]
  BY <1>1 DEF ParsedStep
<1> HIDE DEF again, parsed
<1>4. /\ DOMAIN parsed = DOMAIN step /\ parsed.command = again
      /\ \A field \in DOMAIN step \ {"command"} : parsed[field] = step[field]
      /\ parsed = [field \in DOMAIN step |-> parsed[field]]
  BY <1>1, <1>3
<1>5. parsed.kind = step.kind /\ parsed.id = step.id
  BY <1>1, <1>4
<1>6. ParsedStep(parsed) = [parsed EXCEPT !.command = again]
  BY <1>1, <1>2, <1>4, <1>5 DEF ParsedStep
<1>7. ParsedStep(parsed) = parsed
  BY <1>4, <1>6
<1>8. ParsesStep(parsed)
  <2>1. CASE ParsesAutomatic(step)
    <3>1. ParsesAutomatic(parsed)
      BY <2>1, <1>2, <1>4, <1>5 DEF ParsesAutomatic, Object
    <3> QED
      BY <3>1, <1>1, <1>4, <1>5 DEF ParsesStep
  <2>2. CASE ParsesFireAndForget(step)
    <3>1. "lifetime" \in DOMAIN step
      BY <2>2 DEF ParsesFireAndForget, Object
    <3>2. parsed.lifetime = step.lifetime
      BY <3>1, <1>4
    <3>3. ParsesFireAndForget(parsed)
      BY <2>2, <1>2, <1>4, <1>5, <3>2 DEF ParsesFireAndForget, Object
    <3> QED
      BY <3>3, <1>1, <1>4, <1>5 DEF ParsesStep
  <2> QED
    BY <2>1, <2>2
<1>9. StepUses(parsed) = CommandUses(again) /\ StepUses(step) = CommandUses(step.command)
  BY <1>1, <1>4, <1>5 DEF StepUses
<1> QED
  BY <1>2, <1>5, <1>7, <1>8, <1>9 DEF StepAgain, parsed

LEMMA ManualAgain ==
  ASSUME NEW step, ParsesStep(step), ParsesManual(step)
  PROVE  StepAgain(step)
<1> DEFINE parsed == ParsedStep(step)
           again == ParsedCommand(step.command)
           check == ParsedCommand(step.completionCheck)
<1>1. /\ step.kind = "manual"
      /\ Object(step, {"id", "kind", "command", "completionCheck", "pollIntervalSeconds"}, {})
      /\ ParsesCommand(step.command) /\ ParsesCommand(step.completionCheck)
      /\ step.pollIntervalSeconds \in PollInterval
  BY DEF ParsesManual
<1>2. /\ ParsesCommand(again) /\ ParsedCommand(again) = again
      /\ Restates(CommandUses(again), CommandUses(step.command))
      /\ ParsesCommand(check) /\ ParsedCommand(check) = check
      /\ Restates(CommandUses(check), CommandUses(step.completionCheck))
  BY <1>1, CommandAgain
<1>3. parsed = [step EXCEPT !.command = again, !.completionCheck = check]
  BY <1>1 DEF ParsedStep
<1> HIDE DEF again, check, parsed
<1>4. /\ DOMAIN parsed = DOMAIN step /\ parsed.command = again
      /\ parsed.completionCheck = check
      /\ parsed.kind = step.kind /\ parsed.id = step.id
      /\ parsed.pollIntervalSeconds = step.pollIntervalSeconds
      /\ parsed = [field \in DOMAIN step |-> parsed[field]]
  BY <1>1, <1>3 DEF Object
<1>5. ParsedStep(parsed) = [parsed EXCEPT !.command = again, !.completionCheck = check]
  BY <1>1, <1>2, <1>4 DEF ParsedStep
<1>6. ParsedStep(parsed) = parsed
  BY <1>4, <1>5
<1>7. ParsesManual(parsed)
  BY <1>1, <1>2, <1>4 DEF ParsesManual, Object
<1>8. ParsesStep(parsed)
  BY <1>4, <1>7, <1>1 DEF ParsesStep, Object
<1>9. /\ StepUses(parsed) = CommandUses(again) \o CommandUses(check)
      /\ StepUses(step) = CommandUses(step.command) \o CommandUses(step.completionCheck)
  BY <1>1, <1>4 DEF StepUses
<1>10. Restates(StepUses(parsed), StepUses(step))
  BY <1>2, <1>9, ConcatRestates
<1> QED
  BY <1>4, <1>6, <1>8, <1>10 DEF StepAgain, parsed

LEMMA Intervals == PollInterval \subseteq AcceptedInterval
BY DEF PollInterval, AcceptedInterval

(* The scalar that no schema accepts is not an array.                      *)
NoArray == \A S : Malformed \notin Seq(S)

LEMMA ArrayFields ==
  ASSUME NEW value, Array(value)
  PROVE  /\ Len(value) \in Nat /\ DOMAIN value = 1..Len(value)
         /\ value = [i \in 1..Len(value) |-> value[i]]
<1>1. value \in Seq(Range(value))
  BY DEF Array
<1> DEFINE T == Range(value)
<1> HIDE DEF T
<1>2. value \in Seq(T)
  BY <1>1 DEF T
<1>3. Len(value) \in Nat /\ DOMAIN value = 1..Len(value) /\ value \in [1..Len(value) -> T]
  BY <1>2, LenProperties, SeqDef
<1> QED
  BY <1>3

LEMMA ArrayOf ==
  ASSUME NoArray, NEW n \in Nat, NEW f, f = [i \in 1..n |-> f[i]]
  PROVE  Array(f) /\ DOMAIN f = 1..n /\ Len(f) = n /\ f \in Seq(Range(f))
<1> DEFINE T == Range(f)
<1>1. DOMAIN f = 1..n
  OBVIOUS
<1>2. \A i \in 1..n : f[i] \in T
  BY <1>1 DEF Range
<1> HIDE DEF T
<1>3. f \in [1..n -> T]
  BY <1>2
<1>4. f \in Seq(T)
  BY <1>3, SeqDef
<1>5. Len(f) = n
  BY <1>1, <1>4, LenProperties
<1>6. f # Malformed
  BY <1>4 DEF NoArray
<1> QED
  BY <1>1, <1>4, <1>5, <1>6 DEF Array, T

LEMMA VariableAgain ==
  ASSUME NEW binding, Object(binding, {"name", "source"}, {}), ParsesVariable(binding.source)
  PROVE  /\ Object(ParsedVariable(binding), {"name", "source"}, {})
         /\ ParsesVariable(ParsedVariable(binding).source)
         /\ ParsedVariable(binding).name = binding.name
         /\ ParsedVariable(ParsedVariable(binding)) = ParsedVariable(binding)
         /\ ParsedVariable(binding).source.kind = binding.source.kind
         /\ binding.source.kind # "environment" =>
              Restates(<<SecretUse(ParsedVariable(binding).source)>>,
                       <<SecretUse(binding.source)>>)
<1> DEFINE source == binding.source
           parsed == ParsedVariable(binding)
           secretSource == [kind |-> "secret", secretId |-> SecretUse(source).id]
<1>1. /\ DOMAIN parsed = DOMAIN binding /\ parsed.name = binding.name
      /\ parsed.source = IF source.kind = "environment" THEN source ELSE secretSource
      /\ parsed = [field \in DOMAIN binding |-> parsed[field]]
  BY DEF ParsedVariable, Object
<1>2. ParsedVariable(parsed) =
        [parsed EXCEPT !.source = IF parsed.source.kind = "environment" THEN parsed.source
                                  ELSE [kind |-> "secret", secretId |-> SecretUse(parsed.source).id]]
  BY DEF ParsedVariable
<1> HIDE DEF parsed, source, secretSource
<1>3. CASE source.kind = "environment"
  <2>1. parsed.source = source
    BY <1>1, <1>3
  <2>2. ParsedVariable(parsed) = parsed
    BY <1>1, <1>2, <1>3, <2>1
  <2> QED
    BY <1>1, <1>3, <2>1, <2>2 DEF Object, source, parsed
<1>4. CASE source.kind # "environment"
  <2>1. source.kind = "secret" /\ ParsesSecretIn(source, {"kind"})
    BY <1>4 DEF ParsesVariable, source
  <2>2. /\ parsed.source = secretSource /\ DOMAIN secretSource = {"kind", "secretId"}
        /\ secretSource.kind = "secret" /\ secretSource.secretId = SecretUse(source).id
    BY <1>1, <1>4 DEF secretSource
  <2>3. /\ SecretUse(source) \in AnyUse
        /\ ParsesSecretIn(secretSource, {"kind"})
        /\ SecretUse(secretSource) = Stripped(SecretUse(source))
        /\ SecretUse(secretSource).id = SecretUse(source).id
    <3>1. Object(secretSource, {"kind"} \cup {"secretId"}, {})
      BY <2>2 DEF Object
    <3>2. "secret" \notin {"kind"} /\ "secretId" \notin {"kind"}
      OBVIOUS
    <3> QED
      BY <3>1, <3>2, <2>1, <2>2, SecretAgain
  <2>4. secretSource = [kind |-> "secret", secretId |-> SecretUse(secretSource).id]
    BY <2>3 DEF secretSource
  <2>5. ParsedVariable(parsed) = parsed
    BY <1>1, <1>2, <2>2, <2>4
  <2>6. ParsesVariable(secretSource)
    BY <2>2, <2>3 DEF ParsesVariable, Has
  <2>7. Restates(<<SecretUse(secretSource)>>, <<SecretUse(source)>>)
    <3> DEFINE use == SecretUse(source)
    <3>1. use \in AnyUse /\ Stripped(use) \in AnyUse
      BY <2>3, UseFields DEF Stripped, AnyUse
    <3> HIDE DEF use
    <3>2. Restates(<<Stripped(use)>>, <<use>>)
      BY <3>1 DEF Restates, Range
    <3> QED
      BY <2>3, <3>2 DEF use
  <2> QED
    BY <1>1, <2>1, <2>2, <2>5, <2>6, <2>7 DEF Object, source, parsed
<1> QED
  BY <1>3, <1>4

PromptParts(step) ==
  /\ ParsesPromptStep(ParsedStep(step))
  /\ Names(ParsedStep(step).variables) = Names(step.variables)
  /\ ParsedStep(step).templateId = step.templateId
  /\ ParsedStep(step).renderedPromptId = step.renderedPromptId

LEMMA PromptStepAgain ==
  ASSUME NoArray, NEW step, ParsesStep(step), ParsesPromptStep(step)
  PROVE  StepAgain(step) /\ PromptParts(step)
<1> DEFINE n == Len(step.variables)
           variables == [i \in DOMAIN step.variables |-> ParsedVariable(step.variables[i])]
           parsed == ParsedStep(step)
<1>1. /\ step.kind = "prompt"
      /\ Object(step, {"id", "kind", "templateId", "renderedPromptId", "retention",
                       "variables"}, {})
      /\ step.retention = "ephemeral"
      /\ ParsesIdentifier(step.templateId) /\ ParsesIdentifier(step.renderedPromptId)
      /\ Array(step.variables) /\ IsInjective(Names(step.variables))
      /\ \A i \in DOMAIN step.variables :
           /\ Object(step.variables[i], {"name", "source"}, {})
           /\ ParsesIdentifier(step.variables[i].name)
           /\ ParsesVariable(step.variables[i].source)
  BY DEF ParsesPromptStep
<1>2. n \in Nat /\ DOMAIN step.variables = 1..n
  BY <1>1, ArrayFields
<1>3. parsed = [step EXCEPT !.variables = variables]
  BY <1>1 DEF ParsedStep
<1>4. variables = [i \in 1..n |-> ParsedVariable(step.variables[i])]
  BY <1>2
<1>5. ParsedStep(parsed) = [parsed EXCEPT !.variables =
                              [i \in DOMAIN parsed.variables |->
                                 ParsedVariable(parsed.variables[i])]]
  <2>1. parsed.kind = "prompt"
    BY <1>1, <1>3 DEF Object
  <2> HIDE DEF parsed
  <2> QED
    BY <2>1 DEF ParsedStep
<1> HIDE DEF variables, parsed, n
<1>6. \A i \in 1..n :
        /\ variables[i] = ParsedVariable(step.variables[i])
        /\ Object(variables[i], {"name", "source"}, {}) /\ ParsesVariable(variables[i].source)
        /\ variables[i].name = step.variables[i].name
        /\ ParsedVariable(variables[i]) = variables[i]
        /\ variables[i].source.kind = step.variables[i].source.kind
        /\ step.variables[i].source.kind # "environment" =>
             Restates(<<SecretUse(variables[i].source)>>, <<SecretUse(step.variables[i].source)>>)
  BY <1>1, <1>2, <1>4, VariableAgain
<1>7. Array(variables) /\ DOMAIN variables = 1..n /\ variables = [i \in 1..n |-> variables[i]]
  <2>1. variables = [i \in 1..n |-> variables[i]]
    BY <1>4
  <2> QED
    BY <1>2, <2>1, ArrayOf
<1>8. /\ DOMAIN parsed = DOMAIN step /\ parsed.variables = variables
      /\ parsed.kind = step.kind /\ parsed.id = step.id
      /\ parsed.templateId = step.templateId
      /\ parsed.renderedPromptId = step.renderedPromptId
      /\ parsed.retention = step.retention
      /\ parsed = [field \in DOMAIN step |-> parsed[field]]
  BY <1>1, <1>3 DEF Object
<1>9. Names(variables) = Names(step.variables)
  BY <1>2, <1>6, <1>7 DEF Names
<1>10. ParsedStep(parsed) = parsed
  <2>1. [i \in DOMAIN variables |-> ParsedVariable(variables[i])] = variables
    BY <1>6, <1>7
  <2>2. ParsedStep(parsed) = [parsed EXCEPT !.variables = variables]
    BY <1>5, <1>8, <2>1
  <2> QED
    BY <1>8, <2>2
<1>11. ParsesPromptStep(parsed)
  BY <1>1, <1>2, <1>6, <1>7, <1>8, <1>9 DEF ParsesPromptStep, Object
<1>12. ParsesStep(parsed)
  BY <1>1, <1>8, <1>11 DEF ParsesStep
<1>13. Restates(StepUses(parsed), StepUses(step))
  <2> DEFINE after == [i \in 1..n |-> IF variables[i].source.kind = "environment" THEN <<>>
                                      ELSE <<SecretUse(variables[i].source)>>]
             former == [i \in 1..n |->
                          IF step.variables[i].source.kind = "environment" THEN <<>>
                          ELSE <<SecretUse(step.variables[i].source)>>]
  <2>1. /\ StepUses(parsed) = FlattenSeq(after) /\ StepUses(step) = FlattenSeq(former)
    BY <1>1, <1>2, <1>7, <1>8 DEF StepUses
  <2>2. \A i \in 1..n : Restates(after[i], former[i])
    BY <1>6, NothingRestates
  <2>3. /\ DOMAIN after = 1..n /\ DOMAIN former = 1..n
        /\ after = [i \in 1..n |-> after[i]] /\ former = [i \in 1..n |-> former[i]]
    OBVIOUS
  <2> HIDE DEF after, former
  <2>4. Restates(FlattenSeq(after), FlattenSeq(former))
    BY <1>2, <2>2, <2>3, FlattenRestates
  <2> QED
    BY <2>1, <2>4
<1> QED
  BY <1>8, <1>9, <1>10, <1>11, <1>12, <1>13 DEF StepAgain, PromptParts, parsed

LEMMA InstallAgain ==
  ASSUME NEW step, ParsesStep(step), ParsesInstallUserSecret(step)
  PROVE  StepAgain(step)
<1> DEFINE parsed == ParsedStep(step)
           fields == {"id", "kind", "destination"}
           id == SecretUse(step).id
<1>1. /\ step.kind = "install-user-secret" /\ ParsesSecretIn(step, fields)
      /\ step.destination \in RelativePath /\ ParsesIdentifier(step.id)
  BY DEF ParsesInstallUserSecret, ParsesStep
<1>2. parsed = [id |-> step.id, kind |-> step.kind, secretId |-> id,
                destination |-> step.destination]
  BY <1>1 DEF ParsedStep
<1>3. "secret" \notin fields /\ "secretId" \notin fields
  OBVIOUS
<1> HIDE DEF id, parsed
<1>4. /\ DOMAIN parsed = {"id", "kind", "secretId", "destination"}
      /\ parsed.id = step.id /\ parsed.kind = "install-user-secret" /\ parsed.secretId = id
      /\ parsed.destination = step.destination
  BY <1>1, <1>2
<1>5. Object(parsed, fields \cup {"secretId"}, {})
  BY <1>4 DEF Object
<1> HIDE DEF fields
<1>6. /\ SecretUse(step) \in AnyUse /\ ParsesSecretIn(parsed, fields)
      /\ SecretUse(parsed) = Stripped(SecretUse(step)) /\ SecretUse(parsed).id = id
  BY <1>1, <1>3, <1>4, <1>5, SecretAgain DEF id
<1>7. ParsedStep(parsed) = parsed
  BY <1>1, <1>2, <1>4, <1>6 DEF ParsedStep
<1>8. ParsesInstallUserSecret(parsed)
  BY <1>1, <1>4, <1>6 DEF ParsesInstallUserSecret, fields
<1>9. ParsesStep(parsed)
  BY <1>1, <1>4, <1>8 DEF ParsesStep
<1>10. Restates(StepUses(parsed), StepUses(step))
  <2>1. StepUses(parsed) = <<SecretUse(parsed)>> /\ StepUses(step) = <<SecretUse(step)>>
    BY <1>1, <1>4 DEF StepUses
  <2> DEFINE use == SecretUse(step)
  <2>2. use \in AnyUse /\ Stripped(use) \in AnyUse
    BY <1>6, UseFields DEF Stripped, AnyUse
  <2>3. SecretUse(parsed) = Stripped(use)
    BY <1>6
  <2> HIDE DEF use
  <2>4. Restates(<<Stripped(use)>>, <<use>>)
    BY <2>2 DEF Restates, Range
  <2> QED
    BY <2>1, <2>3, <2>4 DEF use
<1> QED
  BY <1>1, <1>4, <1>7, <1>9, <1>10 DEF StepAgain, parsed

LEMMA EveryStepAgain ==
  ASSUME NoArray, NEW step, ParsesStep(step)
  PROVE  StepAgain(step) /\ (step.kind = "prompt" => PromptParts(step))
         /\ (step.kind = "provider" => ParsedStep(step) = step)
<1>1. CASE ParsesEnvironment(step) \/ ParsesProviderStep(step)
  BY <1>1, OtherStepAgain DEF ParsesEnvironment, ParsesProviderStep
<1>2. CASE ParsesAutomatic(step) \/ ParsesFireAndForget(step)
  BY <1>2, CommandStepAgain DEF ParsesAutomatic, ParsesFireAndForget
<1>3. CASE ParsesManual(step)
  BY <1>3, ManualAgain DEF ParsesManual
<1>4. CASE ParsesPromptStep(step)
  BY <1>4, PromptStepAgain DEF ParsesPromptStep
<1>5. CASE ParsesInstallUserSecret(step)
  BY <1>5, InstallAgain DEF ParsesInstallUserSecret
<1> QED
  BY <1>1, <1>2, <1>3, <1>4, <1>5 DEF ParsesStep

AccountUses(account) ==
  IF Has(account, "initialPassword")
  THEN <<Use("secret", "secretId", account.initialPassword)>> ELSE <<>>

LEMMA AccountAgain ==
  ASSUME NEW account, ParsesAccount(account)
  PROVE  /\ ParsesAccount(ParsedAccount(account))
         /\ ParsedAccount(ParsedAccount(account)) = ParsedAccount(account)
         /\ Restates(AccountUses(ParsedAccount(account)), AccountUses(account))
<1> DEFINE parsed == ParsedAccount(account)
           named == Named("secret", "secretId", account.initialPassword)
<1>1. /\ Object(account, {"username"}, {"initialPassword", "unattendedSudo"})
      /\ account.username \in Username
      /\ Has(account, "initialPassword") =>
           ParsesUse(account.initialPassword, "secret", "secretId")
      /\ Has(account, "unattendedSudo") => account.unattendedSudo \in BOOLEAN
  BY DEF ParsesAccount
<1>2. /\ DOMAIN parsed = DOMAIN account
      /\ \A field \in DOMAIN account :
           parsed[field] = IF field = "initialPassword" THEN named ELSE account[field]
      /\ parsed = [field \in DOMAIN account |-> parsed[field]]
  BY DEF ParsedAccount
<1>3. ParsedAccount(parsed) =
        [field \in DOMAIN parsed |->
           IF field = "initialPassword" THEN Named("secret", "secretId", parsed[field])
           ELSE parsed[field]]
  BY DEF ParsedAccount
<1> HIDE DEF parsed, named
<1>4. /\ parsed.username = account.username
      /\ Has(parsed, "initialPassword") <=> Has(account, "initialPassword")
      /\ Has(parsed, "unattendedSudo") <=> Has(account, "unattendedSudo")
      /\ Has(account, "initialPassword") => parsed.initialPassword = named
      /\ Has(account, "unattendedSudo") => parsed.unattendedSudo = account.unattendedSudo
  BY <1>1, <1>2 DEF Object, Has
<1>5. CASE Has(account, "initialPassword")
  <2>1. /\ ParsesUse(named, "secret", "secretId")
        /\ Named("secret", "secretId", named) = named
        /\ Restates(<<Use("secret", "secretId", named)>>,
                    <<Use("secret", "secretId", account.initialPassword)>>)
    BY <1>1, <1>5, NamedAgain, OneRestates DEF Kinds, IdFields, named
  <2>2. ParsedAccount(parsed) = parsed
    <3>1. \A field \in DOMAIN parsed :
            (IF field = "initialPassword" THEN Named("secret", "secretId", parsed[field])
             ELSE parsed[field]) = parsed[field]
      BY <1>4, <1>5, <2>1
    <3> QED
      BY <1>2, <1>3, <3>1
  <2>3. ParsesAccount(parsed)
    BY <1>1, <1>2, <1>4, <1>5, <2>1 DEF ParsesAccount, Object
  <2>4. Restates(AccountUses(parsed), AccountUses(account))
    BY <1>4, <1>5, <2>1 DEF AccountUses
  <2> QED
    BY <2>2, <2>3, <2>4 DEF parsed
<1>6. CASE ~Has(account, "initialPassword")
  <2>1. ParsedAccount(parsed) = parsed
    <3>1. \A field \in DOMAIN parsed : field # "initialPassword"
      BY <1>2, <1>6 DEF Has
    <3> QED
      BY <1>2, <1>3, <3>1
  <2>2. ParsesAccount(parsed)
    BY <1>1, <1>2, <1>4, <1>6 DEF ParsesAccount, Object
  <2>3. Restates(AccountUses(parsed), AccountUses(account))
    BY <1>4, <1>6, NothingRestates DEF AccountUses
  <2> QED
    BY <2>1, <2>2, <2>3 DEF parsed
<1> QED
  BY <1>5, <1>6

WifiUses(network) ==
  IF Has(network, "wifi") THEN <<Use("secret", "secretId", network.wifi.passphrase)>> ELSE <<>>

LEMMA NetworkAgain ==
  ASSUME NEW network, ParsesNetwork(network)
  PROVE  /\ ParsesNetwork(ParsedNetwork(network))
         /\ ParsedNetwork(ParsedNetwork(network)) = ParsedNetwork(network)
         /\ Restates(WifiUses(ParsedNetwork(network)), WifiUses(network))
<1> DEFINE parsed == ParsedNetwork(network)
           named == Named("secret", "secretId", network.wifi.passphrase)
<1>1. CASE ~Has(network, "wifi")
  <2>1. parsed = network
    BY <1>1 DEF ParsedNetwork
  <2>2. WifiUses(network) = <<>>
    BY <1>1 DEF WifiUses
  <2> QED
    BY <2>1, <2>2, NothingRestates
<1>2. CASE Has(network, "wifi")
  <2>1. /\ Object(network, {"hostname"}, {"wifi"}) /\ ParsesString(network.hostname)
        /\ Object(network.wifi, {"ssid", "passphrase"}, {}) /\ ParsesString(network.wifi.ssid)
        /\ ParsesUse(network.wifi.passphrase, "secret", "secretId")
    BY <1>2 DEF ParsesNetwork
  <2>2. parsed = [network EXCEPT !.wifi.passphrase = named]
    BY <1>2 DEF ParsedNetwork
  <2>3. /\ ParsesUse(named, "secret", "secretId")
        /\ Named("secret", "secretId", named) = named
        /\ Restates(<<Use("secret", "secretId", named)>>,
                    <<Use("secret", "secretId", network.wifi.passphrase)>>)
    BY <2>1, NamedAgain, OneRestates DEF Kinds, IdFields
  <2> DEFINE wifi == [network.wifi EXCEPT !.passphrase = named]
  <2> HIDE DEF named
  <2>4. /\ DOMAIN wifi = {"ssid", "passphrase"} /\ wifi.ssid = network.wifi.ssid
        /\ wifi.passphrase = named /\ wifi = [field \in DOMAIN wifi |-> wifi[field]]
    BY <2>1 DEF Object
  <2>5. parsed = [network EXCEPT !.wifi = wifi]
    BY <2>2
  <2> HIDE DEF wifi, parsed
  <2>6. /\ DOMAIN parsed = DOMAIN network /\ parsed.hostname = network.hostname
        /\ parsed.wifi = wifi /\ Has(parsed, "wifi")
        /\ parsed = [field \in DOMAIN parsed |-> parsed[field]]
    BY <1>2, <2>1, <2>5 DEF Object, Has
  <2>7. ParsesNetwork(parsed)
    BY <2>1, <2>3, <2>4, <2>6 DEF ParsesNetwork, Object
  <2>8. ParsedNetwork(parsed) = parsed
    <3>1. ParsedNetwork(parsed) =
            [parsed EXCEPT !.wifi.passphrase = Named("secret", "secretId", named)]
      BY <2>4, <2>6 DEF ParsedNetwork
    <3>2. [wifi EXCEPT !.passphrase = named] = wifi
      BY <2>4
    <3> QED
      BY <2>3, <2>6, <3>1, <3>2
  <2>9. /\ WifiUses(parsed) = <<Use("secret", "secretId", named)>>
        /\ WifiUses(network) = <<Use("secret", "secretId", network.wifi.passphrase)>>
    BY <1>2, <2>4, <2>6 DEF WifiUses
  <2> QED
    BY <2>3, <2>7, <2>8, <2>9 DEF parsed
<1> QED
  BY <1>1, <1>2

-----------------------------------------------------------------------------
(* The definition as a whole: the fields of what the parser makes of it.   *)
DefinitionFields ==
  {"schemaVersion", "definitionUrl", "agent", "operatingSystem", "account", "assets", "prompts",
   "scripts", "secrets", "providers", "steps"}

LEMMA JoinedFields ==
  ASSUME NEW first, NEW second
  PROVE  /\ DOMAIN Joined(first, second) = DOMAIN first \cup DOMAIN second
         /\ \A field \in DOMAIN first : Joined(first, second)[field] = first[field]
         /\ \A field \in DOMAIN second \ DOMAIN first :
              Joined(first, second)[field] = second[field]
         /\ Joined(first, second) = [field \in DOMAIN Joined(first, second) |->
                                       Joined(first, second)[field]]
BY DEF Joined, Has

LEMMA ParsedFields ==
  ASSUME NEW input
  PROVE  /\ DOMAIN Parsed(input) =
              DefinitionFields \cup (IF Has(input, "network") THEN {"network"} ELSE {})
         /\ Parsed(input) = [field \in DOMAIN Parsed(input) |-> Parsed(input)[field]]
         /\ Parsed(input).schemaVersion = 1
         /\ Parsed(input).definitionUrl = input.definitionUrl
         /\ Parsed(input).agent = input.agent
         /\ Parsed(input).operatingSystem = input.operatingSystem
         /\ Parsed(input).account = ParsedAccount(input.account)
         /\ Parsed(input).assets = [i \in DOMAIN Listed(input, "assets") |->
                                      ParsedResource(input.assets[i])]
         /\ Parsed(input).prompts = [i \in DOMAIN Listed(input, "prompts") |->
                                       ParsedResource(input.prompts[i])]
         /\ Parsed(input).scripts = Registry("script", Uses(input))
         /\ Parsed(input).secrets = Registry("secret", Uses(input))
         /\ Parsed(input).providers = [i \in DOMAIN Listed(input, "providers") |->
                                         ParsedProvider(Listed(input, "providers")[i])]
         /\ Parsed(input).steps = [i \in DOMAIN input.steps |-> ParsedStep(input.steps[i])]
         /\ Has(input, "network") => Parsed(input).network = ParsedNetwork(input.network)
<1> DEFINE account == ParsedAccount(input.account)
           assets == [i \in DOMAIN Listed(input, "assets") |-> ParsedResource(input.assets[i])]
           prompts == [i \in DOMAIN Listed(input, "prompts") |-> ParsedResource(input.prompts[i])]
           scripts == Registry("script", Uses(input))
           secrets == Registry("secret", Uses(input))
           providers == [i \in DOMAIN Listed(input, "providers") |->
                           ParsedProvider(Listed(input, "providers")[i])]
           steps == [i \in DOMAIN input.steps |-> ParsedStep(input.steps[i])]
           base == [schemaVersion |-> 1, definitionUrl |-> input.definitionUrl,
                    agent |-> input.agent, operatingSystem |-> input.operatingSystem,
                    account |-> account, assets |-> assets, prompts |-> prompts,
                    scripts |-> scripts, secrets |-> secrets, providers |-> providers,
                    steps |-> steps]
           rest == IF Has(input, "network") THEN [network |-> ParsedNetwork(input.network)]
                   ELSE <<>>
<1>1. Parsed(input) = Joined(base, rest)
  BY DEF Parsed, ParsedProvider
<1> HIDE DEF account, assets, prompts, scripts, secrets, providers, steps
<1>2. /\ DOMAIN base = DefinitionFields /\ base.schemaVersion = 1
      /\ base.definitionUrl = input.definitionUrl /\ base.agent = input.agent
      /\ base.operatingSystem = input.operatingSystem /\ base.account = account
      /\ base.assets = assets /\ base.prompts = prompts /\ base.scripts = scripts
      /\ base.secrets = secrets /\ base.providers = providers /\ base.steps = steps
  BY DEF DefinitionFields
<1>3. /\ DOMAIN rest = IF Has(input, "network") THEN {"network"} ELSE {}
      /\ Has(input, "network") => rest.network = ParsedNetwork(input.network)
  OBVIOUS
<1> HIDE DEF base, rest
<1>4. /\ DOMAIN Joined(base, rest) = DOMAIN base \cup DOMAIN rest
      /\ \A field \in DefinitionFields : Joined(base, rest)[field] = base[field]
      /\ Has(input, "network") => Joined(base, rest).network = rest.network
      /\ Joined(base, rest) = [field \in DOMAIN Joined(base, rest) |-> Joined(base, rest)[field]]
  <2>1. "network" \notin DefinitionFields
    BY DEF DefinitionFields
  <2>2. /\ DOMAIN Joined(base, rest) = DOMAIN base \cup DOMAIN rest
        /\ \A field \in DOMAIN base : Joined(base, rest)[field] = base[field]
        /\ \A field \in DOMAIN rest \ DOMAIN base : Joined(base, rest)[field] = rest[field]
        /\ Joined(base, rest) = [field \in DOMAIN Joined(base, rest) |->
                                   Joined(base, rest)[field]]
    BY JoinedFields
  <2> DEFINE joined == Joined(base, rest)
  <2> HIDE DEF joined
  <2>3. Has(input, "network") => "network" \in DOMAIN rest \ DOMAIN base
    BY <1>2, <1>3, <2>1
  <2> QED
    BY <1>2, <2>2, <2>3
<1>5. /\ Parsed(input).schemaVersion = 1
      /\ Parsed(input).definitionUrl = input.definitionUrl /\ Parsed(input).agent = input.agent
      /\ Parsed(input).operatingSystem = input.operatingSystem /\ Parsed(input).account = account
      /\ Parsed(input).assets = assets /\ Parsed(input).prompts = prompts
      /\ Parsed(input).scripts = scripts /\ Parsed(input).secrets = secrets
      /\ Parsed(input).providers = providers /\ Parsed(input).steps = steps
  BY <1>1, <1>2, <1>4 DEF DefinitionFields
<1> QED
  BY <1>1, <1>2, <1>3, <1>4, <1>5
     DEF account, assets, prompts, scripts, secrets, providers, steps

LEMMA ListedFields ==
  ASSUME NEW input, NEW field, Array(Listed(input, field))
  PROVE  /\ Len(Listed(input, field)) \in Nat
         /\ DOMAIN Listed(input, field) = 1..Len(Listed(input, field))
         /\ \A i \in 1..Len(Listed(input, field)) :
              /\ Has(input, field) /\ Listed(input, field) = input[field]
              /\ Listed(input, field)[i] = input[field][i]
<1>1. CASE Has(input, field)
  BY <1>1, ArrayFields DEF Listed
<1>2. CASE ~Has(input, field)
  <2>1. Listed(input, field) = <<>>
    BY <1>2 DEF Listed
  <2>2. Len(<<>>) = 0 /\ DOMAIN <<>> = 1..0
    OBVIOUS
  <2> QED
    BY <2>1, <2>2
<1> QED
  BY <1>1, <1>2

LEMMA BodyAgain ==
  ASSUME NoArray, NEW input, ParsesParts(input)
  PROVE  Restates(BodyUses(Parsed(input)), BodyUses(input))
<1> DEFINE parsed == Parsed(input)
           providers == Listed(input, "providers")
           n == Len(providers)
           m == Len(input.steps)
<1>1. /\ n \in Nat /\ DOMAIN providers = 1..n
      /\ \A i \in 1..n : input.providers[i] = providers[i] /\ ParsesProvider(providers[i])
  <2>1. Array(providers)
    BY DEF ParsesParts
  <2> QED
    BY <2>1, ListedFields DEF ParsesParts
<1>2. /\ m \in Nat /\ DOMAIN input.steps = 1..m
      /\ \A i \in 1..m : ParsesStep(input.steps[i])
  <2>1. Array(Listed(input, "steps")) /\ Has(input, "steps")
    BY DEF ParsesParts, Object, Has
  <2>2. Listed(input, "steps") = input.steps
    BY <2>1 DEF Listed
  <2> QED
    BY <2>1, <2>2, ArrayFields DEF ParsesParts
<1>3. /\ Has(parsed, "providers") /\ parsed.account = ParsedAccount(input.account)
      /\ parsed.providers = [i \in 1..n |-> ParsedProvider(providers[i])]
      /\ parsed.steps = [i \in 1..m |-> ParsedStep(input.steps[i])]
  <2>1. /\ DOMAIN parsed = DefinitionFields \cup (IF Has(input, "network") THEN {"network"} ELSE {})
        /\ parsed.account = ParsedAccount(input.account)
        /\ parsed.providers = [i \in DOMAIN providers |-> ParsedProvider(providers[i])]
        /\ parsed.steps = [i \in DOMAIN input.steps |-> ParsedStep(input.steps[i])]
    BY ParsedFields
  <2>2. Has(parsed, "providers")
    BY <2>1 DEF Has, DefinitionFields
  <2> HIDE DEF parsed, providers, n, m
  <2> QED
    BY <1>1, <1>2, <2>1, <2>2
<1> HIDE DEF parsed, providers, n, m
<1>4. /\ Listed(parsed, "providers") = parsed.providers /\ Listed(input, "providers") = providers
  BY <1>3 DEF Listed, providers
<1> DEFINE commandsAfter == [i \in 1..n |-> CommandUses(parsed.providers[i].command)]
           commands == [i \in 1..n |-> CommandUses(providers[i].command)]
           stepsAfter == [i \in 1..m |-> StepUses(parsed.steps[i])]
           steps == [i \in 1..m |-> StepUses(input.steps[i])]
<1>5. BodyUses(parsed) =
        (AccountUses(parsed.account) \o FlattenSeq(commandsAfter)) \o FlattenSeq(stepsAfter)
  <2>1. DOMAIN Listed(parsed, "providers") = 1..n /\ DOMAIN parsed.steps = 1..m
    BY <1>3, <1>4
  <2> QED
    BY <2>1 DEF BodyUses, AccountUses
<1>6. BodyUses(input) =
        (AccountUses(input.account) \o FlattenSeq(commands)) \o FlattenSeq(steps)
  <2>1. [i \in DOMAIN Listed(input, "providers") |-> CommandUses(input.providers[i].command)]
          = commands
    BY <1>1, <1>4
  <2>2. [i \in DOMAIN input.steps |-> StepUses(input.steps[i])] = steps
    BY <1>2
  <2> QED
    BY <2>1, <2>2 DEF BodyUses, AccountUses
<1>7. Restates(AccountUses(parsed.account), AccountUses(input.account))
  <2>1. ParsesAccount(input.account)
    BY DEF ParsesParts
  <2> QED
    BY <1>3, <2>1, AccountAgain
<1>8. Restates(FlattenSeq(commandsAfter), FlattenSeq(commands))
  <2>1. \A i \in 1..n : Restates(commandsAfter[i], commands[i])
    <3> TAKE i \in 1..n
    <3>1. ParsesProvider(providers[i]) /\ parsed.providers[i] = ParsedProvider(providers[i])
      BY <1>1, <1>3
    <3>2. Restates(CommandUses(ParsedProvider(providers[i]).command),
                   CommandUses(providers[i].command))
      BY <3>1, ProviderAgain
    <3> QED
      BY <3>1, <3>2
  <2>2. /\ DOMAIN commandsAfter = 1..n /\ DOMAIN commands = 1..n
        /\ commandsAfter = [i \in 1..n |-> commandsAfter[i]]
        /\ commands = [i \in 1..n |-> commands[i]]
    OBVIOUS
  <2> HIDE DEF commandsAfter, commands
  <2> QED
    BY <1>1, <2>1, <2>2, FlattenRestates
<1>9. Restates(FlattenSeq(stepsAfter), FlattenSeq(steps))
  <2>1. \A i \in 1..m : Restates(stepsAfter[i], steps[i])
    <3> TAKE i \in 1..m
    <3>1. ParsesStep(input.steps[i]) /\ parsed.steps[i] = ParsedStep(input.steps[i])
      BY <1>2, <1>3
    <3>2. StepAgain(input.steps[i])
      BY <3>1, EveryStepAgain
    <3> QED
      BY <3>1, <3>2 DEF StepAgain
  <2>2. /\ DOMAIN stepsAfter = 1..m /\ DOMAIN steps = 1..m
        /\ stepsAfter = [i \in 1..m |-> stepsAfter[i]] /\ steps = [i \in 1..m |-> steps[i]]
    OBVIOUS
  <2> HIDE DEF stepsAfter, steps
  <2> QED
    BY <1>2, <2>1, <2>2, FlattenRestates
<1> HIDE DEF commandsAfter, commands, stepsAfter, steps
<1> QED
  BY <1>5, <1>6, <1>7, <1>8, <1>9, ConcatRestates DEF parsed

LEMMA NetworkUsesAgain ==
  ASSUME NEW input, Has(input, "network") => ParsesNetwork(input.network)
  PROVE  Restates(NetworkUses(Parsed(input)), NetworkUses(input))
<1> DEFINE parsed == Parsed(input)
<1>1. /\ Has(parsed, "network") <=> Has(input, "network")
      /\ Has(input, "network") => parsed.network = ParsedNetwork(input.network)
  <2>1. /\ DOMAIN parsed = DefinitionFields \cup (IF Has(input, "network") THEN {"network"} ELSE {})
        /\ Has(input, "network") => parsed.network = ParsedNetwork(input.network)
    BY ParsedFields
  <2> HIDE DEF parsed
  <2> QED
    BY <2>1 DEF Has, DefinitionFields
<1> HIDE DEF parsed
<1>2. CASE Has(input, "network")
  <2>1. NetworkUses(parsed) = WifiUses(parsed.network)
        /\ NetworkUses(input) = WifiUses(input.network)
    BY <1>1, <1>2 DEF NetworkUses, WifiUses
  <2> QED
    BY <1>1, <1>2, <2>1, NetworkAgain DEF parsed
<1>3. CASE ~Has(input, "network")
  <2>1. NetworkUses(parsed) = <<>> /\ NetworkUses(input) = <<>>
    BY <1>1, <1>3 DEF NetworkUses
  <2> QED
    BY <2>1, NothingRestates DEF parsed
<1> QED
  BY <1>2, <1>3

(* Every use in what the schema accepts names what the registry declares.  *)
LEMMA UsesTyped ==
  ASSUME NoArray, NEW input, ParsesParts(input),
         Has(input, "network") => ParsesNetwork(input.network)
  PROVE  /\ ListedUses(input) \in Seq(AnyUse) /\ BodyUses(input) \in Seq(AnyUse)
         /\ NetworkUses(input) \in Seq(AnyUse)
         /\ EarlyUses(input) \in Seq(AnyUse) /\ Uses(input) \in Seq(AnyUse)
         /\ Range(Uses(input)) =
              Range(ListedUses(input)) \cup Range(BodyUses(input)) \cup Range(NetworkUses(input))
<1>1. BodyUses(input) \in Seq(AnyUse) /\ NetworkUses(input) \in Seq(AnyUse)
  BY BodyAgain, NetworkUsesAgain DEF Restates
<1>2. ListedUses(input) \in Seq(AnyUse)
  <2> DEFINE Each(field, kind, idField) ==
               [i \in DOMAIN Listed(input, field) |-> Use(kind, idField, Listed(input, field)[i])]
  <2>1. ASSUME NEW field \in {"scripts", "secrets"}, NEW kind \in Kinds, NEW idField \in IdFields,
               Array(Listed(input, field)),
               \A i \in DOMAIN Listed(input, field) : ParsesReference(input[field][i], kind)
        PROVE  Each(field, kind, idField) \in Seq(AnyUse)
    <3> DEFINE list == Listed(input, field)
               n == Len(list)
    <3>1. n \in Nat /\ DOMAIN list = 1..n /\ \A i \in 1..n : list[i] = input[field][i]
      BY <2>1, ListedFields
    <3>2. ASSUME NEW i \in 1..n
          PROVE  Use(kind, idField, list[i]) \in AnyUse
      <4>1. ParsesUse(list[i], kind, idField)
        BY <2>1, <3>1 DEF ParsesUse
      <4> QED
        BY <4>1, UseTyped
    <3>3. [i \in 1..n |-> Use(kind, idField, list[i])] \in Seq(AnyUse)
      <4> HIDE DEF list, n
      <4>1. [i \in 1..n |-> Use(kind, idField, list[i])] \in [1..n -> AnyUse]
        BY <3>2
      <4> QED
        BY <3>1, <4>1, SeqDef
    <3> QED
      BY <3>1, <3>3
  <2>2. Each("scripts", "script", "scriptId") \in Seq(AnyUse)
    BY <2>1 DEF ParsesParts, Kinds, IdFields
  <2>3. Each("secrets", "secret", "secretId") \in Seq(AnyUse)
    BY <2>1 DEF ParsesParts, Kinds, IdFields
  <2>4. ListedUses(input) =
          Each("scripts", "script", "scriptId") \o Each("secrets", "secret", "secretId")
    BY DEF ListedUses
  <2> HIDE DEF Each
  <2> QED
    BY <2>2, <2>3, <2>4, ConcatProperties
<1> DEFINE listed == ListedUses(input)
           body == BodyUses(input)
           network == NetworkUses(input)
<1>3. EarlyUses(input) = listed \o body /\ Uses(input) = (listed \o body) \o network
  BY DEF EarlyUses, Uses
<1>4. listed \in Seq(AnyUse) /\ body \in Seq(AnyUse) /\ network \in Seq(AnyUse)
  BY <1>1, <1>2
<1> HIDE DEF listed, body, network
<1>5. /\ listed \o body \in Seq(AnyUse) /\ Range(listed \o body) = Range(listed) \cup Range(body)
  BY <1>4, ConcatProperties, RangeConcatenation
<1>6. /\ (listed \o body) \o network \in Seq(AnyUse)
      /\ Range((listed \o body) \o network) = Range(listed \o body) \cup Range(network)
  <2> DEFINE early == listed \o body
  <2>1. early \in Seq(AnyUse)
    BY <1>5
  <2> HIDE DEF early
  <2>2. early \o network \in Seq(AnyUse)
    BY <1>4, <2>1, ConcatProperties
  <2>3. Range(early \o network) = Range(early) \cup Range(network)
    BY <1>4, <2>1, RangeConcatenation
  <2> QED
    BY <2>2, <2>3 DEF early
<1> QED
  BY <1>3, <1>4, <1>5, <1>6 DEF listed, body, network

LEMMA DeclaredUses ==
  ASSUME NEW uses \in Seq(AnyUse), Registers(uses)
  PROVE  \A use \in Range(uses) :
           use.kind \in Kinds /\ use.id \in Range(Ids(Registry(use.kind, uses)))
<1> TAKE use \in Range(uses)
<1>1. /\ Len(uses) \in Nat /\ DOMAIN uses = 1..Len(uses)
      /\ \A i \in DOMAIN uses : uses[i] \in AnyUse
  BY LenProperties, ElementOfSeq
<1>2. PICK i \in DOMAIN uses : use = uses[i]
  BY DEF Range
<1>3. use.kind \in Kinds
  BY <1>1, <1>2, UseFields
<1>4. CASE Has(use, "url")
  BY <1>3, <1>4, RegistryRange DEF Declares
<1>5. CASE ~Has(use, "url")
  <2>1. {uses[j].url : j \in {k \in 1..(i - 1) : /\ uses[k].kind = uses[i].kind
                                                  /\ uses[k].id = uses[i].id
                                                  /\ Has(uses[k], "url")}} # {}
    BY <1>2, <1>5 DEF Registers
  <2>2. PICK k \in 1..(i - 1) : /\ uses[k].kind = use.kind /\ uses[k].id = use.id
                                /\ Has(uses[k], "url")
    BY <1>2, <2>1
  <2>3. uses[k] \in Range(uses)
    BY <1>1, <2>2 DEF Range
  <2>4. Declares(uses[k], use.kind)
    BY <2>2 DEF Declares
  <2>5. uses[k].id \in Range(Ids(Registry(use.kind, uses)))
    BY <2>3, <2>4, RegistryRange
  <2> QED
    BY <1>3, <2>2, <2>5
<1> QED
  BY <1>4, <1>5

LEMMA UseOfLocal ==
  ASSUME NEW kind \in Kinds, NEW idField \in IdFields, NEW local \in Locals(kind)
  PROVE  /\ Use(kind, idField, local) = Declaration(kind, local)
         /\ Declaration(kind, local) \in AnyUse
         /\ ParsesReference(local, kind)
<1>1. PICK id \in Identifier, url \in Location : local = Local(kind, id, url)
  BY DEF Locals
<1>2. /\ DOMAIN local = {"kind", "id", "source"} /\ local.kind = kind /\ local.id = id
      /\ local.source = [kind |-> "local", url |-> url]
  BY <1>1, LocalFields
<1> DEFINE source == [kind |-> "local", url |-> url]
<1>3. DOMAIN source = {"kind", "url"} /\ source.kind = "local" /\ source.url = url
  OBVIOUS
<1> HIDE DEF source
<1>4. Url(source) = url /\ ParsesSource(source) /\ local.source = source
  BY <1>2, <1>3 DEF Url, Has, ParsesSource, Object, source
<1>5. idField \notin DOMAIN local
  BY <1>2 DEF IdFields
<1>6. Use(kind, idField, local) = Declaration(kind, local)
  BY <1>2, <1>3, <1>4, <1>5 DEF Use, Has, Declaration
<1>7. Declaration(kind, local) = [kind |-> kind, id |-> id, url |-> url]
  BY <1>2, <1>3, <1>4 DEF Declaration
<1> QED
  BY <1>2, <1>4, <1>6, <1>7 DEF AnyUse, ParsesReference, Object, ParsesIdentifier

LEMMA ListedDeclarations ==
  ASSUME NEW input, NEW scripts \in Seq(Locals("script")), NEW secrets \in Seq(Locals("secret")),
         Listed(input, "scripts") = scripts, Listed(input, "secrets") = secrets
  PROVE  /\ ListedUses(input) \in Seq(AnyUse)
         /\ Len(ListedUses(input)) = Len(scripts) + Len(secrets)
         /\ \A i \in 1..Len(scripts) :
              ListedUses(input)[i] = Declaration("script", scripts[i])
         /\ \A i \in 1..Len(secrets) :
              ListedUses(input)[Len(scripts) + i] = Declaration("secret", secrets[i])
<1> DEFINE A == Len(scripts)
           B == Len(secrets)
           first == [i \in 1..A |-> Declaration("script", scripts[i])]
           second == [i \in 1..B |-> Declaration("secret", secrets[i])]
<1>1. /\ A \in Nat /\ DOMAIN scripts = 1..A /\ \A i \in 1..A : scripts[i] \in Locals("script")
      /\ B \in Nat /\ DOMAIN secrets = 1..B /\ \A i \in 1..B : secrets[i] \in Locals("secret")
  BY LenProperties, ElementOfSeq
<1>2. \A i \in 1..A : /\ Use("script", "scriptId", scripts[i]) = Declaration("script", scripts[i])
                      /\ Declaration("script", scripts[i]) \in AnyUse
  BY <1>1, UseOfLocal DEF Kinds, IdFields
<1>3. \A i \in 1..B : /\ Use("secret", "secretId", secrets[i]) = Declaration("secret", secrets[i])
                      /\ Declaration("secret", secrets[i]) \in AnyUse
  BY <1>1, UseOfLocal DEF Kinds, IdFields
<1>4. ListedUses(input) = first \o second
  <2>1. [i \in DOMAIN Listed(input, "scripts") |->
           Use("script", "scriptId", Listed(input, "scripts")[i])] = first
    BY <1>1, <1>2
  <2>2. [i \in DOMAIN Listed(input, "secrets") |->
           Use("secret", "secretId", Listed(input, "secrets")[i])] = second
    BY <1>1, <1>3
  <2> HIDE DEF first, second
  <2> QED
    BY <2>1, <2>2 DEF ListedUses
<1>5. first \in Seq(AnyUse) /\ second \in Seq(AnyUse)
  <2>1. first \in [1..A -> AnyUse] /\ second \in [1..B -> AnyUse]
    BY <1>2, <1>3
  <2> HIDE DEF first, second, A, B
  <2>2. A \in Nat /\ B \in Nat
    BY <1>1
  <2>3. first \in Seq(AnyUse)
    BY <2>1, <2>2, SeqDef
  <2>4. second \in Seq(AnyUse)
    BY <2>1, <2>2, SeqDef
  <2> QED
    BY <2>3, <2>4
<1>6. Len(first) = A /\ Len(second) = B
  <2>1. DOMAIN first = 1..A /\ DOMAIN second = 1..B
    OBVIOUS
  <2> HIDE DEF first, second, A, B
  <2> QED
    BY <1>1, <1>5, <2>1, LenProperties
<1>7. \A i \in 1..A : first[i] = Declaration("script", scripts[i])
  OBVIOUS
<1>8. \A i \in 1..B : second[i] = Declaration("secret", secrets[i])
  OBVIOUS
<1> HIDE DEF first, second, A, B
<1>9. /\ first \o second \in Seq(AnyUse) /\ Len(first \o second) = A + B
      /\ \A i \in 1..(A + B) :
           (first \o second)[i] = IF i <= A THEN first[i] ELSE second[i - A]
  BY <1>5, <1>6, ConcatProperties
<1>10. \A i \in 1..B : (first \o second)[A + i] = second[i]
  <2> TAKE i \in 1..B
  <2>1. A + i \in 1..(A + B) /\ ~(A + i <= A) /\ (A + i) - A = i
    BY <1>1
  <2> QED
    BY <1>9, <2>1
<1>11. \A i \in 1..A : (first \o second)[i] = first[i]
  <2> TAKE i \in 1..A
  <2>1. i \in 1..(A + B) /\ i <= A
    BY <1>1
  <2> QED
    BY <1>9, <2>1
<1> QED
  BY <1>4, <1>7, <1>8, <1>9, <1>10, <1>11 DEF A, B

LEMMA JoinedUses ==
  ASSUME NEW first \in Seq(AnyUse), NEW second \in Seq(AnyUse)
  PROVE  /\ first \o second \in Seq(AnyUse)
         /\ Len(first \o second) = Len(first) + Len(second)
         /\ \A i \in 1..Len(first) + Len(second) :
              (first \o second)[i] = IF i <= Len(first) THEN first[i]
                                     ELSE second[i - Len(first)]
BY ConcatProperties

LEMMA CanonicalOf ==
  ASSUME NEW scripts \in Seq(Locals("script")), IsInjective(Ids(scripts)),
         NEW secrets \in Seq(Locals("secret")), IsInjective(Ids(secrets)),
         NEW listed \in Seq(AnyUse), Len(listed) = Len(scripts) + Len(secrets),
         \A i \in 1..Len(scripts) : listed[i] = Declaration("script", scripts[i]),
         \A i \in 1..Len(secrets) :
           listed[Len(scripts) + i] = Declaration("secret", secrets[i]),
         NEW rest \in Seq(AnyUse),
         \A use \in Range(rest) :
           /\ ~Has(use, "url")
           /\ use.id \in Range(Ids(IF use.kind = "script" THEN scripts ELSE secrets))
  PROVE  Canonical(listed \o rest, scripts, secrets)
<1> DEFINE A == Len(scripts)
           B == Len(secrets)
           C == Len(rest)
           uses == listed \o rest
<1>1. A \in Nat /\ B \in Nat /\ C \in Nat /\ Len(listed) = A + B /\ DOMAIN rest = 1..C
  BY LenProperties
<1>2. /\ uses \in Seq(AnyUse) /\ Len(uses) = (A + B) + C
      /\ \A i \in 1..((A + B) + C) :
           uses[i] = IF i <= A + B THEN listed[i] ELSE rest[i - (A + B)]
  <2>2. /\ listed \o rest \in Seq(AnyUse)
        /\ Len(listed \o rest) = Len(listed) + Len(rest)
        /\ \A i \in 1..Len(listed) + Len(rest) :
             (listed \o rest)[i] = IF i <= Len(listed) THEN listed[i] ELSE rest[i - Len(listed)]
    BY JoinedUses
  <2>3. Len(listed) = A + B /\ Len(rest) = C
    BY <1>1
  <2> HIDE DEF A, B, C
  <2> QED
    BY <2>2, <2>3
<1> HIDE DEF uses
<1>3. \A i \in 1..A : uses[i] = listed[i]
  <2> TAKE i \in 1..A
  <2>1. i \in 1..((A + B) + C) /\ i <= A + B
    BY <1>1
  <2> QED
    BY <1>2, <2>1
<1>4. \A i \in 1..B : uses[A + i] = listed[A + i]
  <2> TAKE i \in 1..B
  <2>1. A + i \in 1..((A + B) + C) /\ A + i <= A + B
    BY <1>1
  <2> QED
    BY <1>2, <2>1
<1>5. \A i \in 1..Len(uses) : i > A + B => uses[i] \in Range(rest)
  <2> SUFFICES ASSUME NEW i \in 1..((A + B) + C), i > A + B
               PROVE  uses[i] \in Range(rest)
    BY <1>2
  <2>1. i - (A + B) \in 1..C /\ ~(i <= A + B)
    BY <1>1
  <2>2. uses[i] = rest[i - (A + B)]
    BY <1>2, <2>1
  <2> QED
    BY <1>1, <2>1, <2>2 DEF Range
<1>6. A + B <= Len(uses)
  BY <1>1, <1>2
<1>7. Canonical(uses, scripts, secrets)
  BY <1>2, <1>3, <1>4, <1>5, <1>6 DEF Canonical
<1> QED
  BY <1>7 DEF uses

(* The uses of a parsed definition are canonical, so its registries are    *)
(* the scripts and secrets it has already.                                 *)
LEMMA ParsedCanonical ==
  ASSUME NoArray, NEW input, ParsesParts(input), Registers(Uses(input)),
         Has(input, "network") => ParsesNetwork(input.network)
  PROVE  /\ Canonical(Uses(Parsed(input)), Parsed(input).scripts, Parsed(input).secrets)
         /\ Canonical(EarlyUses(Parsed(input)), Parsed(input).scripts, Parsed(input).secrets)
<1> DEFINE parsed == Parsed(input)
           uses == Uses(input)
           scripts == Registry("script", uses)
           secrets == Registry("secret", uses)
           listed == ListedUses(parsed)
           body == BodyUses(parsed)
           network == NetworkUses(parsed)
<1>1. /\ uses \in Seq(AnyUse)
      /\ Range(BodyUses(input)) \subseteq Range(uses)
      /\ Range(NetworkUses(input)) \subseteq Range(uses)
  BY UsesTyped
<1>2. /\ parsed.scripts = scripts /\ parsed.secrets = secrets
      /\ Listed(parsed, "scripts") = scripts /\ Listed(parsed, "secrets") = secrets
  BY ParsedFields DEF Listed, Has, DefinitionFields
<1>3. Restates(body, BodyUses(input)) /\ Restates(network, NetworkUses(input))
  BY BodyAgain, NetworkUsesAgain
<1>4. \A use \in Range(uses) : use.kind \in Kinds /\ use.id \in Range(Ids(Registry(use.kind, uses)))
  <2> HIDE DEF uses
  <2> QED
    BY <1>1, DeclaredUses DEF uses
<1> HIDE DEF uses, parsed
<1>5. /\ scripts \in Seq(Locals("script")) /\ secrets \in Seq(Locals("secret"))
      /\ IsInjective(Ids(scripts)) /\ IsInjective(Ids(secrets))
  BY <1>1, RegistryRange, RegistryIds
<1>6. \A use \in Range(uses) :
        use.id \in Range(Ids(IF use.kind = "script" THEN scripts ELSE secrets))
  BY <1>4 DEF Kinds
<1> HIDE DEF scripts, secrets
<1>7. /\ listed \in Seq(AnyUse) /\ Len(listed) = Len(scripts) + Len(secrets)
      /\ \A i \in 1..Len(scripts) : listed[i] = Declaration("script", scripts[i])
      /\ \A i \in 1..Len(secrets) : listed[Len(scripts) + i] = Declaration("secret", secrets[i])
  BY <1>2, <1>5, ListedDeclarations
<1> HIDE DEF listed, body, network
<1> DEFINE Declared(use) == /\ ~Has(use, "url")
                          /\ use.id \in Range(Ids(IF use.kind = "script" THEN scripts ELSE secrets))
<1>8. \A use \in Range(uses) : Declared(Stripped(use))
  <2> TAKE use \in Range(uses)
  <2>1. /\ ~Has(Stripped(use), "url") /\ Stripped(use).kind = use.kind
        /\ Stripped(use).id = use.id
    BY DEF Stripped, Has
  <2> QED
    BY <2>1, <1>6
<1> HIDE DEF Declared
<1>9. /\ body \in Seq(AnyUse) /\ \A use \in Range(body) : Declared(use)
      /\ network \in Seq(AnyUse) /\ \A use \in Range(network) : Declared(use)
  BY <1>1, <1>3, <1>8 DEF Restates
<1>10. Canonical(listed \o body, scripts, secrets)
  BY <1>5, <1>7, <1>9, CanonicalOf DEF Declared
<1>11. Canonical(listed \o (body \o network), scripts, secrets)
  <2> DEFINE rest == body \o network
  <2>1. rest \in Seq(AnyUse) /\ Range(rest) = Range(body) \cup Range(network)
    BY <1>9, ConcatProperties, RangeConcatenation
  <2>2. \A use \in Range(rest) : Declared(use)
    BY <1>9, <2>1
  <2> HIDE DEF rest
  <2>3. Canonical(listed \o rest, scripts, secrets)
    BY <1>5, <1>7, <2>1, <2>2, CanonicalOf DEF Declared
  <2> QED
    BY <2>3 DEF rest
<1>12. (listed \o body) \o network = listed \o (body \o network)
  <2>1. listed \in Seq(AnyUse) /\ body \in Seq(AnyUse) /\ network \in Seq(AnyUse)
    BY <1>7, <1>9
  <2> QED
    BY <2>1, ConcatAssociative
<1>13. Uses(parsed) = (listed \o body) \o network /\ EarlyUses(parsed) = listed \o body
  BY DEF Uses, EarlyUses, listed, body, network
<1> QED
  BY <1>2, <1>10, <1>11, <1>12, <1>13 DEF parsed

LEMMA ListsParse ==
  ASSUME NEW input, ParsesParts(input)
  PROVE  /\ \A field \in {"scripts", "secrets", "assets", "prompts", "providers", "steps"} :
              /\ Len(Listed(input, field)) \in Nat
              /\ DOMAIN Listed(input, field) = 1..Len(Listed(input, field))
         /\ \A i \in DOMAIN Listed(input, "assets") :
              /\ input.assets[i] = Listed(input, "assets")[i]
              /\ ParsesAsset(Listed(input, "assets")[i])
         /\ \A i \in DOMAIN Listed(input, "prompts") :
              /\ input.prompts[i] = Listed(input, "prompts")[i]
              /\ ParsesPrompt(Listed(input, "prompts")[i])
         /\ \A i \in DOMAIN Listed(input, "providers") :
              /\ input.providers[i] = Listed(input, "providers")[i]
              /\ ParsesProvider(Listed(input, "providers")[i])
         /\ Listed(input, "steps") = input.steps
         /\ \A i \in DOMAIN input.steps : ParsesStep(input.steps[i])
<1>1. \A field \in {"scripts", "secrets", "assets", "prompts", "providers", "steps"} :
        /\ Len(Listed(input, field)) \in Nat
        /\ DOMAIN Listed(input, field) = 1..Len(Listed(input, field))
        /\ \A i \in DOMAIN Listed(input, field) : Listed(input, field)[i] = input[field][i]
  <2> TAKE field \in {"scripts", "secrets", "assets", "prompts", "providers", "steps"}
  <2>1. Array(Listed(input, field))
    BY DEF ParsesParts
  <2> QED
    BY <2>1, ListedFields
<1>2. \A i \in DOMAIN Listed(input, "assets") : ParsesAsset(input.assets[i])
  BY DEF ParsesParts
<1>3. \A i \in DOMAIN Listed(input, "prompts") : ParsesPrompt(input.prompts[i])
  BY DEF ParsesParts
<1>4. \A i \in DOMAIN Listed(input, "providers") : ParsesProvider(input.providers[i])
  BY DEF ParsesParts
<1>5. /\ Listed(input, "steps") = input.steps
      /\ \A i \in DOMAIN input.steps : ParsesStep(input.steps[i])
  BY DEF ParsesParts, Object, Listed, Has
<1> QED
  BY <1>1, <1>2, <1>3, <1>4, <1>5

(* Its lists, one after the other.                                         *)
AssetsAgain(list, again) ==
  /\ Array(again) /\ DOMAIN again = DOMAIN list /\ Ids(again) = Ids(list)
  /\ again = [i \in DOMAIN again |-> ParsedResource(again[i])]
  /\ \A i \in DOMAIN again : ParsesAsset(again[i])

LEMMA ParsedAssetsAgain ==
  ASSUME NoArray, NEW input, ParsesParts(input)
  PROVE  AssetsAgain(Listed(input, "assets"), Parsed(input).assets)
<1> DEFINE list == Listed(input, "assets")
           n == Len(list)
           again == Parsed(input).assets
<1>1. /\ n \in Nat /\ DOMAIN list = 1..n
      /\ \A i \in 1..n : input.assets[i] = list[i] /\ ParsesAsset(list[i])
  BY ListsParse
<1>2. again = [i \in 1..n |-> ParsedResource(list[i])]
  <2>1. again = [i \in DOMAIN list |-> ParsedResource(input.assets[i])]
    BY ParsedFields
  <2> HIDE DEF again, list
  <2> QED
    BY <1>1, <2>1
<1> HIDE DEF list, n, again
<1>3. \A i \in 1..n : /\ ParsesAsset(again[i]) /\ ParsedResource(again[i]) = again[i]
                      /\ again[i].id = list[i].id
  BY <1>1, <1>2, AssetAgain
<1>4. Array(again) /\ DOMAIN again = 1..n /\ again = [i \in 1..n |-> again[i]]
  <2>1. again = [i \in 1..n |-> again[i]]
    BY <1>2
  <2> QED
    BY <1>1, <2>1, ArrayOf
<1>5. Ids(again) = Ids(list)
  BY <1>1, <1>3, <1>4 DEF Ids
<1>6. again = [i \in DOMAIN again |-> ParsedResource(again[i])]
  BY <1>3, <1>4
<1> QED
  BY <1>1, <1>3, <1>4, <1>5, <1>6 DEF AssetsAgain, list, again

PromptsAgain(list, again) ==
  /\ Array(again) /\ DOMAIN again = DOMAIN list /\ Ids(again) = Ids(list)
  /\ again = [i \in DOMAIN again |-> ParsedResource(again[i])]
  /\ \A i \in DOMAIN again : /\ ParsesPrompt(again[i]) /\ again[i].id = list[i].id
                             /\ again[i].variables = list[i].variables

LEMMA ParsedPromptsAgain ==
  ASSUME NoArray, NEW input, ParsesParts(input)
  PROVE  PromptsAgain(Listed(input, "prompts"), Parsed(input).prompts)
<1> DEFINE list == Listed(input, "prompts")
           n == Len(list)
           again == Parsed(input).prompts
<1>1. /\ n \in Nat /\ DOMAIN list = 1..n
      /\ \A i \in 1..n : input.prompts[i] = list[i] /\ ParsesPrompt(list[i])
  BY ListsParse
<1>2. again = [i \in 1..n |-> ParsedResource(list[i])]
  <2>1. again = [i \in DOMAIN list |-> ParsedResource(input.prompts[i])]
    BY ParsedFields
  <2> HIDE DEF again, list
  <2> QED
    BY <1>1, <2>1
<1> HIDE DEF list, n, again
<1>3. \A i \in 1..n : /\ ParsesPrompt(again[i]) /\ ParsedResource(again[i]) = again[i]
                      /\ again[i].id = list[i].id /\ again[i].variables = list[i].variables
  BY <1>1, <1>2, PromptAgain
<1>4. Array(again) /\ DOMAIN again = 1..n /\ again = [i \in 1..n |-> again[i]]
  <2>1. again = [i \in 1..n |-> again[i]]
    BY <1>2
  <2> QED
    BY <1>1, <2>1, ArrayOf
<1>5. Ids(again) = Ids(list)
  BY <1>1, <1>3, <1>4 DEF Ids
<1>6. again = [i \in DOMAIN again |-> ParsedResource(again[i])]
  BY <1>3, <1>4
<1> QED
  BY <1>1, <1>3, <1>4, <1>5, <1>6 DEF PromptsAgain, list, again

ProvidersAgain(list, again) ==
  /\ Array(again) /\ DOMAIN again = DOMAIN list /\ Ids(again) = Ids(list)
  /\ again = [i \in DOMAIN again |-> ParsedProvider(again[i])]
  /\ \A i \in DOMAIN again : ParsesProvider(again[i])

LEMMA ParsedProvidersAgain ==
  ASSUME NoArray, NEW input, ParsesParts(input)
  PROVE  ProvidersAgain(Listed(input, "providers"), Parsed(input).providers)
<1> DEFINE list == Listed(input, "providers")
           n == Len(list)
           again == Parsed(input).providers
<1>1. /\ n \in Nat /\ DOMAIN list = 1..n /\ \A i \in 1..n : ParsesProvider(list[i])
  BY ListsParse
<1>2. again = [i \in 1..n |-> ParsedProvider(list[i])]
  <2>1. again = [i \in DOMAIN list |-> ParsedProvider(list[i])]
    BY ParsedFields
  <2> HIDE DEF again, list
  <2> QED
    BY <1>1, <2>1
<1> HIDE DEF list, n, again
<1>3. \A i \in 1..n : /\ ParsesProvider(again[i]) /\ ParsedProvider(again[i]) = again[i]
                      /\ again[i].id = list[i].id
  BY <1>1, <1>2, ProviderAgain
<1>4. Array(again) /\ DOMAIN again = 1..n /\ again = [i \in 1..n |-> again[i]]
  <2>1. again = [i \in 1..n |-> again[i]]
    BY <1>2
  <2> QED
    BY <1>1, <2>1, ArrayOf
<1>5. Ids(again) = Ids(list)
  BY <1>1, <1>3, <1>4 DEF Ids
<1>6. again = [i \in DOMAIN again |-> ParsedProvider(again[i])]
  BY <1>3, <1>4
<1> QED
  BY <1>1, <1>3, <1>4, <1>5, <1>6 DEF ProvidersAgain, list, again

StepsAgain(list, again) ==
  /\ Array(again) /\ DOMAIN again = DOMAIN list /\ Ids(again) = Ids(list)
  /\ again = [i \in DOMAIN again |-> ParsedStep(again[i])]
  /\ \A i \in DOMAIN again :
       /\ ParsesStep(again[i]) /\ again[i].kind = list[i].kind
       /\ list[i].kind = "prompt" =>
            /\ Names(again[i].variables) = Names(list[i].variables)
            /\ again[i].templateId = list[i].templateId
            /\ again[i].renderedPromptId = list[i].renderedPromptId
       /\ list[i].kind = "provider" => again[i] = list[i]

LEMMA ParsedStepsAgain ==
  ASSUME NoArray, NEW input, ParsesParts(input)
  PROVE  StepsAgain(input.steps, Parsed(input).steps)
<1> DEFINE list == input.steps
           n == Len(list)
           again == Parsed(input).steps
<1>1. /\ n \in Nat /\ DOMAIN list = 1..n /\ \A i \in 1..n : ParsesStep(list[i])
  BY ListsParse
<1>2. again = [i \in 1..n |-> ParsedStep(list[i])]
  <2>1. again = [i \in DOMAIN list |-> ParsedStep(list[i])]
    BY ParsedFields
  <2> HIDE DEF again, list
  <2> QED
    BY <1>1, <2>1
<1> HIDE DEF list, n, again
<1>3. ASSUME NEW i \in 1..n
      PROVE  /\ ParsesStep(again[i]) /\ ParsedStep(again[i]) = again[i]
             /\ again[i].id = list[i].id /\ again[i].kind = list[i].kind
             /\ list[i].kind = "prompt" =>
                  /\ Names(again[i].variables) = Names(list[i].variables)
                  /\ again[i].templateId = list[i].templateId
                  /\ again[i].renderedPromptId = list[i].renderedPromptId
             /\ list[i].kind = "provider" => again[i] = list[i]
  <2>1. again[i] = ParsedStep(list[i]) /\ ParsesStep(list[i])
    BY <1>1, <1>2
  <2>2. /\ StepAgain(list[i])
        /\ list[i].kind = "prompt" => PromptParts(list[i])
        /\ list[i].kind = "provider" => ParsedStep(list[i]) = list[i]
    BY <2>1, EveryStepAgain
  <2> DEFINE one == list[i]
             other == ParsedStep(list[i])
  <2>3. /\ ParsesStep(other) /\ ParsedStep(other) = other
        /\ other.id = one.id /\ other.kind = one.kind
    BY <2>2 DEF StepAgain
  <2>4. one.kind = "prompt" =>
          /\ Names(other.variables) = Names(one.variables)
          /\ other.templateId = one.templateId
          /\ other.renderedPromptId = one.renderedPromptId
    BY <2>2 DEF PromptParts
  <2>5. again[i] = other /\ (one.kind = "provider" => other = one)
    BY <2>1, <2>2
  <2> HIDE DEF other, one
  <2>6. /\ ParsesStep(again[i]) /\ ParsedStep(again[i]) = again[i]
        /\ again[i].id = one.id /\ again[i].kind = one.kind
    BY <2>3, <2>5
  <2>7. one.kind = "prompt" =>
          /\ Names(again[i].variables) = Names(one.variables)
          /\ again[i].templateId = one.templateId
          /\ again[i].renderedPromptId = one.renderedPromptId
    BY <2>4, <2>5
  <2> QED
    BY <2>5, <2>6, <2>7 DEF one
<1>4. Array(again) /\ DOMAIN again = 1..n /\ again = [i \in 1..n |-> again[i]]
  <2>1. again = [i \in 1..n |-> again[i]]
    BY <1>2
  <2> QED
    BY <1>1, <2>1, ArrayOf
<1>5. Ids(again) = Ids(list)
  BY <1>1, <1>3, <1>4 DEF Ids
<1>6. again = [i \in DOMAIN again |-> ParsedStep(again[i])]
  BY <1>3, <1>4
<1> QED
  BY <1>1, <1>3, <1>4, <1>5, <1>6 DEF StepsAgain, list, again

LocalsParse(kind, locals) ==
  Array(locals) /\ \A i \in DOMAIN locals : ParsesReference(locals[i], kind)

LEMMA LocalsParsed ==
  ASSUME NoArray, NEW kind \in Kinds, NEW locals \in Seq(Locals(kind))
  PROVE  LocalsParse(kind, locals)
<1>1. /\ Len(locals) \in Nat /\ DOMAIN locals = 1..Len(locals)
      /\ \A i \in DOMAIN locals : locals[i] \in Locals(kind)
  BY LenProperties, ElementOfSeq
<1>2. locals = [i \in 1..Len(locals) |-> locals[i]]
  BY <1>1, SeqDef
<1>3. Array(locals)
  BY <1>1, <1>2, ArrayOf
<1>4. \A i \in DOMAIN locals : ParsesReference(locals[i], kind)
  BY <1>1, UseOfLocal DEF IdFields
<1> QED
  BY <1>3, <1>4 DEF LocalsParse

LEMMA ReferencesAgain ==
  ASSUME NEW input, NEW parsed, ValidReferences(input),
         DOMAIN input.steps \subseteq Nat, StepsAgain(input.steps, parsed.steps),
         \A i \in DOMAIN input.steps : 1..(i - 1) \subseteq DOMAIN input.steps,
         PromptsAgain(Listed(input, "prompts"), Listed(parsed, "prompts")),
         ProvidersAgain(Listed(input, "providers"), Listed(parsed, "providers"))
  PROVE  ValidReferences(parsed)
<1> DEFINE Rendered(steps, i) ==
             {steps[j].renderedPromptId : j \in {k \in 1..(i - 1) : steps[k].kind = "prompt"}}
<1>1. ASSUME NEW i \in DOMAIN input.steps
      PROVE  Rendered(parsed.steps, i) = Rendered(input.steps, i)
  <2>1. \A k \in 1..(i - 1) :
          /\ parsed.steps[k].kind = input.steps[k].kind
          /\ input.steps[k].kind = "prompt" =>
               parsed.steps[k].renderedPromptId = input.steps[k].renderedPromptId
    BY <1>1 DEF StepsAgain
  <2> QED
    BY <2>1
<1>2. DOMAIN parsed.steps = DOMAIN input.steps
  BY DEF StepsAgain
<1>3. ASSUME NEW i \in DOMAIN parsed.steps
      PROVE  /\ parsed.steps[i].kind = "prompt" =>
                  /\ parsed.steps[i].renderedPromptId \notin Rendered(parsed.steps, i)
                  /\ \E template \in Range(Listed(parsed, "prompts")) :
                       /\ template.id = parsed.steps[i].templateId
                       /\ Range(template.variables) = Range(Names(parsed.steps[i].variables))
             /\ parsed.steps[i].kind = "provider" =>
                  /\ parsed.steps[i].providerId \in Range(Ids(Listed(parsed, "providers")))
                  /\ parsed.steps[i].renderedPromptId \in Rendered(parsed.steps, i)
  <2> DEFINE one == input.steps[i]
             again == parsed.steps[i]
             rendered == Rendered(input.steps, i)
  <2>1. /\ again.kind = one.kind
        /\ one.kind = "prompt" => /\ Names(again.variables) = Names(one.variables)
                                  /\ again.templateId = one.templateId
                                  /\ again.renderedPromptId = one.renderedPromptId
        /\ one.kind = "provider" => again = one
    BY <1>2, <1>3 DEF StepsAgain
  <2>2. Rendered(parsed.steps, i) = rendered
    BY <1>1, <1>2, <1>3
  <2>3. /\ one.kind = "prompt" =>
             /\ one.renderedPromptId \notin rendered
             /\ \E template \in Range(Listed(input, "prompts")) :
                  /\ template.id = one.templateId
                  /\ Range(template.variables) = Range(Names(one.variables))
        /\ one.kind = "provider" =>
             /\ one.providerId \in Range(Ids(Listed(input, "providers")))
             /\ one.renderedPromptId \in rendered
    BY <1>2, <1>3 DEF ValidReferences
  <2> HIDE DEF one, again, rendered
  <2>4. ASSUME again.kind = "prompt"
        PROVE  /\ again.renderedPromptId \notin rendered
               /\ \E template \in Range(Listed(parsed, "prompts")) :
                    /\ template.id = again.templateId
                    /\ Range(template.variables) = Range(Names(again.variables))
    <3>1. PICK template \in Range(Listed(input, "prompts")) :
            /\ template.id = again.templateId
            /\ Range(template.variables) = Range(Names(again.variables))
      BY <2>1, <2>3, <2>4
    <3> DEFINE old == Listed(input, "prompts")
               new == Listed(parsed, "prompts")
    <3>2. PICK p \in DOMAIN old : template = old[p]
      BY DEF Range
    <3>3. /\ p \in DOMAIN new /\ new[p].id = template.id
          /\ new[p].variables = template.variables
      BY <3>2 DEF PromptsAgain
    <3>4. new[p] \in Range(new)
      BY <3>3 DEF Range
    <3> HIDE DEF old, new
    <3> QED
      BY <2>1, <2>3, <2>4, <3>1, <3>3, <3>4 DEF new
  <2>5. ASSUME again.kind = "provider"
        PROVE  /\ again.providerId \in Range(Ids(Listed(parsed, "providers")))
               /\ again.renderedPromptId \in rendered
    <3>1. Ids(Listed(parsed, "providers")) = Ids(Listed(input, "providers"))
      BY DEF ProvidersAgain
    <3> QED
      BY <2>1, <2>3, <2>5, <3>1
  <2> QED
    BY <2>2, <2>4, <2>5 DEF again
<1> QED
  BY <1>3 DEF ValidReferences

(* What the schema made of an input it accepts: its parts are accepted in  *)
(* turn.                                                                   *)
LEMMA PartsAgain ==
  ASSUME NoArray, NEW input, Parses(input)
  PROVE  /\ ParsesParts(Parsed(input)) /\ ValidReferences(Parsed(input))
         /\ Canonical(Uses(Parsed(input)), Parsed(input).scripts, Parsed(input).secrets)
         /\ \A field \in DefinitionFields : Listed(Parsed(input), field) = Parsed(input)[field]
         /\ AssetsAgain(Listed(input, "assets"), Parsed(input).assets)
         /\ PromptsAgain(Listed(input, "prompts"), Parsed(input).prompts)
         /\ ProvidersAgain(Listed(input, "providers"), Parsed(input).providers)
         /\ StepsAgain(input.steps, Parsed(input).steps)
<1> DEFINE parsed == Parsed(input)
<1>1. /\ ParsesParts(input) /\ Registers(Uses(input)) /\ ValidReferences(input)
      /\ Has(input, "network") => ParsesNetwork(input.network)
  BY DEF Parses
<1>2. /\ AssetsAgain(Listed(input, "assets"), parsed.assets)
      /\ PromptsAgain(Listed(input, "prompts"), parsed.prompts)
      /\ ProvidersAgain(Listed(input, "providers"), parsed.providers)
      /\ StepsAgain(input.steps, parsed.steps)
  BY <1>1, ParsedAssetsAgain, ParsedPromptsAgain, ParsedProvidersAgain, ParsedStepsAgain
<1>3. /\ Canonical(Uses(parsed), parsed.scripts, parsed.secrets)
      /\ Canonical(EarlyUses(parsed), parsed.scripts, parsed.secrets)
  BY <1>1, ParsedCanonical
<1>4. /\ DOMAIN parsed = DefinitionFields \cup (IF Has(input, "network") THEN {"network"} ELSE {})
      /\ parsed.definitionUrl = input.definitionUrl
      /\ parsed.account = ParsedAccount(input.account)
  BY ParsedFields
<1>5. /\ DOMAIN input.steps = 1..Len(input.steps) /\ Len(input.steps) \in Nat
      /\ Listed(input, "steps") = input.steps
  BY <1>1, ListsParse
<1> HIDE DEF parsed
<1>6. \A field \in DefinitionFields : Listed(parsed, field) = parsed[field]
  BY <1>4 DEF Listed, Has
<1>7. /\ Listed(parsed, "assets") = parsed.assets /\ Listed(parsed, "prompts") = parsed.prompts
      /\ Listed(parsed, "providers") = parsed.providers /\ Listed(parsed, "steps") = parsed.steps
      /\ Listed(parsed, "scripts") = parsed.scripts /\ Listed(parsed, "secrets") = parsed.secrets
  BY <1>6 DEF DefinitionFields
<1>8. ValidReferences(parsed)
  BY <1>1, <1>2, <1>5, <1>7, ReferencesAgain
<1>9. LocalsParse("script", parsed.scripts) /\ LocalsParse("secret", parsed.secrets)
  <2>1. parsed.scripts \in Seq(Locals("script")) /\ parsed.secrets \in Seq(Locals("secret"))
    BY <1>3 DEF Canonical
  <2> QED
    BY <2>1, LocalsParsed DEF Kinds
<1>10. ParsesAccount(parsed.account) /\ ParsesString(parsed.definitionUrl)
  <2>1. ParsesAccount(input.account) /\ ParsesString(input.definitionUrl)
    BY <1>1 DEF ParsesParts
  <2> QED
    BY <1>4, <2>1, AccountAgain
<1>11. Object(parsed, {"definitionUrl", "agent", "account", "steps"},
              {"schemaVersion", "operatingSystem", "network", "assets", "prompts",
               "scripts", "secrets", "providers"})
  BY <1>4 DEF Object, DefinitionFields
<1>12. parsed.steps # <<>>
  <2>1. input.steps # <<>> /\ Array(input.steps)
    BY <1>1, <1>5 DEF ParsesParts
  <2>2. 1 \in DOMAIN input.steps
    <3> DEFINE T == Range(input.steps)
    <3>1. input.steps \in Seq(T)
      BY <2>1 DEF Array
    <3> HIDE DEF T
    <3>2. Len(input.steps) # 0
      BY <2>1, <3>1, EmptySeq
    <3> QED
      BY <1>5, <3>2
  <2>3. 1 \in DOMAIN parsed.steps
    BY <1>2, <2>2 DEF StepsAgain
  <2>4. DOMAIN <<>> = {}
    OBVIOUS
  <2> QED
    BY <2>3, <2>4
<1>13. \A field \in {"assets", "prompts", "providers", "steps"} :
         IsInjective(Ids(Listed(parsed, field)))
  <2>1. \A field \in {"assets", "prompts", "providers", "steps"} :
          IsInjective(Ids(Listed(input, field)))
    BY <1>1 DEF ParsesParts
  <2> QED
    BY <1>2, <1>5, <1>7, <2>1 DEF AssetsAgain, PromptsAgain, ProvidersAgain, StepsAgain
<1>14. Registers(EarlyUses(parsed))
  BY <1>3, CanonicalRegisters
<1>15. \A field \in {"scripts", "secrets", "assets", "prompts", "providers", "steps"} :
         Array(Listed(parsed, field))
  BY <1>2, <1>7, <1>9 DEF LocalsParse, AssetsAgain, PromptsAgain, ProvidersAgain, StepsAgain
<1>16. /\ \A i \in DOMAIN Listed(parsed, "scripts") : ParsesReference(parsed.scripts[i], "script")
       /\ \A i \in DOMAIN Listed(parsed, "secrets") : ParsesReference(parsed.secrets[i], "secret")
       /\ \A i \in DOMAIN Listed(parsed, "assets") : ParsesAsset(parsed.assets[i])
       /\ \A i \in DOMAIN Listed(parsed, "prompts") : ParsesPrompt(parsed.prompts[i])
       /\ \A i \in DOMAIN Listed(parsed, "providers") : ParsesProvider(parsed.providers[i])
       /\ \A i \in DOMAIN parsed.steps : ParsesStep(parsed.steps[i])
  BY <1>2, <1>7, <1>9 DEF LocalsParse, AssetsAgain, PromptsAgain, ProvidersAgain, StepsAgain
<1>17. ParsesParts(parsed)
  BY <1>10, <1>11, <1>12, <1>13, <1>14, <1>15, <1>16 DEF ParsesParts
<1> QED
  BY <1>2, <1>3, <1>6, <1>8, <1>17 DEF parsed

ParsesAgain(input) == Parses(Parsed(input)) /\ Parsed(Parsed(input)) = Parsed(input)

(* A definition that was parsed parses again to itself (definition.ts:     *)
(* parseDefinition, applied to its own result).                            *)
THEOREM DefinitionAgain ==
  ASSUME NoArray, NEW input, Parses(input)
  PROVE  ParsesAgain(input)
<1> DEFINE parsed == Parsed(input)
           again == Parsed(parsed)
<1>1. /\ ParsesParts(parsed) /\ ValidReferences(parsed)
      /\ Canonical(Uses(parsed), parsed.scripts, parsed.secrets)
      /\ \A field \in DefinitionFields : Listed(parsed, field) = parsed[field]
      /\ AssetsAgain(Listed(input, "assets"), parsed.assets)
      /\ PromptsAgain(Listed(input, "prompts"), parsed.prompts)
      /\ ProvidersAgain(Listed(input, "providers"), parsed.providers)
      /\ StepsAgain(input.steps, parsed.steps)
  BY PartsAgain
<1>2. /\ DOMAIN parsed = DefinitionFields \cup (IF Has(input, "network") THEN {"network"} ELSE {})
      /\ parsed = [field \in DOMAIN parsed |-> parsed[field]]
      /\ parsed.schemaVersion = 1 /\ parsed.agent = input.agent
      /\ parsed.operatingSystem = input.operatingSystem
      /\ parsed.account = ParsedAccount(input.account)
      /\ Has(input, "network") => parsed.network = ParsedNetwork(input.network)
  BY ParsedFields
<1> HIDE DEF parsed
<1>3. Registers(Uses(parsed))
  BY <1>1, CanonicalRegisters
<1>4. /\ Object(input.agent, {"id", "displayName"}, {})
      /\ ParsesIdentifier(input.agent.id) /\ ParsesString(input.agent.displayName)
      /\ ParsesOperatingSystem(input.operatingSystem)
      /\ Has(input, "network") => ParsesNetwork(input.network)
      /\ ParsesAccount(input.account)
  BY DEF Parses, ParsesParts
<1>5. /\ Has(parsed, "network") <=> Has(input, "network")
      /\ Has(parsed, "operatingSystem")
  BY <1>2 DEF Has, DefinitionFields
<1>6. Has(input, "network") => /\ ParsesNetwork(parsed.network)
                               /\ ParsedNetwork(parsed.network) = parsed.network
  BY <1>2, <1>4, NetworkAgain
<1>7. Parses(parsed)
  BY <1>1, <1>2, <1>3, <1>4, <1>5, <1>6 DEF Parses, ParsesVersion
<1>8. /\ DOMAIN again = DefinitionFields \cup (IF Has(parsed, "network") THEN {"network"} ELSE {})
      /\ again = [field \in DOMAIN again |-> again[field]]
      /\ again.schemaVersion = 1 /\ again.definitionUrl = parsed.definitionUrl
      /\ again.agent = parsed.agent /\ again.operatingSystem = parsed.operatingSystem
      /\ again.account = ParsedAccount(parsed.account)
      /\ again.assets = [i \in DOMAIN Listed(parsed, "assets") |->
                           ParsedResource(parsed.assets[i])]
      /\ again.prompts = [i \in DOMAIN Listed(parsed, "prompts") |->
                            ParsedResource(parsed.prompts[i])]
      /\ again.scripts = Registry("script", Uses(parsed))
      /\ again.secrets = Registry("secret", Uses(parsed))
      /\ again.providers = [i \in DOMAIN Listed(parsed, "providers") |->
                              ParsedProvider(Listed(parsed, "providers")[i])]
      /\ again.steps = [i \in DOMAIN parsed.steps |-> ParsedStep(parsed.steps[i])]
      /\ Has(parsed, "network") => again.network = ParsedNetwork(parsed.network)
  BY ParsedFields
<1> HIDE DEF again
<1>9. /\ Listed(parsed, "assets") = parsed.assets /\ Listed(parsed, "prompts") = parsed.prompts
      /\ Listed(parsed, "providers") = parsed.providers
  BY <1>1 DEF DefinitionFields
<1>10. again.assets = parsed.assets
  BY <1>1, <1>8, <1>9 DEF AssetsAgain
<1>11. again.prompts = parsed.prompts
  BY <1>1, <1>8, <1>9 DEF PromptsAgain
<1>12. again.providers = parsed.providers
  BY <1>1, <1>8, <1>9 DEF ProvidersAgain
<1>13. again.steps = parsed.steps
  BY <1>1, <1>8 DEF StepsAgain
<1>14. again.scripts = parsed.scripts /\ again.secrets = parsed.secrets
  BY <1>1, <1>8, CanonicalRegistry
<1>15. again.account = parsed.account
  BY <1>2, <1>4, <1>8, AccountAgain
<1>16. \A field \in DOMAIN parsed : again[field] = parsed[field]
  BY <1>2, <1>5, <1>6, <1>8, <1>10, <1>11, <1>12, <1>13, <1>14, <1>15 DEF DefinitionFields
<1>17. DOMAIN again = DOMAIN parsed
  BY <1>2, <1>5, <1>8
<1>18. again = parsed
  BY <1>2, <1>8, <1>16, <1>17
<1> QED
  BY <1>7, <1>18 DEF ParsesAgain, parsed, again

-----------------------------------------------------------------------------
(* The schemas of the documents, written apart in the protocol package,    *)
(* accept what is written from a parsed definition: first the scalars and  *)
(* commands.                                                               *)
SomePath == <<>> \notin RelativePath

LEMMA TargetAccepted ==
  ASSUME SomePath, NEW value, ParsesTarget(value)
  PROVE  AcceptsTarget(value)
BY DEF SomePath, ParsesTarget, AcceptsTarget, AcceptsSegments, Object, Fields

LEMMA CommandAccepted ==
  ASSUME SomePath, NEW value, ParsesCommand(value), ParsedCommand(value) = value
  PROVE  AcceptsCommand(CommandDescriptor(value))
<1> DEFINE executable == value.executable
           written == CommandDescriptor(value)
           path == ScriptTarget(executable.scriptId)
<1>1. /\ Object(value, {"executable", "arguments"}, {"workingDirectory"})
      /\ \A i \in DOMAIN value.arguments : ParsesString(value.arguments[i])
      /\ Has(value, "workingDirectory") => ParsesTarget(value.workingDirectory)
  BY DEF ParsesCommand
<1>2. /\ DOMAIN written = DOMAIN value
      /\ written.executable = IF Has(executable, "program") THEN executable ELSE [path |-> path]
      /\ \A field \in DOMAIN value \ {"executable"} : written[field] = value[field]
  BY <1>1 DEF CommandDescriptor, Object
<1>3. path # <<>>
  <2>1. Len(path) = 4 /\ Len(<<>>) = 0
    BY DEF ScriptTarget
  <2> HIDE DEF path
  <2> QED
    BY <2>1
<1>4. AcceptsExecutable(written.executable)
  <2>1. CASE Object(executable, {"program"}, {}) /\ ParsesString(executable.program)
    <3>1. written.executable = executable
      BY <1>2, <2>1 DEF Object, Has
    <3> HIDE DEF executable, written
    <3> QED
      BY <2>1, <3>1 DEF AcceptsExecutable, Fields, Object, AcceptsString, ParsesString
  <2>2. CASE ParsesUse(executable, "script", "scriptId")
    <3>1. ~Has(executable, "program")
      BY <2>2 DEF ParsesUse, ParsesReference, Object, Has
    <3> DEFINE one == [path |-> path]
    <3>2. DOMAIN one = {"path"} /\ one.path = path
      OBVIOUS
    <3>3. written.executable = one
      BY <1>2, <3>1
    <3> HIDE DEF one, path, written
    <3> QED
      BY <1>3, <3>2, <3>3 DEF AcceptsExecutable, Fields, AcceptsSegments
  <2> QED
    BY <2>1, <2>2 DEF ParsesCommand
<1> HIDE DEF written
<1>5. /\ written.arguments = value.arguments
      /\ Has(written, "workingDirectory") => /\ Has(value, "workingDirectory")
                                             /\ written.workingDirectory = value.workingDirectory
  BY <1>1, <1>2 DEF Object, Has
<1>6. Has(written, "workingDirectory") => AcceptsTarget(written.workingDirectory)
  BY <1>1, <1>5, TargetAccepted
<1>7. Fields(written, {"executable", "arguments"}, {"workingDirectory"})
  BY <1>1, <1>2 DEF Fields, Object
<1>8. \A i \in DOMAIN written.arguments : AcceptsString(written.arguments[i])
  BY <1>1, <1>5 DEF AcceptsString, ParsesString
<1> QED
  BY <1>4, <1>6, <1>7, <1>8 DEF AcceptsCommand, written

WrittenProvider(value) == [value EXCEPT !.command = CommandDescriptor(@)]

LEMMA ProviderAccepted ==
  ASSUME SomePath, NEW value, ParsesProvider(value), ParsedProvider(value) = value
  PROVE  AcceptsProvider(WrittenProvider(value)) /\ WrittenProvider(value).id = value.id
<1> DEFINE written == WrittenProvider(value)
           again == CommandDescriptor(value.command)
<1>1. /\ Object(value, {"id", "command", "promptTransport"}, {})
      /\ ParsesIdentifier(value.id) /\ ParsesCommand(value.command)
      /\ value.promptTransport = "stdin"
  BY DEF ParsesProvider
<1>2. ParsedCommand(value.command) = value.command
  <2>1. ParsedProvider(value).command = ParsedCommand(value.command)
    BY <1>1 DEF ParsedProvider, Object
  <2> QED
    BY <2>1
<1>3. AcceptsCommand(again)
  BY <1>1, <1>2, CommandAccepted
<1>4. /\ DOMAIN written = DOMAIN value /\ written.command = again
      /\ written.id = value.id /\ written.promptTransport = value.promptTransport
  BY <1>1 DEF WrittenProvider, Object
<1> HIDE DEF written, again
<1>5. AcceptsProvider(written)
  BY <1>1, <1>3, <1>4
     DEF AcceptsProvider, Fields, Object, AcceptsIdentifier, ParsesIdentifier
<1> QED
  BY <1>4, <1>5 DEF written

(* A step as the runner's plan has it is accepted by the protocol's schema *)
(* and has the id and the kind of the definition's step.                   *)
Written(step) ==
  /\ AcceptsStep(RunnerStep(step))
  /\ RunnerStep(step).id = step.id /\ RunnerStep(step).kind = step.kind
  /\ step.kind \in {"prompt", "provider"} => RunnerStep(step) = step

LEMMA OtherStepsWritten ==
  ASSUME NEW step, ParsesStep(step), ParsesEnvironment(step) \/ ParsesProviderStep(step)
  PROVE  Written(step)
<1>1. step.kind \in {"environment", "provider"} /\ {"id", "kind"} \subseteq DOMAIN step
      /\ AcceptsIdentifier(step.id)
  BY DEF ParsesEnvironment, ParsesProviderStep, ParsesStep, ParsesIdentifier, AcceptsIdentifier
<1>2. RunnerStep(step) = step
  BY <1>1 DEF RunnerStep
<1>3. CASE ParsesEnvironment(step)
  <2>1. AcceptsEnvironmentStep(step)
    BY <1>3 DEF ParsesEnvironment, AcceptsEnvironmentStep, Object, Fields, Has, AcceptsKey,
                ParsesString, AcceptsString
  <2> QED
    BY <1>1, <1>2, <2>1 DEF Written, AcceptsStep
<1>4. CASE ParsesProviderStep(step)
  <2>1. AcceptsProviderStep(step)
    BY <1>4 DEF ParsesProviderStep, AcceptsProviderStep, Object, Fields, ParsesIdentifier,
                AcceptsIdentifier
  <2> QED
    BY <1>1, <1>2, <2>1 DEF Written, AcceptsStep
<1> QED
  BY <1>3, <1>4

LEMMA CommandStepsWritten ==
  ASSUME SomePath, NEW step, ParsesStep(step), ParsedStep(step) = step,
         ParsesAutomatic(step) \/ ParsesFireAndForget(step)
  PROVE  Written(step)
<1> DEFINE written == RunnerStep(step)
           again == CommandDescriptor(step.command)
<1>1. /\ step.kind \in {"automatic", "fire-and-forget"} /\ ParsesCommand(step.command)
      /\ "command" \in DOMAIN step /\ {"id", "kind"} \subseteq DOMAIN step
      /\ AcceptsIdentifier(step.id)
  BY DEF ParsesAutomatic, ParsesFireAndForget, Object, ParsesStep, ParsesIdentifier,
         AcceptsIdentifier
<1>2. ParsedCommand(step.command) = step.command
  <2>1. ParsedStep(step) = [step EXCEPT !.command = ParsedCommand(step.command)]
    BY <1>1 DEF ParsedStep
  <2>2. ParsedStep(step).command = ParsedCommand(step.command)
    BY <1>1, <2>1
  <2> QED
    BY <2>2
<1>3. AcceptsCommand(again)
  BY <1>1, <1>2, CommandAccepted
<1>4. written = [step EXCEPT !.command = again]
  BY <1>1 DEF RunnerStep
<1> HIDE DEF written, again
<1>5. /\ DOMAIN written = DOMAIN step /\ written.command = again
      /\ written.kind = step.kind /\ written.id = step.id
      /\ \A field \in DOMAIN step \ {"command"} : written[field] = step[field]
  BY <1>1, <1>4
<1>6. CASE ParsesAutomatic(step)
  <2>1. AcceptsAutomaticStep(written)
    BY <1>3, <1>5, <1>6 DEF ParsesAutomatic, AcceptsAutomaticStep, Object, Fields
  <2> QED
    BY <1>1, <1>5, <2>1 DEF Written, AcceptsStep, written
<1>7. CASE ParsesFireAndForget(step)
  <2>1. "lifetime" \in DOMAIN step /\ step.lifetime = "runner"
    BY <1>7 DEF ParsesFireAndForget, Object
  <2>2. written.lifetime = "runner"
    BY <1>5, <2>1
  <2>3. AcceptsFireAndForgetStep(written)
    BY <1>3, <1>5, <1>7, <2>2 DEF ParsesFireAndForget, AcceptsFireAndForgetStep, Object, Fields
  <2> QED
    BY <1>1, <1>5, <2>3 DEF Written, AcceptsStep, written
<1> QED
  BY <1>6, <1>7

LEMMA ManualWritten ==
  ASSUME SomePath, NEW step, ParsesStep(step), ParsedStep(step) = step, ParsesManual(step)
  PROVE  Written(step)
<1> DEFINE written == RunnerStep(step)
           again == CommandDescriptor(step.command)
           check == CommandDescriptor(step.completionCheck)
<1>1. /\ step.kind = "manual"
      /\ Object(step, {"id", "kind", "command", "completionCheck", "pollIntervalSeconds"}, {})
      /\ ParsesCommand(step.command) /\ ParsesCommand(step.completionCheck)
      /\ step.pollIntervalSeconds \in AcceptedInterval /\ AcceptsIdentifier(step.id)
  BY Intervals DEF ParsesManual, ParsesStep, ParsesIdentifier, AcceptsIdentifier
<1>2. /\ ParsedCommand(step.command) = step.command
      /\ ParsedCommand(step.completionCheck) = step.completionCheck
  <2>1. ParsedStep(step) = [step EXCEPT !.command = ParsedCommand(step.command),
                                        !.completionCheck = ParsedCommand(step.completionCheck)]
    BY <1>1 DEF ParsedStep
  <2>2. /\ ParsedStep(step).command = ParsedCommand(step.command)
        /\ ParsedStep(step).completionCheck = ParsedCommand(step.completionCheck)
    BY <1>1, <2>1 DEF Object
  <2> QED
    BY <2>2
<1>3. AcceptsCommand(again) /\ AcceptsCommand(check)
  BY <1>1, <1>2, CommandAccepted
<1>4. written = [step EXCEPT !.command = again, !.completionCheck = check]
  BY <1>1 DEF RunnerStep
<1> HIDE DEF written, again, check
<1>5. /\ DOMAIN written = DOMAIN step /\ written.command = again
      /\ written.completionCheck = check /\ written.kind = step.kind /\ written.id = step.id
      /\ written.pollIntervalSeconds = step.pollIntervalSeconds
  BY <1>1, <1>4 DEF Object
<1>6. AcceptsManualStep(written)
  BY <1>1, <1>3, <1>5 DEF AcceptsManualStep, Fields, Object
<1>7. {"id", "kind"} \subseteq DOMAIN written /\ AcceptsIdentifier(written.id)
  BY <1>1, <1>5 DEF Object
<1> QED
  BY <1>1, <1>5, <1>6, <1>7 DEF Written, AcceptsStep, written

LEMMA VariableAccepted ==
  ASSUME NEW binding, Object(binding, {"name", "source"}, {}), ParsesVariable(binding.source),
         ParsedVariable(binding) = binding
  PROVE  AcceptsVariableSource(binding.source)
<1> DEFINE source == binding.source
<1>1. CASE source.kind = "environment"
  BY <1>1 DEF ParsesVariable, AcceptsVariableSource, Object, Fields, AcceptsKey
<1>2. CASE source.kind # "environment"
  <2>1. source.kind = "secret" /\ ParsesSecretIn(source, {"kind"})
    BY <1>2 DEF ParsesVariable
  <2>2. SecretUse(source).id \in Identifier
    <3>1. "secret" \notin {"kind"} /\ "secretId" \notin {"kind"}
      OBVIOUS
    <3> HIDE DEF source
    <3> QED
      BY <2>1, <3>1, SecretAgain
  <2>3. source = [kind |-> "secret", secretId |-> SecretUse(source).id]
    <3>1. ParsedVariable(binding).source = [kind |-> "secret", secretId |-> SecretUse(source).id]
      BY <1>2 DEF ParsedVariable, Object
    <3> QED
      BY <3>1
  <2> DEFINE id == SecretUse(source).id
             one == [kind |-> "secret", secretId |-> id]
  <2>4. DOMAIN one = {"kind", "secretId"} /\ one.kind = "secret" /\ one.secretId = id
    OBVIOUS
  <2> HIDE DEF one, id
  <2>5. AcceptsVariableSource(one)
    BY <2>2, <2>4 DEF AcceptsVariableSource, Fields, AcceptsIdentifier, id
  <2> QED
    BY <2>3, <2>5 DEF one, id
<1> QED
  BY <1>1, <1>2

LEMMA PromptWritten ==
  ASSUME NEW step, ParsesStep(step), ParsedStep(step) = step, ParsesPromptStep(step)
  PROVE  Written(step)
<1> DEFINE variables == step.variables
<1>1. /\ step.kind = "prompt"
      /\ Object(step, {"id", "kind", "templateId", "renderedPromptId", "retention",
                       "variables"}, {})
      /\ step.retention = "ephemeral"
      /\ ParsesIdentifier(step.templateId) /\ ParsesIdentifier(step.renderedPromptId)
      /\ IsInjective(Names(variables))
      /\ \A i \in DOMAIN variables :
           /\ Object(variables[i], {"name", "source"}, {})
           /\ ParsesIdentifier(variables[i].name) /\ ParsesVariable(variables[i].source)
  BY DEF ParsesPromptStep
<1>2. \A i \in DOMAIN variables : ParsedVariable(variables[i]) = variables[i]
  <2>1. ParsedStep(step) = [step EXCEPT !.variables = [i \in DOMAIN variables |->
                                                         ParsedVariable(variables[i])]]
    BY <1>1 DEF ParsedStep
  <2>2. ParsedStep(step).variables = [i \in DOMAIN variables |-> ParsedVariable(variables[i])]
    BY <1>1, <2>1 DEF Object
  <2>3. variables = [i \in DOMAIN variables |-> ParsedVariable(variables[i])]
    BY <2>2
  <2> HIDE DEF variables
  <2> QED
    BY <2>3
<1>3. \A i \in DOMAIN variables : AcceptsVariableSource(variables[i].source)
  BY <1>1, <1>2, VariableAccepted
<1>4. RunnerStep(step) = step
  BY <1>1 DEF RunnerStep
<1>5. BoundNames(variables) = Names(variables)
  BY DEF BoundNames, Names
<1>6. AcceptsPromptStep(step)
  BY <1>1, <1>3, <1>5 DEF AcceptsPromptStep, Fields, Object, AcceptsIdentifier, ParsesIdentifier
<1> QED
  BY <1>4, <1>6 DEF Written, AcceptsStep, ParsesStep, AcceptsIdentifier, ParsesIdentifier

LEMMA InstallWritten ==
  ASSUME SomePath, NEW step, ParsesStep(step), ParsedStep(step) = step,
         ParsesInstallUserSecret(step)
  PROVE  Written(step)
<1> DEFINE fields == {"id", "kind", "destination"}
           id == SecretUse(step).id
           one == [id |-> step.id, kind |-> step.kind, secretId |-> id,
                   destination |-> step.destination]
<1>1. /\ step.kind = "install-user-secret" /\ ParsesSecretIn(step, fields)
      /\ step.destination \in RelativePath /\ ParsesIdentifier(step.id)
  BY DEF ParsesInstallUserSecret, ParsesStep
<1>2. step = one
  BY <1>1 DEF ParsedStep
<1>3. id \in Identifier
  <2>1. "secret" \notin fields /\ "secretId" \notin fields
    OBVIOUS
  <2> HIDE DEF fields, one
  <2> QED
    BY <1>1, <2>1, SecretAgain
<1>4. DOMAIN one = {"id", "kind", "secretId", "destination"} /\ one.secretId = id
  OBVIOUS
<1> HIDE DEF one, id
<1>5. DOMAIN step = {"id", "kind", "secretId", "destination"} /\ step.secretId = id
  BY <1>2, <1>4
<1>6. AcceptsSecretStep(step)
  BY <1>1, <1>3, <1>5 DEF AcceptsSecretStep, Fields, AcceptsIdentifier, SomePath, AcceptsSegments
<1>7. RunnerStep(step) = step
  BY <1>1 DEF RunnerStep
<1> QED
  BY <1>1, <1>5, <1>6, <1>7 DEF Written, AcceptsStep, AcceptsIdentifier, ParsesIdentifier

LEMMA EveryStepWritten ==
  ASSUME SomePath, NEW step, ParsesStep(step), ParsedStep(step) = step
  PROVE  Written(step)
<1>1. CASE ParsesEnvironment(step) \/ ParsesProviderStep(step)
  BY <1>1, OtherStepsWritten
<1>2. CASE ParsesAutomatic(step) \/ ParsesFireAndForget(step)
  BY <1>2, CommandStepsWritten
<1>3. CASE ParsesManual(step)
  BY <1>3, ManualWritten
<1>4. CASE ParsesPromptStep(step)
  BY <1>4, PromptWritten
<1>5. CASE ParsesInstallUserSecret(step)
  BY <1>5, InstallWritten
<1> QED
  BY <1>1, <1>2, <1>3, <1>4, <1>5 DEF ParsesStep

(* A definition that the schema made of an input.                          *)
Normal(input) == Parses(input) /\ Parsed(input) = input

LEMMA NormalFields ==
  ASSUME NEW input, Normal(input)
  PROVE  /\ DOMAIN input = DefinitionFields \cup (IF Has(input, "network") THEN {"network"} ELSE {})
         /\ \A field \in DefinitionFields : Listed(input, field) = input[field]
         /\ \A i \in DOMAIN input.assets : ParsesAsset(input.assets[i])
         /\ \A i \in DOMAIN input.prompts : ParsesPrompt(input.prompts[i])
         /\ \A i \in DOMAIN input.providers : ParsesProvider(input.providers[i])
         /\ \A i \in DOMAIN input.providers : ParsedProvider(input.providers[i]) = input.providers[i]
         /\ \A i \in DOMAIN input.steps : ParsesStep(input.steps[i])
         /\ \A i \in DOMAIN input.steps : ParsedStep(input.steps[i]) = input.steps[i]
         /\ ParsesAccount(input.account) /\ ParsedAccount(input.account) = input.account
         /\ Has(input, "network") => ParsesNetwork(input.network)
         /\ Has(input, "network") => ParsedNetwork(input.network) = input.network
         /\ \A field \in {"assets", "prompts", "providers", "steps", "scripts", "secrets"} :
              /\ Len(input[field]) \in Nat /\ DOMAIN input[field] = 1..Len(input[field])
         /\ IsInjective(Ids(input.prompts)) /\ IsInjective(Ids(input.providers))
         /\ IsInjective(Ids(input.steps)) /\ ValidReferences(input)
<1> DEFINE parsed == Parsed(input)
<1>1. /\ DOMAIN parsed = DefinitionFields \cup (IF Has(input, "network") THEN {"network"} ELSE {})
      /\ parsed.account = ParsedAccount(input.account)
      /\ parsed.providers = [i \in DOMAIN Listed(input, "providers") |->
                               ParsedProvider(Listed(input, "providers")[i])]
      /\ parsed.steps = [i \in DOMAIN input.steps |-> ParsedStep(input.steps[i])]
      /\ Has(input, "network") => parsed.network = ParsedNetwork(input.network)
  BY ParsedFields
<1>2. parsed = input /\ Parses(input)
  BY DEF Normal
<1> HIDE DEF parsed
<1>3. \A field \in DefinitionFields : Has(input, field) /\ Listed(input, field) = input[field]
  BY <1>1, <1>2 DEF Has, Listed
<1>4. /\ Listed(input, "assets") = input.assets /\ Listed(input, "prompts") = input.prompts
      /\ Listed(input, "providers") = input.providers /\ Listed(input, "steps") = input.steps
      /\ Listed(input, "scripts") = input.scripts /\ Listed(input, "secrets") = input.secrets
  BY <1>3 DEF DefinitionFields
<1>5. ParsesParts(input) /\ ValidReferences(input)
      /\ (Has(input, "network") => ParsesNetwork(input.network))
  BY <1>2 DEF Parses
<1>6. /\ \A i \in DOMAIN input.assets : ParsesAsset(input.assets[i])
      /\ \A i \in DOMAIN input.prompts : ParsesPrompt(input.prompts[i])
      /\ \A i \in DOMAIN input.providers : ParsesProvider(input.providers[i])
      /\ \A i \in DOMAIN input.steps : ParsesStep(input.steps[i])
  BY <1>4, <1>5, ListsParse
<1>7. \A field \in {"assets", "prompts", "providers", "steps", "scripts", "secrets"} :
        /\ Len(input[field]) \in Nat /\ DOMAIN input[field] = 1..Len(input[field])
  <2>1. \A field \in {"scripts", "secrets", "assets", "prompts", "providers", "steps"} :
          /\ Len(Listed(input, field)) \in Nat
          /\ DOMAIN Listed(input, field) = 1..Len(Listed(input, field))
    BY <1>5, ListsParse
  <2>2. {"assets", "prompts", "providers", "steps", "scripts", "secrets"} \subseteq DefinitionFields
    BY DEF DefinitionFields
  <2> QED
    BY <1>3, <2>1, <2>2
<1>8. /\ IsInjective(Ids(input.prompts)) /\ IsInjective(Ids(input.providers))
      /\ IsInjective(Ids(input.steps)) /\ ParsesAccount(input.account)
  <2>1. /\ \A field \in {"assets", "prompts", "providers", "steps"} :
             IsInjective(Ids(Listed(input, field)))
        /\ ParsesAccount(input.account)
    BY <1>5 DEF ParsesParts
  <2> QED
    BY <1>4, <2>1
<1>9. \A i \in DOMAIN input.providers : ParsedProvider(input.providers[i]) = input.providers[i]
  BY <1>1, <1>2, <1>4
<1>10. \A i \in DOMAIN input.steps : ParsedStep(input.steps[i]) = input.steps[i]
  <2>1. input.steps = [i \in DOMAIN input.steps |-> ParsedStep(input.steps[i])]
    BY <1>1, <1>2
  <2> DEFINE steps == input.steps
  <2>2. steps = [i \in DOMAIN steps |-> ParsedStep(steps[i])]
    BY <2>1
  <2> HIDE DEF steps
  <2>3. \A i \in DOMAIN steps : ParsedStep(steps[i]) = steps[i]
    BY <2>2
  <2> QED
    BY <2>3 DEF steps
<1> QED
  BY <1>1, <1>2, <1>3, <1>5, <1>6, <1>7, <1>8, <1>9, <1>10

LEMMA PlanAccepted ==
  ASSUME SomePath, NEW input, Normal(input)
  PROVE  AcceptsPlan(RunnerPlan(input))
<1> DEFINE plan == RunnerPlan(input)
           providers == input.providers
           steps == input.steps
           written == [i \in DOMAIN providers |-> WrittenProvider(providers[i])]
           again == [i \in DOMAIN steps |-> RunnerStep(steps[i])]
<1>1. /\ \A i \in DOMAIN providers : ParsesProvider(providers[i])
      /\ \A i \in DOMAIN providers : ParsedProvider(providers[i]) = providers[i]
      /\ \A i \in DOMAIN steps : ParsesStep(steps[i])
      /\ \A i \in DOMAIN steps : ParsedStep(steps[i]) = steps[i]
      /\ IsInjective(Ids(providers)) /\ IsInjective(Ids(steps)) /\ ValidReferences(input)
      /\ DOMAIN steps = 1..Len(steps) /\ Len(steps) \in Nat
      /\ Listed(input, "providers") = providers
  <2>1. "providers" \in DefinitionFields
    BY DEF DefinitionFields
  <2> QED
    BY <2>1, NormalFields
<1>2. /\ DOMAIN plan = {"schemaVersion", "agentId", "providers", "steps"}
      /\ plan.schemaVersion = 1 /\ plan.agentId = input.agent.id
      /\ plan.providers = written /\ plan.steps = again
  BY DEF RunnerPlan, WrittenProvider
<1>3. /\ \A i \in DOMAIN providers : /\ AcceptsProvider(WrittenProvider(providers[i]))
                                     /\ WrittenProvider(providers[i]).id = providers[i].id
  <2> HIDE DEF providers
  <2> QED
    BY <1>1, ProviderAccepted
<1>4. \A i \in DOMAIN steps : Written(steps[i])
  <2> HIDE DEF steps
  <2> QED
    BY <1>1, EveryStepWritten
<1>5. /\ \A i \in DOMAIN written : AcceptsProvider(written[i])
      /\ Ids(written) = Ids(providers)
  <2> HIDE DEF providers
  <2> QED
    BY <1>3 DEF Ids
<1>6. /\ \A i \in DOMAIN steps :
           /\ AcceptsStep(again[i]) /\ again[i].id = steps[i].id /\ again[i].kind = steps[i].kind
           /\ steps[i].kind \in {"prompt", "provider"} => again[i] = steps[i]
      /\ DOMAIN again = DOMAIN steps
  <2> HIDE DEF steps
  <2> QED
    BY <1>4 DEF Written
<1> HIDE DEF written, again, plan
<1>7. Ids(again) = Ids(steps)
  BY <1>6 DEF Ids
<1>8. StepReferencesHold(written, again)
  <2> DEFINE Rendered(list, i) ==
               {list[j].renderedPromptId : j \in {k \in 1..(i - 1) : list[k].kind = "prompt"}}
  <2>1. ASSUME NEW i \in DOMAIN again
        PROVE  /\ again[i].kind = "prompt" =>
                    again[i].renderedPromptId \notin Rendered(again, i)
               /\ again[i].kind = "provider" =>
                    /\ again[i].providerId \in Range(Ids(written))
                    /\ again[i].renderedPromptId \in Rendered(again, i)
    <3>1. /\ steps[i].kind = "prompt" => steps[i].renderedPromptId \notin Rendered(steps, i)
          /\ steps[i].kind = "provider" =>
               /\ steps[i].providerId \in Range(Ids(providers))
               /\ steps[i].renderedPromptId \in Rendered(steps, i)
      BY <1>1, <1>6, <2>1 DEF ValidReferences
    <3>2. Rendered(again, i) = Rendered(steps, i)
      <4>1. \A k \in 1..(i - 1) :
              /\ again[k].kind = steps[k].kind
              /\ steps[k].kind = "prompt" => again[k] = steps[k]
        <5> HIDE DEF steps
        <5> QED
          BY <1>1, <1>6, <2>1
      <4> HIDE DEF steps
      <4> QED
        BY <4>1
    <3> HIDE DEF Rendered, steps, providers
    <3> QED
      BY <1>5, <1>6, <2>1, <3>1, <3>2
  <2> QED
    BY <2>1 DEF StepReferencesHold
<1>9. AcceptsIdentifier(input.agent.id)
  BY DEF Normal, Parses, AcceptsIdentifier, ParsesIdentifier
<1>10. \A i \in DOMAIN again : AcceptsStep(again[i])
  BY <1>6
<1> HIDE DEF providers, steps
<1>11. AcceptsPlan(plan)
  BY <1>1, <1>2, <1>5, <1>7, <1>8, <1>9, <1>10 DEF AcceptsPlan, Fields
<1> QED
  BY <1>11 DEF plan

LEMMA SecretAccepted ==
  ASSUME NEW value, NEW named, ParsesUse(named, "secret", "secretId"),
         value = Named("secret", "secretId", named)
  PROVE  AcceptsSecret(value)
<1>1. DOMAIN value = {"secretId"} /\ ParsesUse(value, "secret", "secretId")
  BY NamedAgain DEF Kinds, IdFields
<1> QED
  BY <1>1 DEF AcceptsSecret, Fields, ParsesUse, ParsesReference, Object, ParsesIdentifier,
              AcceptsIdentifier

LEMMA AccountAccepted ==
  ASSUME NEW account, ParsesAccount(account), ParsedAccount(account) = account
  PROVE  AcceptsAccount(account)
<1>1. /\ Object(account, {"username"}, {"initialPassword", "unattendedSudo"})
      /\ account.username \in Username
      /\ Has(account, "initialPassword") =>
           ParsesUse(account.initialPassword, "secret", "secretId")
      /\ Has(account, "unattendedSudo") => account.unattendedSudo \in BOOLEAN
  BY DEF ParsesAccount
<1>2. Has(account, "initialPassword") =>
        account.initialPassword = Named("secret", "secretId", account.initialPassword)
  <2>1. Has(account, "initialPassword") =>
          ParsedAccount(account).initialPassword
            = Named("secret", "secretId", account.initialPassword)
    BY DEF ParsedAccount, Has
  <2> QED
    BY <2>1
<1>3. Has(account, "initialPassword") => AcceptsSecret(account.initialPassword)
  BY <1>1, <1>2, SecretAccepted
<1> QED
  BY <1>1, <1>3 DEF AcceptsAccount, Fields, Object

LEMMA NetworkAccepted ==
  ASSUME NEW network, ParsesNetwork(network), ParsedNetwork(network) = network
  PROVE  AcceptsNetwork(network)
<1>1. /\ Object(network, {"hostname"}, {"wifi"}) /\ ParsesString(network.hostname)
      /\ Has(network, "wifi") =>
           /\ Object(network.wifi, {"ssid", "passphrase"}, {})
           /\ ParsesString(network.wifi.ssid)
           /\ ParsesUse(network.wifi.passphrase, "secret", "secretId")
  BY DEF ParsesNetwork
<1>2. ASSUME Has(network, "wifi")
      PROVE  AcceptsSecret(network.wifi.passphrase)
  <2> DEFINE passphrase == network.wifi.passphrase
             named == Named("secret", "secretId", passphrase)
  <2>1. ParsedNetwork(network) = [network EXCEPT !.wifi.passphrase = named]
    BY <1>2 DEF ParsedNetwork
  <2> HIDE DEF named
  <2>2. ParsedNetwork(network).wifi.passphrase = named
    BY <1>1, <1>2, <2>1 DEF Has, Object
  <2>3. passphrase = named
    BY <2>2
  <2> HIDE DEF passphrase
  <2>4. ParsesUse(passphrase, "secret", "secretId")
    BY <1>1, <1>2 DEF passphrase
  <2>5. AcceptsSecret(passphrase)
    BY <2>3, <2>4, SecretAccepted DEF named
  <2> QED
    BY <2>5 DEF passphrase
<1> QED
  BY <1>1, <1>2 DEF AcceptsNetwork, Fields, Object, AcceptsString, ParsesString

(* The ids in a list that is put together of several.                      *)
FieldOf(objects, field) == [i \in DOMAIN objects |-> objects[i][field]]

LEMMA FieldsJoined ==
  ASSUME NEW T, NEW field, NEW first \in Seq(T), NEW second \in Seq(T)
  PROVE  /\ FieldOf(first \o second, field) = FieldOf(first, field) \o FieldOf(second, field)
         /\ \A S : (\A x \in T : x[field] \in S) => FieldOf(first, field) \in Seq(S)
<1> DEFINE A == Len(first)
           B == Len(second)
           both == first \o second
<1>1. A \in Nat /\ B \in Nat /\ DOMAIN first = 1..A /\ DOMAIN second = 1..B
  BY LenProperties
<1>2. /\ both \in Seq(T) /\ Len(both) = A + B
      /\ \A i \in 1..A + B : both[i] = IF i <= A THEN first[i] ELSE second[i - A]
  BY ConcatProperties
<1>3. DOMAIN both = 1..A + B
  BY <1>2, LenProperties
<1> DEFINE U == {x[field] : x \in T}
           a == FieldOf(first, field)
           b == FieldOf(second, field)
<1>4. /\ a = [i \in 1..A |-> first[i][field]] /\ b = [i \in 1..B |-> second[i][field]]
  BY <1>1 DEF FieldOf
<1>5. a \in Seq(U) /\ b \in Seq(U) /\ Len(a) = A /\ Len(b) = B
  <2>1. \A i \in 1..A : first[i][field] \in U
    BY <1>1, ElementOfSeq
  <2>2. \A i \in 1..B : second[i][field] \in U
    BY <1>1, ElementOfSeq
  <2> HIDE DEF U, a, b, A, B
  <2>3. a \in [1..A -> U] /\ b \in [1..B -> U]
    BY <1>4, <2>1, <2>2
  <2>4. a \in Seq(U)
    BY <1>1, <2>3, SeqDef
  <2>5. b \in Seq(U)
    BY <1>1, <2>3, SeqDef
  <2> QED
    BY <1>1, <1>4, <2>4, <2>5, LenProperties
<1> HIDE DEF a, b, U, both
<1>6. /\ a \o b \in Seq(U) /\ Len(a \o b) = A + B
      /\ \A i \in 1..A + B : (a \o b)[i] = IF i <= A THEN a[i] ELSE b[i - A]
  <2>1. a \in Seq(U) /\ b \in Seq(U)
    BY <1>5
  <2>2. /\ a \o b \in Seq(U) /\ Len(a \o b) = Len(a) + Len(b)
        /\ \A i \in 1..Len(a) + Len(b) :
             (a \o b)[i] = IF i <= Len(a) THEN a[i] ELSE b[i - Len(a)]
    BY <2>1, ConcatProperties
  <2> QED
    BY <1>5, <2>2
<1>7. DOMAIN (a \o b) = 1..A + B /\ a \o b \in [1..A + B -> U]
  BY <1>6, LenProperties, SeqDef
<1> HIDE DEF A, B
<1>8. \A i \in 1..A + B : both[i][field] = (a \o b)[i]
  <2> TAKE i \in 1..A + B
  <2>1. CASE i <= A
    <3>1. i \in 1..A
      BY <1>1, <2>1
    <3> QED
      BY <1>2, <1>4, <1>6, <2>1, <3>1
  <2>2. CASE ~(i <= A)
    <3>1. i - A \in 1..B
      BY <1>1, <2>2
    <3> QED
      BY <1>2, <1>4, <1>6, <2>2, <3>1
  <2> QED
    BY <2>1, <2>2
<1>9. FieldOf(both, field) = a \o b
  BY <1>3, <1>7, <1>8 DEF FieldOf
<1>10. ASSUME NEW S, \A x \in T : x[field] \in S
       PROVE  a \in Seq(S)
  <2>1. \A i \in 1..A : first[i][field] \in S
    BY <1>1, <1>10, ElementOfSeq
  <2>2. a \in [1..A -> S]
    BY <1>4, <2>1
  <2> QED
    BY <1>1, <2>2, SeqDef
<1> QED
  BY <1>9, <1>10 DEF a, b, both

LEMMA IdsJoined ==
  ASSUME NEW T, NEW first \in Seq(T), NEW second \in Seq(T)
  PROVE  Ids(first \o second) = Ids(first) \o Ids(second)
<1>1. FieldOf(first \o second, "id") = FieldOf(first, "id") \o FieldOf(second, "id")
  BY FieldsJoined
<1> QED
  BY <1>1 DEF Ids, FieldOf

(* The two assets of the runner, and the ids that script assets get        *)
(* (synthesize.ts: the manifest's assets).                                 *)
RunnerNames == {"runner-runtime", "runner-entrypoint"}

Prefixed == \A id \in Identifier : ScriptAssetId(id) \in Identifier

LEMMA RunnerAssetsAccepted ==
  ASSUME RunnerNames \subseteq Identifier
  PROVE  /\ \A resource \in Range(RunnerAssets) : AcceptsAsset(resource)
         /\ RunnerAssets \in Seq(Range(RunnerAssets))
         /\ Ids(RunnerAssets) = RunnerAssetIds
<1> DEFINE one == [id |-> "runner-runtime", path |-> RuntimePath,
                   placement |-> Placed(<<"opt", "agent-boot", "runtime", "node">>)]
           two == [id |-> "runner-entrypoint", path |-> EntrypointPath,
                   placement |-> Placed(<<"opt", "agent-boot", "runner.mjs">>)]
<1>1. RunnerAssets = <<one, two>>
  BY DEF RunnerAssets
<1>2. /\ AcceptsPrefixed(RuntimePath, "assets") /\ AcceptsPrefixed(EntrypointPath, "assets")
  BY DEF RuntimePath, EntrypointPath, AcceptsPrefixed
<1>3. \A path : path # <<>> => AcceptsTarget(Placed(path))
  BY DEF AcceptsTarget, Placed, Fields, AcceptsSegments
<1>4. /\ AcceptsTarget(Placed(<<"opt", "agent-boot", "runtime", "node">>))
      /\ AcceptsTarget(Placed(<<"opt", "agent-boot", "runner.mjs">>))
  <2>1. <<"opt", "agent-boot", "runtime", "node">> # <<>> /\ <<"opt", "agent-boot", "runner.mjs">> # <<>>
    OBVIOUS
  <2> QED
    BY <1>3, <2>1
<1>5. /\ DOMAIN one = {"id", "path", "placement"} /\ one.id = "runner-runtime"
      /\ one.path = RuntimePath
      /\ one.placement = Placed(<<"opt", "agent-boot", "runtime", "node">>)
      /\ DOMAIN two = {"id", "path", "placement"} /\ two.id = "runner-entrypoint"
      /\ two.path = EntrypointPath
      /\ two.placement = Placed(<<"opt", "agent-boot", "runner.mjs">>)
  OBVIOUS
<1> HIDE DEF one, two
<1>6. AcceptsAsset(one) /\ AcceptsAsset(two)
  BY <1>2, <1>4, <1>5 DEF AcceptsAsset, Fields, AcceptsIdentifier, RunnerNames
<1>7. Range(<<one, two>>) = {one, two} /\ <<one, two>> \in Seq({one, two})
  BY DEF Range
<1>8. Ids(<<one, two>>) = <<"runner-runtime", "runner-entrypoint">>
  BY <1>5 DEF Ids
<1> QED
  BY <1>1, <1>6, <1>7, <1>8 DEF RunnerAssetIds

LEMMA AssetDescribed ==
  ASSUME SomePath, NEW value, ParsesAsset(value)
  PROVE  AcceptsAsset(AssetDescriptor(value)) /\ AssetDescriptor(value).id = value.id
<1> DEFINE base == [id |-> value.id, path |-> AssetPath(value.id)]
           rest == IF Has(value, "placement") THEN [placement |-> value.placement] ELSE <<>>
           described == AssetDescriptor(value)
<1>1. /\ DOMAIN base = {"id", "path"} /\ base.id = value.id /\ base.path = AssetPath(value.id)
      /\ DOMAIN rest = IF Has(value, "placement") THEN {"placement"} ELSE {}
      /\ Has(value, "placement") => rest.placement = value.placement
  OBVIOUS
<1>2. described = Joined(base, rest)
  BY DEF AssetDescriptor
<1> HIDE DEF base, rest, described
<1>3. /\ DOMAIN described = {"id", "path"} \cup (IF Has(value, "placement") THEN {"placement"} ELSE {})
      /\ described.id = value.id /\ described.path = AssetPath(value.id)
      /\ Has(value, "placement") => described.placement = value.placement
  <2>1. /\ DOMAIN Joined(base, rest) = DOMAIN base \cup DOMAIN rest
        /\ \A field \in DOMAIN base : Joined(base, rest)[field] = base[field]
        /\ \A field \in DOMAIN rest \ DOMAIN base : Joined(base, rest)[field] = rest[field]
        /\ Joined(base, rest) = [field \in DOMAIN Joined(base, rest) |->
                                   Joined(base, rest)[field]]
    BY JoinedFields
  <2>2. Has(value, "placement") => "placement" \in DOMAIN rest \ DOMAIN base
    BY <1>1
  <2>3. {"id", "path"} \subseteq DOMAIN base
    BY <1>1
  <2> DEFINE joined == Joined(base, rest)
  <2> HIDE DEF joined
  <2> QED
    BY <1>1, <1>2, <2>1, <2>2, <2>3
<1>4. AcceptsPrefixed(AssetPath(value.id), "assets")
  BY DEF AssetPath, AcceptsPrefixed
<1>5. /\ AcceptsIdentifier(value.id)
      /\ Has(value, "placement") => AcceptsTarget(value.placement)
  BY TargetAccepted DEF ParsesAsset, ParsesIdentifier, AcceptsIdentifier
<1>6. AcceptsAsset(described)
  BY <1>3, <1>4, <1>5 DEF AcceptsAsset, Fields, Has
<1> QED
  BY <1>3, <1>6 DEF described

LEMMA ScriptDescribed ==
  ASSUME Prefixed, NEW value, ParsesReference(value, "script")
  PROVE  AcceptsAsset(ScriptDescriptor(value)) /\ ScriptDescriptor(value).id = ScriptAssetId(value.id)
<1> DEFINE path == ScriptPath(value.id)
           target == ScriptTarget(value.id)
           id == ScriptAssetId(value.id)
           described == ScriptDescriptor(value)
<1>1. id \in Identifier
  BY DEF ParsesReference, ParsesIdentifier, Prefixed
<1>2. AcceptsPrefixed(path, "assets") /\ target # <<>>
  <2>1. Len(target) = 4 /\ Len(<<>>) = 0
    BY DEF ScriptTarget
  <2>2. AcceptsPrefixed(path, "assets")
    BY DEF ScriptPath, AcceptsPrefixed
  <2> HIDE DEF target
  <2> QED
    BY <2>1, <2>2
<1>3. described = [id |-> id, path |-> path, placement |-> Placed(target)]
  BY DEF ScriptDescriptor
<1> HIDE DEF described, id, path, target
<1>4. /\ DOMAIN described = {"id", "path", "placement"} /\ described.id = id
      /\ described.path = path /\ described.placement = Placed(target)
  BY <1>3
<1>5. AcceptsTarget(Placed(target))
  BY <1>2 DEF AcceptsTarget, Placed, Fields, AcceptsSegments
<1>6. AcceptsAsset(described)
  BY <1>1, <1>2, <1>4, <1>5 DEF AcceptsAsset, Fields, AcceptsIdentifier
<1> QED
  BY <1>4, <1>6 DEF described, id

LEMMA AssetsAccepted ==
  ASSUME SomePath, Prefixed, RunnerNames \subseteq Identifier, NEW input, Normal(input),
         \A i \in DOMAIN input.scripts : ParsesReference(input.scripts[i], "script")
  PROVE  /\ \A i \in DOMAIN Assets(input) : AcceptsAsset(Assets(input)[i])
         /\ Ids(Assets(input)) = AssetIds(input)
         /\ RunnerNames \subseteq Range(Ids(Assets(input)))
<1> DEFINE listed == [i \in DOMAIN input.assets |-> AssetDescriptor(input.assets[i])]
           scripts == [i \in DOMAIN input.scripts |-> ScriptDescriptor(input.scripts[i])]
           T == Range(RunnerAssets) \cup Range(listed) \cup Range(scripts)
           n == Len(input.assets)
           m == Len(input.scripts)
<1>1. /\ n \in Nat /\ DOMAIN input.assets = 1..n /\ m \in Nat /\ DOMAIN input.scripts = 1..m
      /\ \A i \in 1..n : ParsesAsset(input.assets[i])
  BY NormalFields
<1>2. /\ \A i \in 1..n : /\ AcceptsAsset(listed[i]) /\ listed[i].id = input.assets[i].id
      /\ \A i \in 1..m : /\ AcceptsAsset(scripts[i])
                         /\ scripts[i].id = ScriptAssetId(input.scripts[i].id)
      /\ DOMAIN listed = 1..n /\ DOMAIN scripts = 1..m
      /\ listed = [i \in 1..n |-> listed[i]] /\ scripts = [i \in 1..m |-> scripts[i]]
  <2>1. \A i \in 1..n : /\ AcceptsAsset(AssetDescriptor(input.assets[i]))
                        /\ AssetDescriptor(input.assets[i]).id = input.assets[i].id
    BY <1>1, AssetDescribed
  <2>2. \A i \in 1..m : /\ AcceptsAsset(ScriptDescriptor(input.scripts[i]))
                        /\ ScriptDescriptor(input.scripts[i]).id = ScriptAssetId(input.scripts[i].id)
    BY <1>1, ScriptDescribed
  <2> QED
    BY <1>1, <2>1, <2>2
<1>3. /\ Ids(listed) = Ids(input.assets)
      /\ Ids(scripts) = [i \in DOMAIN input.scripts |-> ScriptAssetId(input.scripts[i].id)]
  <2> HIDE DEF listed, scripts, n, m
  <2> QED
    BY <1>1, <1>2 DEF Ids
<1>4. /\ Assets(input) = (RunnerAssets \o listed) \o scripts
      /\ AssetIds(input) = (RunnerAssetIds \o Ids(input.assets))
                           \o [i \in DOMAIN input.scripts |-> ScriptAssetId(input.scripts[i].id)]
  BY DEF Assets, AssetIds
<1> HIDE DEF listed, scripts, n, m
<1>5. \A resource \in T : AcceptsAsset(resource)
  BY <1>2, RunnerAssetsAccepted DEF Range
<1>6. RunnerAssets \in Seq(T) /\ listed \in Seq(T) /\ scripts \in Seq(T)
  <2>1. RunnerAssets \in Seq(Range(RunnerAssets)) /\ Range(RunnerAssets) \subseteq T
    BY RunnerAssetsAccepted
  <2>2. listed \in [1..n -> T] /\ scripts \in [1..m -> T]
    BY <1>2 DEF Range
  <2> HIDE DEF T
  <2>3. RunnerAssets \in Seq(T)
    <3> DEFINE R == Range(RunnerAssets)
               N == Len(RunnerAssets)
    <3>1. RunnerAssets \in Seq(R) /\ R \subseteq T
      BY <2>1
    <3> HIDE DEF R
    <3>2. N \in Nat /\ RunnerAssets \in [1..N -> R]
      BY <3>1, LenProperties, SeqDef
    <3> HIDE DEF N
    <3>3. RunnerAssets \in [1..N -> T]
      BY <3>1, <3>2
    <3> QED
      BY <3>2, <3>3, SeqDef
  <2>4. listed \in Seq(T)
    BY <1>1, <2>2, SeqDef
  <2>5. scripts \in Seq(T)
    BY <1>1, <2>2, SeqDef
  <2> QED
    BY <2>3, <2>4, <2>5
<1> HIDE DEF T
<1> DEFINE first == RunnerAssets \o listed
<1>7. first \in Seq(T)
  BY <1>6, ConcatProperties
<1>8. Ids(first) = RunnerAssetIds \o Ids(listed)
  <2>1. Ids(RunnerAssets \o listed) = Ids(RunnerAssets) \o Ids(listed)
    BY <1>6, IdsJoined
  <2> QED
    BY <2>1, RunnerAssetsAccepted
<1>9. Ids(first \o scripts) = Ids(first) \o Ids(scripts)
  <2> HIDE DEF first
  <2> QED
    BY <1>6, <1>7, IdsJoined
<1>10. Ids(Assets(input)) = AssetIds(input)
  BY <1>3, <1>4, <1>8, <1>9
<1>11. Assets(input) \in Seq(T)
  <2>1. first \o scripts \in Seq(T)
    <3> HIDE DEF first
    <3> QED
      BY <1>6, <1>7, ConcatProperties
  <2> QED
    BY <1>4, <2>1
<1>12. \A i \in DOMAIN Assets(input) : AcceptsAsset(Assets(input)[i])
  <2> DEFINE all == Assets(input)
  <2>1. all \in Seq(T)
    BY <1>11
  <2> HIDE DEF all
  <2>2. \A i \in DOMAIN all : all[i] \in T
    BY <2>1, LenProperties, ElementOfSeq
  <2> QED
    BY <1>5, <2>2 DEF all
<1>13. RunnerNames \subseteq Range(Ids(Assets(input)))
  <2>1. Range(Assets(input)) = Range(first) \cup Range(scripts)
    <3>1. Range(first \o scripts) = Range(first) \cup Range(scripts)
      <4> HIDE DEF first
      <4> QED
        BY <1>6, <1>7, RangeConcatenation
    <3> QED
      BY <1>4, <3>1
  <2>2. Range(first) = Range(RunnerAssets) \cup Range(listed)
    BY <1>6, RangeConcatenation
  <2>3. Range(Ids(RunnerAssets)) = RunnerNames
    BY RunnerAssetsAccepted DEF RunnerAssetIds, Range, RunnerNames
  <2>4. \A list : Range(Ids(list)) = {resource.id : resource \in Range(list)}
    BY DEF Range, Ids
  <2> HIDE DEF first
  <2> QED
    BY <2>1, <2>2, <2>3, <2>4
<1> QED
  BY <1>10, <1>12, <1>13

LEMMA ManifestAccepted ==
  ASSUME SomePath, Prefixed, RunnerNames \subseteq Identifier, NEW input, Normal(input),
         IsInjective(AssetIds(input))
  PROVE  AcceptsManifest(Manifest(input))
<1> DEFINE manifest == Manifest(input)
           installation == [runtimeAssetId |-> "runner-runtime",
                            entrypointAssetId |-> "runner-entrypoint"]
           base == [account |-> input.account, runnerInstallation |-> installation]
           rest == IF Has(input, "network") THEN [network |-> input.network] ELSE <<>>
           bootstrap == Joined(base, rest)
           templates == [i \in DOMAIN input.prompts |-> PromptDescriptor(input.prompts[i])]
<1>1. /\ DOMAIN manifest = {"schemaVersion", "agent", "bootstrap", "assets", "prompts"}
      /\ manifest.schemaVersion = 1 /\ manifest.agent = input.agent
      /\ manifest.bootstrap = bootstrap /\ manifest.assets = Assets(input)
      /\ manifest.prompts = templates
  BY DEF Manifest
<1> HIDE DEF manifest
<1>2. /\ \A i \in DOMAIN input.prompts : ParsesPrompt(input.prompts[i])
      /\ IsInjective(Ids(input.prompts))
      /\ ParsesAccount(input.account) /\ ParsedAccount(input.account) = input.account
      /\ Has(input, "network") => ParsesNetwork(input.network)
      /\ Has(input, "network") => ParsedNetwork(input.network) = input.network
      /\ Listed(input, "scripts") = input.scripts
  <2>1. "scripts" \in DefinitionFields
    BY DEF DefinitionFields
  <2> QED
    BY <2>1, NormalFields
<1>3. /\ ParsesParts(input) /\ Object(input.agent, {"id", "displayName"}, {})
      /\ ParsesIdentifier(input.agent.id) /\ ParsesString(input.agent.displayName)
  BY DEF Normal, Parses
<1>4. \A i \in DOMAIN input.scripts : ParsesReference(input.scripts[i], "script")
  BY <1>2, <1>3 DEF ParsesParts
<1>5. /\ \A i \in DOMAIN Assets(input) : AcceptsAsset(Assets(input)[i])
      /\ Ids(Assets(input)) = AssetIds(input)
      /\ RunnerNames \subseteq Range(Ids(Assets(input)))
  BY <1>4, AssetsAccepted
<1>6. /\ \A i \in DOMAIN templates : AcceptsPrompt(templates[i])
      /\ Ids(templates) = Ids(input.prompts)
  <2>1. ASSUME NEW i \in DOMAIN input.prompts
        PROVE  /\ AcceptsPrompt(PromptDescriptor(input.prompts[i]))
               /\ PromptDescriptor(input.prompts[i]).id = input.prompts[i].id
    <3> DEFINE one == input.prompts[i]
               described == PromptDescriptor(one)
    <3>1. /\ ParsesIdentifier(one.id) /\ IsInjective(one.variables)
          /\ \A j \in DOMAIN one.variables : ParsesIdentifier(one.variables[j])
      BY <1>2, <2>1 DEF ParsesPrompt
    <3>2. /\ DOMAIN described = {"id", "path", "variables"} /\ described.id = one.id
          /\ described.path = PromptPath(one.id) /\ described.variables = one.variables
      BY DEF PromptDescriptor
    <3>3. AcceptsPrefixed(PromptPath(one.id), "prompts")
      BY DEF PromptPath, AcceptsPrefixed
    <3> HIDE DEF described, one
    <3>4. AcceptsPrompt(described)
      BY <3>1, <3>2, <3>3 DEF AcceptsPrompt, Fields, ParsesIdentifier, AcceptsIdentifier
    <3> QED
      BY <3>2, <3>4 DEF described, one
  <2> QED
    BY <2>1 DEF Ids
<1>7. AcceptsBootstrap(bootstrap) /\ bootstrap.runnerInstallation = installation
  <2>1. /\ DOMAIN base = {"account", "runnerInstallation"} /\ base.account = input.account
        /\ base.runnerInstallation = installation
        /\ DOMAIN rest = IF Has(input, "network") THEN {"network"} ELSE {}
        /\ Has(input, "network") => rest.network = input.network
        /\ DOMAIN installation = {"runtimeAssetId", "entrypointAssetId"}
    OBVIOUS
  <2> HIDE DEF base, rest, installation
  <2>2. /\ DOMAIN bootstrap = {"account", "runnerInstallation"}
                                \cup (IF Has(input, "network") THEN {"network"} ELSE {})
        /\ bootstrap.account = input.account /\ bootstrap.runnerInstallation = installation
        /\ Has(input, "network") => bootstrap.network = input.network
    <3>1. /\ DOMAIN Joined(base, rest) = DOMAIN base \cup DOMAIN rest
          /\ \A field \in DOMAIN base : Joined(base, rest)[field] = base[field]
          /\ \A field \in DOMAIN rest \ DOMAIN base : Joined(base, rest)[field] = rest[field]
          /\ Joined(base, rest) = [field \in DOMAIN Joined(base, rest) |->
                                     Joined(base, rest)[field]]
      BY JoinedFields
    <3>2. Has(input, "network") => "network" \in DOMAIN rest \ DOMAIN base
      BY <2>1
    <3>3. {"account", "runnerInstallation"} \subseteq DOMAIN base
      BY <2>1
    <3>4. bootstrap = Joined(base, rest)
      OBVIOUS
    <3> HIDE DEF bootstrap
    <3> QED
      BY <2>1, <3>1, <3>2, <3>3, <3>4
  <2>3. /\ AcceptsAccount(input.account)
        /\ Has(input, "network") => AcceptsNetwork(input.network)
    BY <1>2, AccountAccepted, NetworkAccepted
  <2> HIDE DEF bootstrap
  <2>4. AcceptsBootstrap(bootstrap)
    BY <2>1, <2>2, <2>3 DEF AcceptsBootstrap, Fields, Has
  <2> QED
    BY <2>2, <2>4
<1>8. Range(installation) = RunnerNames
  BY DEF Range, RunnerNames
<1> HIDE DEF bootstrap, installation, templates
<1>9. AcceptsManifest(manifest)
  <2>1. Fields(manifest, {"schemaVersion", "agent", "bootstrap", "assets", "prompts"}, {})
    BY <1>1 DEF Fields
  <2>2. /\ Fields(manifest.agent, {"id", "displayName"}, {})
        /\ AcceptsIdentifier(manifest.agent.id) /\ AcceptsString(manifest.agent.displayName)
    BY <1>1, <1>3 DEF Fields, Object, AcceptsIdentifier, ParsesIdentifier, AcceptsString,
                      ParsesString
  <2>3. /\ \A i \in DOMAIN manifest.assets : AcceptsAsset(manifest.assets[i])
        /\ \A i \in DOMAIN manifest.prompts : AcceptsPrompt(manifest.prompts[i])
        /\ IsInjective(Ids(manifest.assets)) /\ IsInjective(Ids(manifest.prompts))
    BY <1>1, <1>2, <1>5, <1>6
  <2>4. /\ AcceptsBootstrap(manifest.bootstrap)
        /\ Range(manifest.bootstrap.runnerInstallation) \subseteq Range(Ids(manifest.assets))
    BY <1>1, <1>5, <1>7, <1>8
  <2> QED
    BY <1>1, <2>1, <2>2, <2>3, <2>4 DEF AcceptsManifest
<1> QED
  BY <1>9 DEF manifest

(* The manifest and the runner's plan made of a parsed definition whose    *)
(* assets have ids of their own are accepted by the documents' schemas,    *)
(* and their references to each other hold, with any lock that is accepted *)
(* (synthesize.ts, assembly.ts).                                           *)
THEOREM DocumentsAccepted ==
  ASSUME SomePath, Prefixed, RunnerNames \subseteq Identifier, NEW input, Normal(input),
         IsInjective(AssetIds(input)), NEW lock, AcceptsLock(lock)
  PROVE  AcceptsDocuments(Manifest(input), RunnerPlan(input), lock)
<1> DEFINE manifest == Manifest(input)
           plan == RunnerPlan(input)
           steps == input.steps
<1>1. AcceptsManifest(manifest) /\ AcceptsPlan(plan)
  BY ManifestAccepted, PlanAccepted
<1>2. manifest.agent.id = plan.agentId
  BY DEF Manifest, RunnerPlan
<1>3. /\ manifest.prompts = [i \in DOMAIN input.prompts |-> PromptDescriptor(input.prompts[i])]
      /\ plan.steps = [i \in DOMAIN steps |-> RunnerStep(steps[i])]
  BY DEF Manifest, RunnerPlan
<1>4. /\ \A i \in DOMAIN steps : ParsesStep(steps[i])
      /\ \A i \in DOMAIN steps : ParsedStep(steps[i]) = steps[i]
      /\ ValidReferences(input) /\ Listed(input, "prompts") = input.prompts
  <2>1. "prompts" \in DefinitionFields
    BY DEF DefinitionFields
  <2> QED
    BY <2>1, NormalFields
<1> HIDE DEF manifest, plan
<1>5. ASSUME NEW i \in DOMAIN plan.steps, plan.steps[i].kind = "prompt"
      PROVE  \E template \in Range(manifest.prompts) :
               /\ template.id = plan.steps[i].templateId
               /\ Range(template.variables) = Range(BoundNames(plan.steps[i].variables))
  <2> DEFINE one == steps[i]
  <2>1. i \in DOMAIN steps /\ plan.steps[i] = RunnerStep(one) /\ Written(one)
    BY <1>3, <1>4, <1>5, EveryStepWritten
  <2>2. plan.steps[i] = one /\ one.kind = "prompt"
    BY <1>5, <2>1 DEF Written
  <2>3. PICK p \in DOMAIN input.prompts :
          /\ input.prompts[p].id = one.templateId
          /\ Range(input.prompts[p].variables) = Range(Names(one.variables))
    <3>1. \E template \in Range(input.prompts) :
            /\ template.id = one.templateId
            /\ Range(template.variables) = Range(Names(one.variables))
      BY <1>4, <2>1, <2>2 DEF ValidReferences
    <3> HIDE DEF one
    <3>2. PICK template \in Range(input.prompts) :
            /\ template.id = one.templateId
            /\ Range(template.variables) = Range(Names(one.variables))
      BY <3>1
    <3>3. PICK p \in DOMAIN input.prompts : template = input.prompts[p]
      BY DEF Range
    <3> QED
      BY <3>2, <3>3
  <2> DEFINE template == PromptDescriptor(input.prompts[p])
  <2>4. template.id = input.prompts[p].id /\ template.variables = input.prompts[p].variables
    BY DEF PromptDescriptor
  <2>5. template \in Range(manifest.prompts)
    BY <1>3 DEF Range
  <2>6. BoundNames(one.variables) = Names(one.variables)
    BY DEF BoundNames, Names
  <2> HIDE DEF template, one
  <2> QED
    BY <2>2, <2>3, <2>4, <2>5, <2>6
<1>6. PromptReferencesHold(manifest, plan)
  BY <1>5 DEF PromptReferencesHold
<1>7. AcceptsDocuments(manifest, plan, lock)
  BY <1>1, <1>2, <1>6 DEF AcceptsDocuments
<1> QED
  BY <1>7 DEF manifest, plan

(* What the command has checked when it goes on.                           *)
LEMMA FirstOfNone ==
  ASSUME NEW refusals, DOMAIN refusals \subseteq Nat, FirstOf(refusals) = 0
  PROVE  \A i \in DOMAIN refusals : refusals[i] = 0
<1> DEFINE real == {i \in DOMAIN refusals : refusals[i] # 0}
<1>1. ASSUME real # {}
      PROVE  FALSE
  <2>1. real \in SUBSET Nat
    OBVIOUS
  <2>2. PICK n \in real : \A m \in real : n <= m
    <3> HIDE DEF real
    <3> QED
      BY <1>1, <2>1, Least
  <2>3. Min(real) \in real
    BY <2>2 DEF Min
  <2>4. FirstOf(refusals) = refusals[Min(real)]
    BY <1>1 DEF FirstOf
  <2> QED
    BY <2>3, <2>4
<1> QED
  BY <1>1

LEMMA LoadedNormal ==
  ASSUME NoArray, NEW source, NEW files, LoaderRefusal(source, files) = 0
  PROVE  Normal(Loaded(source))
<1> DEFINE exported == Exported(source)
           input == Joined([definitionUrl |-> DefinitionUrl], exported)
<1>1. ExportRefusal(exported) = 0
  BY DEF LoaderRefusal
<1>2. Parses(input)
  BY <1>1 DEF ExportRefusal
<1>3. Loaded(source) = Parsed(input)
  BY DEF Loaded
<1> HIDE DEF input
<1>4. ParsesAgain(input)
  BY <1>2, DefinitionAgain
<1> QED
  BY <1>3, <1>4 DEF ParsesAgain, Normal

LEMMA LockAccepted ==
  ASSUME NEW input, NEW lock, LockRefusal(input, lock) = 0
  PROVE  AcceptsLock(lock)
BY DEF LockRefusal

LEMMA ResourcesApart ==
  ASSUME NEW input, NEW files, ResourceRefusal(input, files) = 0
  PROVE  IsInjective(AssetIds(input))
BY DEF ResourceRefusal

-----------------------------------------------------------------------------
(* The paths of an assembly's files.                                       *)
LEMMA InjectiveJoined ==
  ASSUME NEW T, NEW first \in Seq(T), NEW second \in Seq(T),
         IsInjective(first), IsInjective(second), Range(first) \cap Range(second) = {}
  PROVE  IsInjective(first \o second)
<1> DEFINE A == Len(first)
           B == Len(second)
           both == first \o second
<1>1. A \in Nat /\ B \in Nat /\ DOMAIN first = 1..A /\ DOMAIN second = 1..B
  BY LenProperties
<1>2. /\ both \in Seq(T) /\ Len(both) = A + B
      /\ \A i \in 1..A + B : both[i] = IF i <= A THEN first[i] ELSE second[i - A]
  BY ConcatProperties
<1>3. DOMAIN both = 1..A + B
  BY <1>2, LenProperties
<1> HIDE DEF A, B, both
<1>4. ASSUME NEW i \in 1..A + B, NEW j \in 1..A + B, both[i] = both[j]
      PROVE  i = j
  <2>1. CASE i <= A /\ j <= A
    <3>1. i \in 1..A /\ j \in 1..A /\ first[i] = first[j]
      BY <1>1, <1>2, <1>4, <2>1
    <3> QED
      BY <1>1, <3>1 DEF IsInjective
  <2>2. CASE ~(i <= A) /\ ~(j <= A)
    <3>1. i - A \in 1..B /\ j - A \in 1..B /\ second[i - A] = second[j - A]
      BY <1>1, <1>2, <1>4, <2>2
    <3>2. i - A = j - A
      BY <1>1, <3>1 DEF IsInjective
    <3> QED
      BY <1>1, <3>2
  <2>3. CASE i <= A /\ ~(j <= A)
    <3>1. i \in 1..A /\ j - A \in 1..B /\ first[i] = second[j - A]
      BY <1>1, <1>2, <1>4, <2>3
    <3> QED
      BY <1>1, <3>1 DEF Range
  <2>4. CASE ~(i <= A) /\ j <= A
    <3>1. j \in 1..A /\ i - A \in 1..B /\ first[j] = second[i - A]
      BY <1>1, <1>2, <1>4, <2>4
    <3> QED
      BY <1>1, <3>1 DEF Range
  <2> QED
    BY <2>1, <2>2, <2>3, <2>4
<1> QED
  BY <1>3, <1>4 DEF IsInjective, both

(* An identifier is a segment of a path that is no dot.                    *)
NoDots == Identifier \cap {"", ".", ".."} = {}

(* The paths every assembly has, and those named by the definition's ids.  *)
FixedPaths ==
  <<<<"manifest.json">>, <<"runner-plan.json">>, <<"os-lock.json">>, RuntimePath, EntrypointPath>>

NamedPaths ==
  {AssetPath(id) : id \in Identifier} \cup {ScriptPath(id) : id \in Identifier}
    \cup {PromptPath(id) : id \in Identifier}

(* The paths of the parts differ in kind, and within a kind in the id.     *)
LEMMA PathsApart ==
  ASSUME NEW one, NEW other
  PROVE  /\ AssetPath(one) = AssetPath(other) => one = other
         /\ ScriptPath(one) = ScriptPath(other) => one = other
         /\ PromptPath(one) = PromptPath(other) => one = other
         /\ AssetPath(one) # ScriptPath(other) /\ AssetPath(one) # PromptPath(other)
         /\ ScriptPath(one) # PromptPath(other)
<1>1. /\ AssetPath(one)[3] = one /\ AssetPath(other)[3] = other
      /\ ScriptPath(one)[3] = one /\ ScriptPath(other)[3] = other
      /\ PromptPath(one)[2] = one /\ PromptPath(other)[2] = other
      /\ AssetPath(one)[2] = "resources" /\ ScriptPath(other)[2] = "scripts"
      /\ AssetPath(one)[1] = "assets" /\ ScriptPath(one)[1] = "assets"
      /\ PromptPath(other)[1] = "prompts"
  BY DEF AssetPath, ScriptPath, PromptPath
<1> QED
  BY <1>1

LEMMA FixedApart ==
  /\ FixedPaths \in Seq(Range(FixedPaths)) /\ IsInjective(FixedPaths)
  /\ Range(FixedPaths) \cap NamedPaths = {}
<1>1. FixedPaths \in Seq(Range(FixedPaths))
  <2>1. \A a, b, c, d, e : <<a, b, c, d, e>> \in Seq(Range(<<a, b, c, d, e>>))
    BY DEF Range
  <2> QED
    BY <2>1 DEF FixedPaths
<1>2. /\ Len(RuntimePath) = 3 /\ RuntimePath[2] = "runner" /\ RuntimePath[3] = "runtime"
      /\ RuntimePath[1] = "assets" /\ EntrypointPath[1] = "assets"
      /\ Len(EntrypointPath) = 3 /\ EntrypointPath[2] = "runner"
      /\ EntrypointPath[3] = "entrypoint.mjs"
      /\ Len(<<"manifest.json">>) = 1 /\ <<"manifest.json">>[1] = "manifest.json"
      /\ Len(<<"runner-plan.json">>) = 1 /\ <<"runner-plan.json">>[1] = "runner-plan.json"
      /\ Len(<<"os-lock.json">>) = 1 /\ <<"os-lock.json">>[1] = "os-lock.json"
  BY DEF RuntimePath, EntrypointPath
<1> DEFINE a == <<"manifest.json">>
           b == <<"runner-plan.json">>
           c == <<"os-lock.json">>
<1>3. FixedPaths = <<a, b, c, RuntimePath, EntrypointPath>>
  BY DEF FixedPaths
<1>4. /\ a # b /\ a # c /\ b # c /\ a # RuntimePath /\ b # RuntimePath /\ c # RuntimePath
      /\ a # EntrypointPath /\ b # EntrypointPath /\ c # EntrypointPath
      /\ RuntimePath # EntrypointPath
  BY <1>2
<1>5. \A id \in Identifier :
        /\ Len(AssetPath(id)) = 3 /\ AssetPath(id)[2] = "resources"
        /\ Len(ScriptPath(id)) = 3 /\ ScriptPath(id)[2] = "scripts"
        /\ Len(PromptPath(id)) = 2
  BY DEF AssetPath, ScriptPath, PromptPath
<1> HIDE DEF a, b, c
<1>6. Len(a) = 1 /\ Len(b) = 1 /\ Len(c) = 1
  BY <1>2 DEF a, b, c
<1>7. \A path \in NamedPaths :
        Len(path) \in {2, 3} /\ path # RuntimePath /\ path # EntrypointPath
  BY <1>2, <1>5 DEF NamedPaths
<1>8. Range(<<a, b, c, RuntimePath, EntrypointPath>>) \cap NamedPaths = {}
  <2>1. Range(<<a, b, c, RuntimePath, EntrypointPath>>) = {a, b, c, RuntimePath, EntrypointPath}
    BY DEF Range
  <2> QED
    BY <1>6, <1>7, <2>1
<1>9. IsInjective(<<a, b, c, RuntimePath, EntrypointPath>>)
  BY <1>4 DEF IsInjective
<1> QED
  BY <1>1, <1>3, <1>8, <1>9

LEMMA SegmentsPlain ==
  ASSUME NoDots, NEW path \in Range(FixedPaths) \cup NamedPaths
  PROVE  path # <<>> /\ Range(path) \cap {"", ".", ".."} = {}
<1>1. \A x, y, z : Range(<<x, y, z>>) = {x, y, z} /\ <<x, y, z>> # <<>>
  BY DEF Range
<1>2. \A x, y : Range(<<x, y>>) = {x, y} /\ <<x, y>> # <<>>
  BY DEF Range
<1>3. \A x : Range(<<x>>) = {x} /\ <<x>> # <<>>
  BY DEF Range
<1>4. CASE path \in NamedPaths
  <2>1. PICK id \in Identifier :
          \/ path = <<"assets", "resources", id>> \/ path = <<"assets", "scripts", id>>
          \/ path = <<"prompts", id>>
    BY <1>4 DEF NamedPaths, AssetPath, ScriptPath, PromptPath
  <2>2. id \notin {"", ".", ".."}
    BY DEF NoDots
  <2>3. CASE path = <<"assets", "resources", id>>
    <3>1. Range(path) = {"assets", "resources", id} /\ path # <<>>
      BY <1>1, <2>3
    <3> QED
      BY <2>2, <3>1
  <2>4. CASE path = <<"assets", "scripts", id>>
    <3>1. Range(path) = {"assets", "scripts", id} /\ path # <<>>
      BY <1>1, <2>4
    <3> QED
      BY <2>2, <3>1
  <2>5. CASE path = <<"prompts", id>>
    <3>1. Range(path) = {"prompts", id} /\ path # <<>>
      BY <1>2, <2>5
    <3> QED
      BY <2>2, <3>1
  <2> QED
    BY <2>1, <2>3, <2>4, <2>5
<1>5. CASE path \in Range(FixedPaths)
  <2>1. \/ path = <<"manifest.json">> \/ path = <<"runner-plan.json">>
        \/ path = <<"os-lock.json">> \/ path = <<"assets", "runner", "runtime">>
        \/ path = <<"assets", "runner", "entrypoint.mjs">>
    BY <1>5 DEF Range, FixedPaths, RuntimePath, EntrypointPath
  <2>2. CASE path = <<"manifest.json">>
    <3>1. Range(path) = {"manifest.json"} /\ path # <<>>
      BY <1>3, <2>2
    <3> QED
      BY <3>1
  <2>3. CASE path = <<"runner-plan.json">>
    <3>1. Range(path) = {"runner-plan.json"} /\ path # <<>>
      BY <1>3, <2>3
    <3> QED
      BY <3>1
  <2>4. CASE path = <<"os-lock.json">>
    <3>1. Range(path) = {"os-lock.json"} /\ path # <<>>
      BY <1>3, <2>4
    <3> QED
      BY <3>1
  <2>5. CASE path = <<"assets", "runner", "runtime">>
    <3>1. Range(path) = {"assets", "runner", "runtime"} /\ path # <<>>
      BY <1>1, <2>5
    <3> QED
      BY <3>1
  <2>6. CASE path = <<"assets", "runner", "entrypoint.mjs">>
    <3>1. Range(path) = {"assets", "runner", "entrypoint.mjs"} /\ path # <<>>
      BY <1>1, <2>6
    <3> QED
      BY <3>1
  <2> QED
    BY <2>1, <2>2, <2>3, <2>4, <2>5, <2>6
<1> QED
  BY <1>4, <1>5

NormalIds(list) ==
  /\ Len(list) \in Nat /\ DOMAIN list = 1..Len(list)
  /\ \A i \in DOMAIN list : list[i].id \in Identifier
  /\ IsInjective(Ids(list))

LEMMA NormalNames ==
  ASSUME NoArray, NEW input, Normal(input)
  PROVE  NormalIds(input.assets) /\ NormalIds(input.scripts) /\ NormalIds(input.prompts)
<1>1. ParsesParts(input)
  BY DEF Normal, Parses
<1>2. /\ \A i \in DOMAIN input.assets : ParsesAsset(input.assets[i])
      /\ \A i \in DOMAIN input.prompts : ParsesPrompt(input.prompts[i])
      /\ \A field \in {"assets", "prompts", "providers", "steps", "scripts", "secrets"} :
           /\ Len(input[field]) \in Nat /\ DOMAIN input[field] = 1..Len(input[field])
      /\ IsInjective(Ids(input.prompts))
      /\ \A field \in DefinitionFields : Listed(input, field) = input[field]
  BY NormalFields
<1>3. /\ Listed(input, "assets") = input.assets /\ Listed(input, "scripts") = input.scripts
  BY <1>2 DEF DefinitionFields
<1>4. IsInjective(Ids(input.assets))
  <2>1. IsInjective(Ids(Listed(input, "assets")))
    BY <1>1 DEF ParsesParts
  <2> QED
    BY <1>3, <2>1
<1>5. \A i \in DOMAIN input.scripts : ParsesReference(input.scripts[i], "script")
  BY <1>1, <1>3 DEF ParsesParts
<1>6. IsInjective(Ids(input.scripts))
  <2>1. ParsesParts(input) /\ (Has(input, "network") => ParsesNetwork(input.network))
    BY DEF Normal, Parses
  <2>2. Uses(input) \in Seq(AnyUse)
    BY <2>1, UsesTyped
  <2>3. Parsed(input).scripts = Registry("script", Uses(input))
    BY ParsedFields
  <2>4. IsInjective(Ids(Registry("script", Uses(input))))
    BY <2>2, RegistryIds
  <2> QED
    BY <2>3, <2>4 DEF Normal
<1> QED
  BY <1>2, <1>4, <1>5, <1>6
     DEF NormalIds, ParsesAsset, ParsesPrompt, ParsesReference, ParsesIdentifier

LEMMA PathsOfList ==
  ASSUME NEW list, NormalIds(list), NEW S, NEW paths \in [DOMAIN list -> S],
         \A i, j \in DOMAIN list : paths[i] = paths[j] => list[i].id = list[j].id
  PROVE  paths \in Seq(S) /\ IsInjective(paths) /\ Range(paths) \subseteq S
<1> DEFINE n == Len(list)
<1>1. n \in Nat /\ DOMAIN list = 1..n
  BY DEF NormalIds
<1>2. IsInjective(paths)
  <2> SUFFICES ASSUME NEW i \in DOMAIN list, NEW j \in DOMAIN list, paths[i] = paths[j]
               PROVE  i = j
    BY DEF IsInjective
  <2>1. list[i].id = list[j].id
    OBVIOUS
  <2> QED
    BY <2>1 DEF NormalIds, IsInjective, Ids
<1>3. Range(paths) \subseteq S
  BY DEF Range
<1> HIDE DEF n
<1>4. paths \in Seq(S)
  BY <1>1, SeqDef
<1> QED
  BY <1>2, <1>3, <1>4

LEMMA WidenSeq ==
  ASSUME NEW S, NEW T, S \subseteq T, NEW list \in Seq(S)
  PROVE  list \in Seq(T)
<1> DEFINE n == Len(list)
<1>1. n \in Nat /\ list \in [1..n -> S]
  BY LenProperties, SeqDef
<1> HIDE DEF n
<1>2. list \in [1..n -> T]
  BY <1>1
<1> QED
  BY <1>1, <1>2, SeqDef

(* The writer's check of paths never stops an assembly made of a parsed    *)
(* definition: all are relative and plain, and none is written twice       *)
(* (writer.ts).                                                            *)
THEOREM PathsAsserted ==
  ASSUME NoArray, NoDots, NEW input, Normal(input), NEW files
  PROVE  AssertsPaths(FilePaths(input, files))
<1> DEFINE Each(list, P) == [i \in DOMAIN list |->
                               [path |-> P[list[i].id], contents |-> files[list[i].source.url]]]
           A == [id \in Identifier |-> AssetPath(id)]
           S == [id \in Identifier |-> ScriptPath(id)]
           Q == [id \in Identifier |-> PromptPath(id)]
           assets == Each(input.assets, A)
           scripts == Each(input.scripts, S)
           prompts == Each(input.prompts, Q)
           content == ContentFiles(input, files)
           pa == FieldOf(assets, "path")
           ps == FieldOf(scripts, "path")
           pp == FieldOf(prompts, "path")
           V == Range(FixedPaths) \cup NamedPaths
<1>1. NormalIds(input.assets) /\ NormalIds(input.scripts) /\ NormalIds(input.prompts)
  BY NormalNames
<1>2. content = (assets \o scripts) \o prompts
  <2>1. /\ assets = [i \in DOMAIN input.assets |->
                       [path |-> AssetPath(input.assets[i].id),
                        contents |-> files[input.assets[i].source.url]]]
        /\ scripts = [i \in DOMAIN input.scripts |->
                       [path |-> ScriptPath(input.scripts[i].id),
                        contents |-> files[input.scripts[i].source.url]]]
        /\ prompts = [i \in DOMAIN input.prompts |->
                       [path |-> PromptPath(input.prompts[i].id),
                        contents |-> files[input.prompts[i].source.url]]]
    BY <1>1 DEF NormalIds
  <2> HIDE DEF assets, scripts, prompts
  <2> QED
    BY <2>1 DEF ContentFiles
<1>3. FilePaths(input, files) = FixedPaths \o FieldOf(content, "path")
  BY DEF FilePaths, FixedPaths, FieldOf
<1>4. /\ pa = [i \in DOMAIN input.assets |-> A[input.assets[i].id]]
      /\ ps = [i \in DOMAIN input.scripts |-> S[input.scripts[i].id]]
      /\ pp = [i \in DOMAIN input.prompts |-> Q[input.prompts[i].id]]
  BY DEF FieldOf
<1>5. /\ DOMAIN A = Identifier /\ DOMAIN S = Identifier /\ DOMAIN Q = Identifier
      /\ \A one, other \in Identifier : A[one] = A[other] => one = other
      /\ \A one, other \in Identifier : S[one] = S[other] => one = other
      /\ \A one, other \in Identifier : Q[one] = Q[other] => one = other
  BY PathsApart
<1>6. /\ {A[id] : id \in Identifier} \cap {S[id] : id \in Identifier} = {}
      /\ {A[id] : id \in Identifier} \cap {Q[id] : id \in Identifier} = {}
      /\ {S[id] : id \in Identifier} \cap {Q[id] : id \in Identifier} = {}
      /\ {A[id] : id \in Identifier} \subseteq NamedPaths
      /\ {S[id] : id \in Identifier} \subseteq NamedPaths
      /\ {Q[id] : id \in Identifier} \subseteq NamedPaths
  BY PathsApart DEF NamedPaths
<1>7. \E T : assets \in Seq(T) /\ scripts \in Seq(T) /\ prompts \in Seq(T)
  <2> DEFINE T == Range(assets) \cup Range(scripts) \cup Range(prompts)
  <2>1. \A list \in {assets, scripts, prompts} :
          \E n \in Nat : list \in [1..n -> T]
    <3>1. assets \in [1..Len(input.assets) -> T] /\ Len(input.assets) \in Nat
      BY <1>1 DEF NormalIds, Range
    <3>2. scripts \in [1..Len(input.scripts) -> T] /\ Len(input.scripts) \in Nat
      BY <1>1 DEF NormalIds, Range
    <3>3. prompts \in [1..Len(input.prompts) -> T] /\ Len(input.prompts) \in Nat
      BY <1>1 DEF NormalIds, Range
    <3> HIDE DEF assets, scripts, prompts, T
    <3> QED
      BY <3>1, <3>2, <3>3
  <2> HIDE DEF assets, scripts, prompts, T
  <2>2. \A list \in {assets, scripts, prompts} : list \in Seq(T)
    BY <2>1, SeqDef
  <2> QED
    BY <2>2
<1> HIDE DEF assets, scripts, prompts, content, A, S, Q
<1>8. FieldOf(content, "path") = (pa \o ps) \o pp
  <2>1. PICK T : assets \in Seq(T) /\ scripts \in Seq(T) /\ prompts \in Seq(T)
    BY <1>7
  <2> DEFINE both == assets \o scripts
  <2>2. both \in Seq(T)
    BY <2>1, ConcatProperties
  <2>3. FieldOf(both, "path") = pa \o ps
    BY <2>1, FieldsJoined
  <2> HIDE DEF both
  <2>4. FieldOf(both \o prompts, "path") = FieldOf(both, "path") \o pp
    BY <2>1, <2>2, FieldsJoined
  <2> QED
    BY <1>2, <2>3, <2>4 DEF both
<1> HIDE DEF pa, ps, pp
<1> DEFINE AA == {A[id] : id \in Identifier}
           SS == {S[id] : id \in Identifier}
           QQ == {Q[id] : id \in Identifier}
<1>9. pa \in Seq(AA) /\ IsInjective(pa) /\ Range(pa) \subseteq AA
  <2> DEFINE list == input.assets
  <2>1. NormalIds(list)
    BY <1>1
  <2>2. pa = [i \in DOMAIN list |-> A[list[i].id]]
    BY <1>4
  <2>3. \A id \in Identifier : A[id] \in AA
    OBVIOUS
  <2>4. \A i \in DOMAIN list : list[i].id \in Identifier
    BY <2>1 DEF NormalIds
  <2> HIDE DEF AA, list
  <2>5. pa \in [DOMAIN list -> AA]
    BY <2>2, <2>3, <2>4
  <2>6. \A i, j \in DOMAIN list : pa[i] = pa[j] => list[i].id = list[j].id
    <3> SUFFICES ASSUME NEW i \in DOMAIN list, NEW j \in DOMAIN list, pa[i] = pa[j]
                 PROVE  list[i].id = list[j].id
      OBVIOUS
    <3>1. list[i].id \in Identifier /\ list[j].id \in Identifier
      BY <2>4
    <3>2. A[list[i].id] = A[list[j].id]
      BY <2>2
    <3> QED
      BY <1>5, <3>1, <3>2
  <2> QED
    BY <2>1, <2>5, <2>6, PathsOfList
<1>10. ps \in Seq(SS) /\ IsInjective(ps) /\ Range(ps) \subseteq SS
  <2> DEFINE list == input.scripts
  <2>1. NormalIds(list)
    BY <1>1
  <2>2. ps = [i \in DOMAIN list |-> S[list[i].id]]
    BY <1>4
  <2>3. \A id \in Identifier : S[id] \in SS
    OBVIOUS
  <2>4. \A i \in DOMAIN list : list[i].id \in Identifier
    BY <2>1 DEF NormalIds
  <2> HIDE DEF SS, list
  <2>5. ps \in [DOMAIN list -> SS]
    BY <2>2, <2>3, <2>4
  <2>6. \A i, j \in DOMAIN list : ps[i] = ps[j] => list[i].id = list[j].id
    <3> SUFFICES ASSUME NEW i \in DOMAIN list, NEW j \in DOMAIN list, ps[i] = ps[j]
                 PROVE  list[i].id = list[j].id
      OBVIOUS
    <3>1. list[i].id \in Identifier /\ list[j].id \in Identifier
      BY <2>4
    <3>2. S[list[i].id] = S[list[j].id]
      BY <2>2
    <3> QED
      BY <1>5, <3>1, <3>2
  <2> QED
    BY <2>1, <2>5, <2>6, PathsOfList
<1>11. pp \in Seq(QQ) /\ IsInjective(pp) /\ Range(pp) \subseteq QQ
  <2> DEFINE list == input.prompts
  <2>1. NormalIds(list)
    BY <1>1
  <2>2. pp = [i \in DOMAIN list |-> Q[list[i].id]]
    BY <1>4
  <2>3. \A id \in Identifier : Q[id] \in QQ
    OBVIOUS
  <2>4. \A i \in DOMAIN list : list[i].id \in Identifier
    BY <2>1 DEF NormalIds
  <2> HIDE DEF QQ, list
  <2>5. pp \in [DOMAIN list -> QQ]
    BY <2>2, <2>3, <2>4
  <2>6. \A i, j \in DOMAIN list : pp[i] = pp[j] => list[i].id = list[j].id
    <3> SUFFICES ASSUME NEW i \in DOMAIN list, NEW j \in DOMAIN list, pp[i] = pp[j]
                 PROVE  list[i].id = list[j].id
      OBVIOUS
    <3>1. list[i].id \in Identifier /\ list[j].id \in Identifier
      BY <2>4
    <3>2. Q[list[i].id] = Q[list[j].id]
      BY <2>2
    <3> QED
      BY <1>5, <3>1, <3>2
  <2> QED
    BY <2>1, <2>5, <2>6, PathsOfList
<1>12. /\ AA \cap SS = {} /\ AA \cap QQ = {} /\ SS \cap QQ = {}
       /\ AA \subseteq NamedPaths /\ SS \subseteq NamedPaths /\ QQ \subseteq NamedPaths
  BY <1>6
<1> HIDE DEF AA, SS, QQ
<1>13. pa \in Seq(NamedPaths) /\ ps \in Seq(NamedPaths) /\ pp \in Seq(NamedPaths)
  BY <1>9, <1>10, <1>11, <1>12, WidenSeq
<1> DEFINE one == pa \o ps
<1>14. one \in Seq(NamedPaths) /\ IsInjective(one) /\ Range(one) = Range(pa) \cup Range(ps)
  <2>1. one \in Seq(NamedPaths)
    BY <1>13, ConcatProperties
  <2>2. Range(one) = Range(pa) \cup Range(ps)
    BY <1>13, RangeConcatenation
  <2>3. Range(pa) \cap Range(ps) = {}
    BY <1>9, <1>10, <1>12
  <2>4. IsInjective(one)
    BY <1>9, <1>10, <1>13, <2>3, InjectiveJoined
  <2> QED
    BY <2>1, <2>2, <2>4
<1> HIDE DEF one
<1> DEFINE two == one \o pp
<1>15. two \in Seq(NamedPaths) /\ IsInjective(two)
  <2>1. two \in Seq(NamedPaths)
    BY <1>13, <1>14, ConcatProperties
  <2>2. Range(one) \cap Range(pp) = {}
    BY <1>9, <1>10, <1>11, <1>12, <1>14
  <2>3. IsInjective(two)
    BY <1>11, <1>13, <1>14, <2>2, InjectiveJoined
  <2> QED
    BY <2>1, <2>3
<1> HIDE DEF two
<1>16. Range(two) \subseteq NamedPaths
  BY <1>15, LenProperties, ElementOfSeq DEF Range
<1> DEFINE paths == FixedPaths \o two
<1>17. paths \in Seq(V) /\ IsInjective(paths)
  <2>1. FixedPaths \in Seq(V) /\ two \in Seq(V)
    BY <1>15, FixedApart, WidenSeq
  <2>2. Range(FixedPaths) \cap Range(two) = {} /\ IsInjective(FixedPaths)
    BY <1>16, FixedApart
  <2> HIDE DEF V
  <2>3. paths \in Seq(V)
    BY <2>1, ConcatProperties
  <2>4. IsInjective(paths)
    BY <1>15, <2>1, <2>2, InjectiveJoined
  <2> QED
    BY <2>3, <2>4
<1> HIDE DEF paths
<1>18. \A i \in DOMAIN paths : paths[i] \in V
  <2> HIDE DEF V
  <2> QED
    BY <1>17, LenProperties, ElementOfSeq
<1>19. AssertsPaths(paths)
  BY <1>17, <1>18, SegmentsPlain DEF AssertsPaths
<1> QED
  BY <1>3, <1>8, <1>19 DEF paths, two, one

-----------------------------------------------------------------------------
(* The command: what it has established, by the phase it is in. No schema  *)
(* is asked again between the phases, so this is what carries the          *)
(* agreement: a definition in hand is a parsed one, and one that was       *)
(* collected has an accepted lock and assets of different ids.             *)
ParsedFile(source) == Normal(Loaded(source))
ApartFile(source) == IsInjective(AssetIds(Loaded(source)))

(* Two commands, or one and the edits, share the files: what was read is   *)
(* the value that was checked, whatever becomes of the files.              *)
Checked ==
  /\ users \subseteq Writer /\ DOMAIN phase = Writer
  /\ \A source, others : file = source /\ inputs = others =>
       \A w \in Writer :
         /\ phase[w] \in {"loaded", "collected", "planned", "writing"} => ParsedFile(source)
         /\ phase[w] \in {"collected", "planned", "writing"} =>
              AcceptsLock(others.lock) /\ ApartFile(source)

LEMMA MovesKeeps ==
  ASSUME Checked, NEW w \in users, NEW here, NEW refusals, NEW next,
         Moves(w, here, refusals, next),
         refusals \subseteq {0} =>
           \A source, others : file = source /\ inputs = others =>
             /\ next \in {"loaded", "collected", "planned", "writing"} => ParsedFile(source)
             /\ next \in {"collected", "planned", "writing"} =>
                  AcceptsLock(others.lock) /\ ApartFile(source)
  PROVE  Checked'
<1>1. users' = users /\ file' = file /\ inputs' = inputs
  BY DEF Moves
<1>2. DOMAIN phase' = Writer /\ \A u \in Writer \ {w} : phase'[u] = phase[u]
  BY DEF Moves, Set, Checked
<1>3. w \in Writer
  BY DEF Checked
<1>4. phase'[w] = "refused" \/ (refusals \subseteq {0} /\ phase'[w] = next)
  BY <1>3 DEF Moves, Set, Checked
<1> QED
  BY <1>1, <1>2, <1>3, <1>4 DEF Checked

LEMMA LoadKeeps ==
  ASSUME NoArray, Checked, NEW w \in users, Load(w)
  PROVE  Checked'
<1> DEFINE refusals == {LoaderRefusal(file, tree), IF inputs.readable THEN 0 ELSE 7}
<1>1. Moves(w, "start", refusals, "loaded")
  BY DEF Load
<1>2. ASSUME refusals \subseteq {0}, NEW source, file = source
      PROVE  ParsedFile(source)
  <2>1. LoaderRefusal(source, tree) = 0
    BY <1>2
  <2> QED
    BY <2>1, LoadedNormal DEF ParsedFile
<1> HIDE DEF refusals
<1> QED
  BY <1>1, <1>2, MovesKeeps

LEMMA CollectKeeps ==
  ASSUME Checked, NEW w \in users, Collect(w)
  PROVE  Checked'
<1> DEFINE kept == LockRefusal(definition, inputs.lock)
           read == CollectionRefusal(definition, tree)
           held == ResourceRefusal(definition, tree)
           three == <<kept, read, held>>
           refusals == {FirstOf(three)}
<1>1. Moves(w, "loaded", refusals, "collected")
  BY DEF Collect
<1>2. ASSUME refusals \subseteq {0}, NEW source, NEW others, file = source, inputs = others
      PROVE  ParsedFile(source) /\ AcceptsLock(others.lock) /\ ApartFile(source)
  <2>1. FirstOf(three) = 0
    BY <1>2
  <2>2. DOMAIN three \subseteq Nat /\ DOMAIN three = {1, 2, 3}
    OBVIOUS
  <2>3. three[1] = kept /\ three[3] = held
    OBVIOUS
  <2> HIDE DEF three
  <2>4. \A i \in DOMAIN three : three[i] = 0
    BY <2>1, <2>2, FirstOfNone
  <2>5. kept = 0 /\ held = 0
    BY <2>2, <2>3, <2>4
  <2>6. LockRefusal(Loaded(source), others.lock) = 0 /\ ResourceRefusal(Loaded(source), tree) = 0
    BY <1>2, <2>5 DEF definition
  <2>7. AcceptsLock(others.lock) /\ ApartFile(source)
    BY <2>6, LockAccepted, ResourcesApart DEF ApartFile
  <2>8. ParsedFile(source)
    BY <1>1, <1>2 DEF Checked, Moves
  <2> QED
    BY <2>7, <2>8
<1> HIDE DEF refusals
<1> QED
  BY <1>1, <1>2, MovesKeeps

LEMMA SynthesizeKeeps ==
  ASSUME Checked, NEW w \in users, Synthesize(w)
  PROVE  Checked'
<1> DEFINE next == IF planOnly[w] THEN "planned" ELSE "writing"
           refusals == {DocumentRefusal(definition, inputs.lock)}
<1>1. Moves(w, "collected", refusals, next)
  BY DEF Synthesize
<1>2. \A source, others : file = source /\ inputs = others =>
        ParsedFile(source) /\ AcceptsLock(others.lock) /\ ApartFile(source)
  BY <1>1 DEF Checked, Moves
<1> HIDE DEF refusals, next
<1> QED
  BY <1>1, <1>2, MovesKeeps

LEMMA OthersKeep ==
  ASSUME Checked, UNCHANGED <<users, phase, file, inputs>>
  PROVE  Checked'
BY DEF Checked

LEMMA CheckedSteps ==
  ASSUME NoArray, Checked, [SynthNext]_synthVars
  PROVE  Checked'
<1>1. ASSUME NEW w \in users, Plan(w) \/ WriteAssembly(w) \/ Customize(w) \/ Boot(w)
      PROVE  Checked'
  BY <1>1, OthersKeep DEF Plan, WriteAssembly, Customize, Boot, commandVars
<1>2. CASE LosePower \/ \E url, contents : Edit(url, contents)
  BY <1>2, OthersKeep DEF LosePower, Edit, commandVars
<1>3. CASE UNCHANGED synthVars
  BY <1>3, OthersKeep DEF synthVars, commandVars
<1> QED
  BY <1>1, <1>2, <1>3, LoadKeeps, CollectKeeps, SynthesizeKeeps DEF SynthNext, CommandNext

LEMMA CheckedAgrees ==
  ASSUME NoArray, SomePath, Prefixed, RunnerNames \subseteq Identifier, NoDots, Checked
  PROVE  SchemasAgree
<1> DEFINE others == inputs
<1>1. ASSUME NEW w \in Writer, phase[w] = "loaded"
      PROVE  Parses(definition) /\ Parsed(definition) = definition
  <2>1. ParsedFile(file)
    BY <1>1 DEF Checked
  <2> QED
    BY <2>1 DEF ParsedFile, Normal, definition
<1>2. ASSUME NEW w \in Writer, phase[w] = "collected"
      PROVE  DocumentRefusal(definition, inputs.lock) = 0
  <2>1. Normal(definition) /\ AcceptsLock(inputs.lock) /\ IsInjective(AssetIds(definition))
    BY <1>2 DEF Checked, ParsedFile, ApartFile, definition
  <2>2. AcceptsDocuments(Manifest(definition), RunnerPlan(definition), inputs.lock)
    BY <2>1, DocumentsAccepted
  <2> QED
    BY <2>2 DEF DocumentRefusal
<1>3. ASSUME NEW w \in Writer, phase[w] = "writing"
      PROVE  AssertsPaths(Paths(w))
  <2>1. Normal(definition)
    BY <1>3 DEF Checked, ParsedFile, definition
  <2> QED
    BY <2>1, PathsAsserted DEF Paths
<1> QED
  BY <1>1, <1>2, <1>3 DEF SchemasAgree

(* Whatever the definition and the other inputs, however many commands run *)
(* and whatever is edited meanwhile: a definition that was loaded parses   *)
(* again to itself, the documents' schemas accept what is synthesized from *)
(* it, and the writer's check of paths never stops it (definition.ts,      *)
(* assembly.ts: assemblyDocumentsSchema, writer.ts).                       *)
THEOREM SchemaAgreement ==
  ASSUME NoArray, SomePath, Prefixed, RunnerNames \subseteq Identifier, NoDots
  PROVE  SynthSpec => []SchemasAgree
<1>1. WriterInit /\ CommandInit /\ users \subseteq Writer => Checked
  BY DEF CommandInit, Checked
<1>2. Checked /\ [SynthNext]_synthVars => Checked'
  BY CheckedSteps
<1>3. Checked => SchemasAgree
  BY CheckedAgrees
<1> QED
  BY <1>1, <1>2, <1>3, PTL DEF SynthSpec
=============================================================================
