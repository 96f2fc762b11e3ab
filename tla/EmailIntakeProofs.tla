--------------------------- MODULE EmailIntakeProofs ---------------------------
(* Theorems about EmailIntake, for any workers, messages and attachments. *)
EXTENDS EmailIntake, TLAPS

Pcs == {"idle", "claim"} \cup DocumentSteps \cup EndSteps
WorkerTypes ==
    /\ worker \in [Workers -> WorkerState]
    /\ \A w \in Workers : InDocument(w) => worker[w].next \in DOMAIN Mail[worker[w].msg].attachments

\* An attachment has a path and a content.
LEMMA AttachmentTypes ==
    ASSUME NEW m \in Messages, NEW j \in DOMAIN Mail[m].attachments
    PROVE  /\ j \in Nat
           /\ Path(m, j) \in Paths /\ Path(m, j)[1] = m
           /\ Mail[m].attachments[j].content \in Contents
<1>1. Mail[m].attachments \in Seq(Files)
  BY MailAssumption
<1>2. Mail[m].attachments[j] \in Files /\ j \in Nat
  BY <1>1
<1> QED
  BY <1>2 DEF Path, Paths, Contents

\* Where a worker is after it moved on in the same document, or left.
LEMMA GoToTypes ==
    ASSUME TypeOK, NEW w \in Workers, NEW pc \in Pcs, GoTo(w, pc),
           pc \in DocumentSteps => InDocument(w)
    PROVE  /\ WorkerTypes'
           /\ worker'[w].pc = pc /\ worker'[w].msg = worker[w].msg
           /\ worker'[w].next = worker[w].next /\ worker'[w].documents = worker[w].documents
           /\ \A v \in Workers : v # w => worker'[v] = worker[v]
<1>1. worker[w] \in WorkerState
  BY DEF TypeOK
<1>2. [worker[w] EXCEPT !.pc = pc] \in WorkerState
  BY <1>1 DEF WorkerState, Pcs
<1>3. worker' = [worker EXCEPT ![w] = [worker[w] EXCEPT !.pc = pc]]
  BY DEF GoTo, TypeOK
<1>4. /\ worker' \in [Workers -> WorkerState]
      /\ worker'[w].pc = pc /\ worker'[w].msg = worker[w].msg
      /\ worker'[w].next = worker[w].next /\ worker'[w].documents = worker[w].documents
      /\ \A v \in Workers : v # w => worker'[v] = worker[v]
  BY <1>1, <1>2, <1>3 DEF TypeOK, WorkerState
<1> QED
  BY <1>4 DEF TypeOK, WorkerTypes, InDocument

LEMMA LeaveTypes ==
    ASSUME TypeOK, NEW w \in Workers, Leave(w)
    PROVE  /\ WorkerTypes'
           /\ worker'[w].pc = "idle"
           /\ \A v \in Workers : v # w => worker'[v] = worker[v]
<1>1. worker[w] \in WorkerState
  BY DEF TypeOK
<1>a. << >> \in Seq(DocumentResult)
  OBVIOUS
<1>2. [worker[w] EXCEPT !.pc = "idle", !.next = 0, !.documents = << >>] \in WorkerState
  BY <1>1, <1>a DEF WorkerState
<1>3. /\ worker' \in [Workers -> WorkerState]
      /\ worker'[w].pc = "idle"
      /\ \A v \in Workers : v # w => worker'[v] = worker[v]
  BY <1>1, <1>2 DEF Leave, TypeOK, WorkerState
<1> QED
  BY <1>3 DEF TypeOK, WorkerTypes, InDocument, DocumentSteps

\* Resume either finds the next document or goes on to save.
LEMMA ResumeTypes ==
    ASSUME TypeOK, NEW w \in Workers, NEW i \in Nat, NEW documents \in Seq(DocumentResult),
           Resume(w, i, documents)
    PROVE  /\ WorkerTypes'
           /\ worker'[w].pc \in {"put", "save"} /\ worker'[w].msg = worker[w].msg
           /\ worker'[w].documents = documents
           /\ worker'[w].next \in Nat /\ i <= worker'[w].next
           /\ \A v \in Workers : v # w => worker'[v] = worker[v]
<1> DEFINE m == worker[w].msg
           state(pc, next) == [pc |-> pc, msg |-> m, next |-> next, documents |-> documents]
<1>1. worker[w] \in WorkerState /\ m \in Messages
  BY DEF TypeOK, WorkerState
<1>2. /\ worker' \in [Workers -> WorkerState]
      /\ worker'[w].pc \in {"put", "save"} /\ worker'[w].msg = worker[w].msg
      /\ worker'[w].documents = documents
      /\ worker'[w].next \in Nat /\ i <= worker'[w].next
      /\ worker'[w].pc = "put" => worker'[w].next \in DOMAIN Mail[worker[w].msg].attachments
      /\ \A v \in Workers : v # w => worker'[v] = worker[v]
  <2>1. CASE ReadableFrom(m, i) = {} /\ worker' = [worker EXCEPT ![w] = state("save", i)]
    <3>1. state("save", i) \in WorkerState
      BY <1>1 DEF WorkerState, EndSteps
    <3>2. worker'[w] = state("save", i) /\ \A v \in Workers : v # w => worker'[v] = worker[v]
      BY <2>1 DEF TypeOK
    <3> QED
      BY <2>1, <3>1, <3>2 DEF TypeOK
  <2>2. CASE \E j \in ReadableFrom(m, i) : worker' = [worker EXCEPT ![w] = state("put", j)]
    <3>1. PICK j \in ReadableFrom(m, i) : worker' = [worker EXCEPT ![w] = state("put", j)]
      BY <2>2
    <3>2. j \in DOMAIN Mail[m].attachments /\ i <= j
      BY DEF ReadableFrom
    <3>3. j \in Nat
      BY <1>1, <3>2, AttachmentTypes
    <3>4. state("put", j) \in WorkerState
      BY <1>1, <3>3 DEF WorkerState, DocumentSteps
    <3>5. worker'[w] = state("put", j) /\ \A v \in Workers : v # w => worker'[v] = worker[v]
      BY <3>1 DEF TypeOK
    <3> QED
      BY <3>1, <3>2, <3>3, <3>4, <3>5 DEF TypeOK
  <2> QED
    BY <2>1, <2>2 DEF Resume
<1> QED
  BY <1>2 DEF TypeOK, WorkerTypes, InDocument, DocumentSteps

\* A worker that processes a document has one.
LEMMA MyDocument ==
    ASSUME TypeOK, NEW w \in Workers, InDocument(w)
    PROVE  /\ worker[w].msg \in Messages
           /\ worker[w].next \in DOMAIN Mail[worker[w].msg].attachments
           /\ MyPath(w) \in Paths /\ MyPath(w)[1] = worker[w].msg
           /\ MyContent(w) \in Contents
<1>1. worker[w].msg \in Messages
  BY DEF TypeOK, WorkerState
<1>2. worker[w].next \in DOMAIN Mail[worker[w].msg].attachments
  BY DEF TypeOK
<1> QED
  BY <1>1, <1>2, AttachmentTypes DEF MyPath, MyContent

\* DocumentDone appends a result and resumes.
LEMMA DoneTypes ==
    ASSUME TypeOK, NEW w \in Workers, InDocument(w), NEW value \in Outcomes, DocumentDone(w, value)
    PROVE  /\ WorkerTypes'
           /\ worker'[w].pc \in {"put", "save"} /\ worker'[w].msg = worker[w].msg
           /\ worker'[w].documents = Append(worker[w].documents,
                [path |-> MyPath(w), content |-> MyContent(w), status |-> value])
           /\ worker'[w].next \in Nat /\ worker[w].next < worker'[w].next
           /\ \A v \in Workers : v # w => worker'[v] = worker[v]
<1> DEFINE result == [path |-> MyPath(w), content |-> MyContent(w), status |-> value]
<1>1. worker[w].next \in Nat /\ worker[w].documents \in Seq(DocumentResult)
  BY DEF TypeOK, WorkerState
<1>2. result \in DocumentResult
  BY MyDocument DEF DocumentResult
<1>3. Append(worker[w].documents, result) \in Seq(DocumentResult)
  BY <1>1, <1>2
<1>4. Resume(w, worker[w].next + 1, Append(worker[w].documents, result))
  BY DEF DocumentDone
<1>5. worker[w].next + 1 \in Nat
  BY <1>1
<1> HIDE DEF result
<1>6. /\ WorkerTypes'
      /\ worker'[w].pc \in {"put", "save"} /\ worker'[w].msg = worker[w].msg
      /\ worker'[w].documents = Append(worker[w].documents, result)
      /\ worker'[w].next \in Nat /\ worker[w].next + 1 <= worker'[w].next
      /\ \A v \in Workers : v # w => worker'[v] = worker[v]
  BY <1>3, <1>4, <1>5, ResumeTypes
<1> QED
  BY <1>1, <1>6 DEF result

-----------------------------------------------------------------------------
(* Types *)

LEMMA TypeInit == Init => TypeOK
<1> SUFFICES ASSUME Init PROVE TypeOK
  OBVIOUS
<1>1. << >> \in Seq(DocumentResult)
  OBVIOUS
<1>2. \A m \in Messages :
        [pc |-> "idle", msg |-> m, next |-> 0, documents |-> << >>] \in WorkerState
  BY <1>1 DEF WorkerState
<1>3. worker \in [Workers -> WorkerState] /\ \A w \in Workers : worker[w].pc = "idle"
  BY <1>2 DEF Init
<1>4. \A w \in Workers : ~InDocument(w)
  BY <1>3 DEF InDocument, DocumentSteps
<1> QED
  BY <1>3, <1>4 DEF Init, TypeOK

LEMMA TypeStep == TypeOK /\ [Next]_vars => TypeOK'
<1> SUFFICES ASSUME TypeOK, [Next]_vars PROVE TypeOK'
  OBVIOUS
<1> USE DEF Pcs, DocumentSteps, EndSteps, ledger, stores
<1>1. CASE UNCHANGED vars
  BY <1>1 DEF vars, TypeOK, InDocument
<1>2. ASSUME NEW w \in Workers, WorkerStep(w) PROVE TypeOK'
  <2>0. worker[w] \in WorkerState /\ worker[w].msg \in Messages
    BY DEF TypeOK, WorkerState
  <2>1. CASE Claim(w)
    <3>1. claimed' \subseteq Messages /\ UNCHANGED <<processed, stores>>
      BY <2>0, <2>1 DEF Claim, TypeOK
    <3>2. Leave(w) \/ Resume(w, 1, << >>)
      BY <2>1 DEF Claim
    <3>3. << >> \in Seq(DocumentResult)
      OBVIOUS
    <3>4. WorkerTypes'
      BY <3>2, <3>3, LeaveTypes, ResumeTypes
    <3> QED
      BY <3>1, <3>4 DEF TypeOK, WorkerTypes
  <2>2. CASE Put(w)
    <3>1. InDocument(w)
      BY <2>2 DEF Put, At, InDocument
    <3>2. WorkerTypes'
      BY <2>2, <3>1, GoToTypes DEF Put, Raise
    <3>3. storage' \in [Paths -> Contents \cup {Nothing}]
      BY <2>2, <3>1, MyDocument DEF Put, TypeOK
    <3> QED
      BY <2>2, <3>2, <3>3 DEF TypeOK, WorkerTypes, Put
  <2>3. ASSUME NEW at \in DocumentSteps, NEW value \in {"stored", "processing"},
               NEW then \in DocumentSteps, SetStatus(w, at, value, then)
        PROVE  TypeOK'
    <3>1. InDocument(w)
      BY <2>3 DEF SetStatus, At, InDocument
    <3>2. WorkerTypes'
      BY <2>3, <3>1, GoToTypes DEF SetStatus, Raise
    <3>3. docStatus' \in [Paths -> {"none", "stored", "processing"} \cup Outcomes]
      BY <2>3, <3>1, MyDocument DEF SetStatus, WriteStatus, TypeOK
    <3> QED
      BY <2>3, <3>2, <3>3 DEF TypeOK, WorkerTypes, SetStatus
  <2>4. CASE Workflow(w)
    <3>1. InDocument(w)
      BY <2>4 DEF Workflow, At, InDocument
    <3>2. WorkerTypes'
      BY <2>4, <3>1, GoToTypes DEF Workflow
    <3> QED
      BY <2>4, <3>2 DEF TypeOK, WorkerTypes, Workflow
  <2>5. ASSUME NEW at \in DocumentSteps, NEW value \in Outcomes, SetOutcome(w, at, value)
        PROVE  TypeOK'
    <3>1. InDocument(w)
      BY <2>5 DEF SetOutcome, At, InDocument
    <3>2. WorkerTypes'
      BY <2>5, <3>1, GoToTypes, DoneTypes DEF SetOutcome, Raise
    <3>3. docStatus' \in [Paths -> {"none", "stored", "processing"} \cup Outcomes]
      BY <2>5, <3>1, MyDocument DEF SetOutcome, WriteStatus, TypeOK
    <3> QED
      BY <2>5, <3>2, <3>3 DEF TypeOK, WorkerTypes, SetOutcome
  <2>6. CASE Save(w)
    <3>1. WorkerTypes'
      BY <2>6, GoToTypes DEF Save, Raise
    <3>2. [relevant |-> LegalRelevant(worker[w].msg), prepared |-> Prepared(worker[w].msg),
           documents |-> worker[w].documents] \in Results
      BY <2>0 DEF Results, WorkerState, LegalRelevant, Prepared
    <3>3. saved' \in [Messages -> Results \cup {Nothing}]
      BY <2>6, <3>2 DEF Save, TypeOK
    <3> QED
      BY <2>6, <3>1, <3>3 DEF TypeOK, WorkerTypes, Save
  <2>7. CASE MarkProcessed(w)
    <3>1. WorkerTypes'
      BY <2>7, GoToTypes, LeaveTypes DEF MarkProcessed, Raise
    <3> QED
      BY <2>0, <2>7, <3>1 DEF TypeOK, WorkerTypes, MarkProcessed, RecordProcessed
  <2>8. CASE MarkFailed(w)
    <3>1. WorkerTypes'
      BY <2>8, LeaveTypes DEF MarkFailed
    <3> QED
      BY <2>8, <3>1 DEF TypeOK, WorkerTypes, MarkFailed
  <2> QED
    BY <1>2, <2>1, <2>2, <2>3, <2>4, <2>5, <2>6, <2>7, <2>8
    DEF WorkerStep, SetStored, SetProcessing, SetCompleted, SetFailed, Outcomes
<1>3. ASSUME NEW w \in Workers, Die(w) PROVE TypeOK'
  <2>1. WorkerTypes'
    BY <1>3, LeaveTypes DEF Die
  <2> QED
    BY <1>3, <2>1 DEF TypeOK, WorkerTypes, Die
<1>4. ASSUME NEW w \in Workers, NEW m \in Messages, Deliver(w, m) PROVE TypeOK'
  <2>1. << >> \in Seq(DocumentResult)
    OBVIOUS
  <2>2. [pc |-> "claim", msg |-> m, next |-> 0, documents |-> << >>] \in WorkerState
    BY <2>1 DEF WorkerState
  <2> QED
    BY <1>4, <2>2 DEF TypeOK, Deliver, InDocument
<1> QED
  BY <1>1, <1>2, <1>3, <1>4 DEF Next

\* Every variable keeps its type.
THEOREM TypeCorrect == Spec => []TypeOK
<1> QED
  BY TypeInit, TypeStep, PTL DEF Spec

-----------------------------------------------------------------------------
(* One worker per message *)

\* A step that neither starts work on a message nor ends a claim.
LEMMA ExclusiveKept ==
    ASSUME TypeOK, Exclusive, NEW w \in Workers,
           \A v \in Workers : v # w => worker'[v] = worker[v],
           Working(w)' => Working(w) /\ worker'[w].msg = worker[w].msg,
           Active(w)' => Active(w),
           claimed \subseteq claimed', UNCHANGED processed
    PROVE  Exclusive'
<1>1. OneWorkerPerMessage'
  BY DEF Exclusive, OneWorkerPerMessage, Working
<1>2. \A v \in Workers : Claims(v)'
  BY DEF Exclusive, Claims, Working, Active, At
<1> QED
  BY <1>1, <1>2 DEF Exclusive

LEMMA ExclusiveInit == Init => Exclusive
<1> SUFFICES ASSUME Init PROVE Exclusive
  OBVIOUS
<1>1. \A w \in Workers : worker[w].pc = "idle"
  BY DEF Init
<1>2. \A w \in Workers : ~Working(w)
  BY <1>1 DEF Working, DocumentSteps, EndSteps
<1> QED
  BY <1>2 DEF Exclusive, OneWorkerPerMessage, Claims, Active

LEMMA ExclusiveStep == TypeOK /\ Exclusive /\ [Next]_vars => Exclusive'
<1> SUFFICES ASSUME TypeOK, Exclusive, [Next]_vars PROVE Exclusive'
  OBVIOUS
<1> USE DEF Pcs, DocumentSteps, EndSteps, ledger, stores
<1>1. CASE UNCHANGED vars
  BY <1>1 DEF vars, Exclusive, OneWorkerPerMessage, Claims, Working, Active, At
<1>2. ASSUME NEW w \in Workers, WorkerStep(w) PROVE Exclusive'
  <2>1. CASE Claim(w)
    <3>1. CASE Leave(w)
      <4>1. claimed \subseteq claimed' /\ UNCHANGED processed
        BY <2>1 DEF Claim
      <4> QED
        BY <3>1, <4>1, LeaveTypes, ExclusiveKept DEF Working, Active
    <3>2. CASE /\ worker[w].msg \notin claimed \cup processed
               /\ claimed' = claimed \cup {worker[w].msg}
               /\ Resume(w, 1, << >>) /\ UNCHANGED processed
      <4>1. << >> \in Seq(DocumentResult)
        OBVIOUS
      <4>2. /\ worker'[w].msg = worker[w].msg
            /\ \A v \in Workers : v # w => worker'[v] = worker[v]
        BY <3>2, <4>1, ResumeTypes
      <4>3. \A v \in Workers : Working(v) => worker[v].msg # worker[w].msg
        BY <3>2 DEF Exclusive, Claims
      <4>4. OneWorkerPerMessage'
        BY <4>2, <4>3 DEF Exclusive, OneWorkerPerMessage, Working
      <4>5. \A v \in Workers : Claims(v)'
        BY <3>2, <4>2 DEF Exclusive, Claims, Working, Active, At
      <4> QED
        BY <4>4, <4>5 DEF Exclusive
    <3> QED
      BY <2>1, <3>1, <3>2 DEF Claim
  <2>2. CASE Put(w)
    <3>1. Active(w) /\ InDocument(w)
      BY <2>2 DEF Put, At, Active, Working, InDocument
    <3> QED
      BY <2>2, <3>1, GoToTypes, ExclusiveKept DEF Put, Raise, Active
  <2>3. ASSUME NEW at \in DocumentSteps, NEW value, NEW then \in DocumentSteps,
               SetStatus(w, at, value, then)
        PROVE  Exclusive'
    <3>1. Active(w) /\ InDocument(w)
      BY <2>3 DEF SetStatus, At, Active, Working, InDocument
    <3> QED
      BY <2>3, <3>1, GoToTypes, ExclusiveKept DEF SetStatus, Raise, Active
  <2>4. CASE Workflow(w)
    <3>1. Active(w) /\ InDocument(w)
      BY <2>4 DEF Workflow, At, Active, Working, InDocument
    <3> QED
      BY <2>4, <3>1, GoToTypes, ExclusiveKept DEF Workflow, Active
  <2>5. ASSUME NEW at \in DocumentSteps, NEW value \in Outcomes, SetOutcome(w, at, value)
        PROVE  Exclusive'
    <3>1. Active(w) /\ InDocument(w)
      BY <2>5 DEF SetOutcome, At, Active, Working, InDocument
    <3> QED
      BY <2>5, <3>1, GoToTypes, DoneTypes, ExclusiveKept DEF SetOutcome, Raise, Active
  <2>6. CASE Save(w)
    <3>1. Active(w)
      BY <2>6 DEF Save, At, Active, Working
    <3> QED
      BY <2>6, <3>1, GoToTypes, ExclusiveKept DEF Save, Raise, Active
  <2>7. CASE MarkProcessed(w)
    <3>1. Active(w) /\ Working(w)
      BY <2>7 DEF MarkProcessed, At, Active, Working
    <3>2. \A v \in Workers : v # w => worker'[v] = worker[v]
      BY <2>7, GoToTypes, LeaveTypes DEF MarkProcessed, Raise
    <3>3. CASE UNCHANGED ledger
      BY <2>7, <3>1, <3>3, GoToTypes, LeaveTypes, ExclusiveKept DEF MarkProcessed, Raise, Active, Working
    <3>4. CASE RecordProcessed(worker[w].msg)
      <4>1. ~Active(w)' /\ (Working(w)' => worker'[w].msg = worker[w].msg)
        BY <2>7, GoToTypes, LeaveTypes DEF MarkProcessed, Raise, Active, Working, At
      <4>2. \A v \in Workers : Working(v) /\ v # w => worker[v].msg # worker[w].msg
        BY <3>1 DEF Exclusive, OneWorkerPerMessage
      <4>3. OneWorkerPerMessage'
        BY <3>1, <3>2, <4>1 DEF Exclusive, OneWorkerPerMessage, Working
      <4>4. Claims(w)'
        BY <3>4, <4>1 DEF Claims, RecordProcessed
      <4>5. \A v \in Workers : v # w => Claims(v)'
        BY <3>2, <3>4, <4>2 DEF Exclusive, Claims, RecordProcessed, Working, Active, At
      <4> QED
        BY <4>3, <4>4, <4>5 DEF Exclusive
    <3> QED
      BY <2>7, <3>3, <3>4 DEF MarkProcessed
  <2>8. CASE MarkFailed(w)
    <3>1. Working(w)
      BY <2>8 DEF MarkFailed, At, Working
    <3>2. worker'[w].pc = "idle" /\ \A v \in Workers : v # w => worker'[v] = worker[v]
      BY <2>8, LeaveTypes DEF MarkFailed
    <3>3. ~Working(w)'
      BY <3>2 DEF Working
    <3>4. \A v \in Workers : Working(v) /\ v # w => worker[v].msg # worker[w].msg
      BY <3>1 DEF Exclusive, OneWorkerPerMessage
    <3>5. OneWorkerPerMessage'
      BY <3>2, <3>3 DEF Exclusive, OneWorkerPerMessage, Working
    <3>6. claimed \ {worker[w].msg} \subseteq claimed' /\ UNCHANGED processed
      BY <2>8 DEF MarkFailed
    <3>7. \A v \in Workers : Claims(v)'
      BY <3>2, <3>3, <3>4, <3>6 DEF Exclusive, Claims, Working, Active, At
    <3> QED
      BY <3>5, <3>7 DEF Exclusive
  <2> QED
    BY <1>2, <2>1, <2>2, <2>3, <2>4, <2>5, <2>6, <2>7, <2>8
    DEF WorkerStep, SetStored, SetProcessing, SetCompleted, SetFailed, Outcomes
<1>3. ASSUME NEW w \in Workers, Die(w) PROVE Exclusive'
  BY <1>3, LeaveTypes, ExclusiveKept DEF Die, Working, Active
<1>4. ASSUME NEW w \in Workers, NEW m \in Messages, Deliver(w, m) PROVE Exclusive'
  <2>1. worker'[w].pc = "claim" /\ \A v \in Workers : v # w => worker'[v] = worker[v]
    BY <1>4 DEF Deliver, TypeOK
  <2> QED
    BY <1>4, <2>1, ExclusiveKept DEF Deliver, Working, Active
<1> QED
  BY <1>1, <1>2, <1>3, <1>4 DEF Next

\* Two workers never process one message at the same time.
THEOREM OneWorker == Spec => []OneWorkerPerMessage
<1>1. Exclusive => OneWorkerPerMessage
  BY DEF Exclusive
<1> QED
  BY <1>1, TypeInit, TypeStep, ExclusiveInit, ExclusiveStep, PTL DEF Spec

-----------------------------------------------------------------------------
(* A message that is done is left alone *)

\* What a worker's step writes belongs to the message it works on.
Footprint(w) ==
    /\ \A v \in Workers : v # w => worker'[v] = worker[v]
    /\ processed \subseteq processed'
    /\ UNCHANGED stores \/ Active(w)
    /\ \A m \in Messages : m # worker[w].msg => saved'[m] = saved[m]
    /\ \A p \in Paths : p[1] # worker[w].msg =>
         storage'[p] = storage[p] /\ docStatus'[p] = docStatus[p]

LEMMA StepFootprint ==
    ASSUME TypeOK, NEW w \in Workers, WorkerStep(w) \/ Die(w) \/ \E m \in Messages : Deliver(w, m)
    PROVE  Footprint(w)
<1> USE DEF Pcs, DocumentSteps, EndSteps, ledger, stores
<1>0. << >> \in Seq(DocumentResult)
  OBVIOUS
<1>1. CASE Claim(w)
  BY <1>0, <1>1, LeaveTypes, ResumeTypes DEF Claim, Footprint
<1>2. CASE Put(w)
  <2>1. Active(w) /\ InDocument(w)
    BY <1>2 DEF Put, At, Active, Working, InDocument
  <2> QED
    BY <1>2, <2>1, GoToTypes, MyDocument DEF Put, Raise, Footprint, TypeOK
<1>3. ASSUME NEW at \in DocumentSteps, NEW value, NEW then \in DocumentSteps,
             SetStatus(w, at, value, then)
      PROVE  Footprint(w)
  <2>1. Active(w) /\ InDocument(w)
    BY <1>3 DEF SetStatus, At, Active, Working, InDocument
  <2> QED
    BY <1>3, <2>1, GoToTypes, MyDocument DEF SetStatus, WriteStatus, Raise, Footprint, TypeOK
<1>4. CASE Workflow(w)
  <2>1. InDocument(w)
    BY <1>4 DEF Workflow, At, InDocument
  <2> QED
    BY <1>4, <2>1, GoToTypes DEF Workflow, Footprint
<1>5. ASSUME NEW at \in DocumentSteps, NEW value \in Outcomes, SetOutcome(w, at, value)
      PROVE  Footprint(w)
  <2>1. Active(w) /\ InDocument(w)
    BY <1>5 DEF SetOutcome, At, Active, Working, InDocument
  <2>2. \A v \in Workers : v # w => worker'[v] = worker[v]
    BY <1>5, <2>1, GoToTypes, DoneTypes DEF SetOutcome, Raise
  <2> QED
    BY <1>5, <2>1, <2>2, MyDocument DEF SetOutcome, WriteStatus, Footprint, TypeOK
<1>6. CASE Save(w)
  <2>1. Active(w)
    BY <1>6 DEF Save, At, Active, Working
  <2> QED
    BY <1>6, <2>1, GoToTypes DEF Save, Raise, Footprint, TypeOK
<1>7. CASE MarkProcessed(w)
  BY <1>7, GoToTypes, LeaveTypes DEF MarkProcessed, RecordProcessed, Raise, Footprint
<1>8. CASE MarkFailed(w)
  BY <1>8, LeaveTypes DEF MarkFailed, Footprint
<1>9. CASE Die(w)
  BY <1>9, LeaveTypes DEF Die, Footprint
<1>10. ASSUME NEW m \in Messages, Deliver(w, m) PROVE Footprint(w)
  BY <1>10 DEF Deliver, Footprint, TypeOK
<1> QED
  BY <1>1, <1>2, <1>3, <1>4, <1>5, <1>6, <1>7, <1>8, <1>9, <1>10
  DEF WorkerStep, SetStored, SetProcessing, SetCompleted, SetFailed, Outcomes

Settled(m) ==
    /\ m \in processed'
    /\ saved'[m] = saved[m]
    /\ \A p \in Paths : p[1] = m => storage'[p] = storage[p] /\ docStatus'[p] = docStatus[p]

LEMMA SettledStep ==
    ASSUME TypeOK, Exclusive, [Next]_vars, NEW m \in processed
    PROVE  Settled(m)
<1>1. CASE UNCHANGED vars
  BY <1>1 DEF vars, Settled
<1>2. ASSUME NEW w \in Workers, Footprint(w) PROVE Settled(m)
  <2>1. m \in Messages
    BY DEF TypeOK
  <2>2. CASE UNCHANGED stores
    BY <1>2, <2>2 DEF stores, Settled, Footprint
  <2>3. CASE Active(w)
    <3>1. m # worker[w].msg
      BY <2>3 DEF Exclusive, Claims
    <3> QED
      BY <1>2, <2>1, <3>1 DEF Settled, Footprint
  <2> QED
    BY <1>2, <2>2, <2>3 DEF Footprint
<1> QED
  BY <1>1, <1>2, StepFootprint DEF Next

\* A message that is done is not touched again.
THEOREM DoneIsFinal == Spec => ProcessedIsFinal
<1>1. TypeOK /\ Exclusive /\ [Next]_vars =>
        [\A m \in processed :
           /\ m \in processed'
           /\ saved'[m] = saved[m]
           /\ \A p \in Paths : p[1] = m => storage'[p] = storage[p] /\ docStatus'[p] = docStatus[p]]_vars
  BY SettledStep DEF Settled
<1> QED
  BY <1>1, TypeInit, TypeStep, ExclusiveInit, ExclusiveStep, PTL DEF Spec, ProcessedIsFinal

-----------------------------------------------------------------------------
(* The stores agree with the results *)

\* Two attachments of a message have different paths.
LEMMA PathsDiffer ==
    ASSUME DistinctNames, NEW m \in Messages,
           NEW i \in DOMAIN Mail[m].attachments, NEW j \in DOMAIN Mail[m].attachments, i # j
    PROVE  Path(m, i) # Path(m, j)
BY DEF DistinctNames, Path

\* A step of one worker leaves the others' work and what is done alone.
LEMMA OthersKept ==
    ASSUME TypeOK, Exclusive, AllKept, NEW w \in Workers, Footprint(w)
    PROVE  /\ \A v \in Workers : v # w => WorkKept(v)'
           /\ \A m \in processed : SavedKept(m)'
<1>1. ASSUME NEW v \in Workers, v # w PROVE WorkKept(v)'
  <2>1. worker'[v] = worker[v] /\ WorkKept(v)
    BY <1>1 DEF Footprint, AllKept
  <2>2. CASE UNCHANGED stores
    BY <2>1, <2>2 DEF stores, WorkKept, Kept, Active, Working, At, MyPath, MyContent
  <2>3. CASE Active(v) /\ Active(w)
    <3>1. worker[v].msg # worker[w].msg
      BY <1>1, <2>3 DEF Active, Exclusive, OneWorkerPerMessage
    <3>2. worker[v].msg \in Messages
      BY DEF TypeOK, WorkerState
    <3>3. saved'[worker[v].msg] = saved[worker[v].msg]
      BY <3>1, <3>2 DEF Footprint
    <3>4. \A p \in Paths : p[1] = worker[v].msg => storage'[p] = storage[p] /\ docStatus'[p] = docStatus[p]
      BY <3>1 DEF Footprint
    <3>5. \A k \in DOMAIN worker[v].documents :
            Kept(worker[v].msg, worker[v].next, worker[v].documents[k])'
      <4> SUFFICES ASSUME NEW k \in DOMAIN worker[v].documents
                   PROVE  Kept(worker[v].msg, worker[v].next, worker[v].documents[k])'
        OBVIOUS
      <4>1. Kept(worker[v].msg, worker[v].next, worker[v].documents[k])
        BY <2>1, <2>3 DEF WorkKept
      <4>2. worker[v].documents[k].path \in Paths /\ worker[v].documents[k].path[1] = worker[v].msg
        BY <3>2, <4>1, AttachmentTypes DEF Kept
      <4> QED
        BY <2>1, <3>4, <4>1, <4>2 DEF Kept
    <3>6. InDocument(v) => MyPath(v) \in Paths /\ MyPath(v)[1] = worker[v].msg
      BY MyDocument
    <3>7. worker[v].pc \in DocumentSteps \ {"put"} => storage'[MyPath(v)] = MyContent(v)
      BY <2>1, <3>4, <3>6 DEF WorkKept, InDocument
    <3> QED
      BY <2>1, <3>3, <3>5, <3>7 DEF WorkKept, Active, Working, At, MyPath, MyContent
  <2>4. CASE ~Active(v)
    BY <2>1, <2>4 DEF WorkKept, Active, Working, At, EndSteps, DocumentSteps
  <2> QED
    BY <2>2, <2>3, <2>4 DEF Footprint
<1>2. ASSUME NEW m \in processed PROVE SavedKept(m)'
  <2>1. SavedKept(m) /\ m \in Messages
    BY DEF AllKept, TypeOK
  <2>2. CASE UNCHANGED stores
    BY <2>1, <2>2 DEF stores, SavedKept
  <2>3. CASE Active(w)
    <3>1. m # worker[w].msg
      BY <2>3 DEF Exclusive, Claims
    <3>2. saved'[m] = saved[m]
      BY <2>1, <3>1 DEF Footprint
    <3>3. saved[m] \in Results
      BY <2>1 DEF TypeOK, SavedKept
    <3>4. saved[m].documents \in Seq(DocumentResult)
      BY <3>3 DEF Results
    <3>5. \A k \in DOMAIN saved[m].documents : saved[m].documents[k] \in DocumentResult
      BY <3>4
    <3>6. \A k \in DOMAIN saved[m].documents : saved[m].documents[k].path \in Paths
      BY <3>5 DEF DocumentResult
    <3> QED
      BY <2>1, <3>1, <3>2, <3>6 DEF SavedKept, Footprint
  <2> QED
    BY <2>2, <2>3 DEF Footprint
<1> QED
  BY <1>1, <1>2

LEMMA KeptInit == Init => AllKept
<1> SUFFICES ASSUME Init PROVE AllKept
  OBVIOUS
<1>1. \A w \in Workers : worker[w].pc = "idle"
  BY DEF Init
<1> QED
  BY <1>1 DEF Init, AllKept, WorkKept, Active, Working, At, DocumentSteps, EndSteps

\* A worker that has left, or given the message up, has nothing to keep.
LEMMA InactiveKept ==
    ASSUME NEW w \in Workers, worker[w].pc \in {"idle", "claim", "mark_failed"}
    PROVE  WorkKept(w)
BY DEF WorkKept, Active, Working, At, DocumentSteps, EndSteps

\* The write to the document at hand does not disturb the earlier ones.
LEMMA EarlierKept ==
    ASSUME TypeOK, DistinctNames, NEW w \in Workers, InDocument(w), WorkKept(w),
           NEW i \in Nat, worker[w].next <= i,
           \A p \in Paths : p # MyPath(w) => storage'[p] = storage[p] /\ docStatus'[p] = docStatus[p],
           NEW k \in DOMAIN worker[w].documents
    PROVE  LET result == worker[w].documents[k] IN
           /\ \E j \in DOMAIN Mail[worker[w].msg].attachments :
                j < i /\ result.path = Path(worker[w].msg, j)
           /\ storage'[result.path] = result.content
           /\ docStatus'[result.path] = result.status
<1> DEFINE m == worker[w].msg
           n == worker[w].next
           result == worker[w].documents[k]
<1>1. m \in Messages /\ n \in DOMAIN Mail[m].attachments /\ MyPath(w) = Path(m, n)
  BY MyDocument DEF MyPath
<1>2. Kept(m, n, result)
  BY DEF WorkKept, InDocument, Active, Working, At, DocumentSteps
<1>3. PICK j \in DOMAIN Mail[m].attachments : j < n /\ result.path = Path(m, j)
  BY <1>2 DEF Kept
<1>4. j \in Nat /\ n \in Nat /\ j # n /\ j < i
  BY <1>1, <1>3, AttachmentTypes
<1>5. result.path \in Paths /\ result.path # MyPath(w)
  BY <1>1, <1>3, <1>4, AttachmentTypes, PathsDiffer
<1> QED
  BY <1>2, <1>3, <1>4, <1>5 DEF Kept

\* A step within a document: what was kept stays kept.
LEMMA InDocumentKept ==
    ASSUME TypeOK, DistinctNames, NEW w \in Workers, InDocument(w), WorkKept(w),
           NEW pc \in DocumentSteps, GoTo(w, pc),
           \A p \in Paths : p # MyPath(w) => storage'[p] = storage[p] /\ docStatus'[p] = docStatus[p],
           pc # "put" => storage'[MyPath(w)] = MyContent(w)
    PROVE  WorkKept(w)'
<1>1. worker[w].next \in Nat /\ worker[w].next <= worker[w].next
  BY DEF TypeOK, WorkerState
<1>2. worker'[w].pc = pc /\ worker'[w].msg = worker[w].msg /\ worker'[w].next = worker[w].next
      /\ worker'[w].documents = worker[w].documents
  BY GoToTypes DEF Pcs
<1>3. \A k \in DOMAIN worker[w].documents :
        Kept(worker[w].msg, worker[w].next, worker[w].documents[k])'
  BY <1>1, <1>2, EarlierKept DEF Kept
<1>4. pc # "mark_processed"
  BY DEF DocumentSteps
<1> QED
  BY <1>2, <1>3, <1>4 DEF WorkKept, At, MyPath, MyContent

\* The result of a document joins those of the earlier ones.
LEMMA OutcomeKept ==
    ASSUME TypeOK, DistinctNames, NEW w \in Workers, InDocument(w), ~At(w, "put"), WorkKept(w),
           NEW value \in Outcomes, DocumentDone(w, value), WriteStatus(w, value), UNCHANGED storage
    PROVE  WorkKept(w)'
<1> DEFINE result == [path |-> MyPath(w), content |-> MyContent(w), status |-> value]
           documents == worker[w].documents
<1>1. /\ worker'[w].pc \in {"put", "save"} /\ worker'[w].msg = worker[w].msg
      /\ worker'[w].documents = Append(documents, result)
      /\ worker'[w].next \in Nat /\ worker[w].next < worker'[w].next
  BY DoneTypes
<1>2. worker[w].next \in Nat /\ documents \in Seq(DocumentResult)
  BY DEF TypeOK, WorkerState
<1>3. /\ \A p \in Paths : p # MyPath(w) => docStatus'[p] = docStatus[p]
      /\ docStatus'[MyPath(w)] = value
  BY MyDocument DEF WriteStatus, TypeOK
<1>4. \A k \in DOMAIN worker'[w].documents :
        Kept(worker[w].msg, worker[w].next, worker[w].documents[k])'
  <2> SUFFICES ASSUME NEW k \in DOMAIN worker'[w].documents
               PROVE  Kept(worker[w].msg, worker[w].next, worker[w].documents[k])'
    OBVIOUS
  <2>1. CASE k \in DOMAIN documents
    <3>1. worker'[w].documents[k] = documents[k]
      BY <1>1, <1>2, <2>1
    <3>2. worker[w].next <= worker'[w].next
      BY <1>1, <1>2
    <3>3. \A p \in Paths : p # MyPath(w) => storage'[p] = storage[p] /\ docStatus'[p] = docStatus[p]
      BY <1>3
    <3> QED
      BY <1>1, <2>1, <3>1, <3>2, <3>3, EarlierKept DEF Kept
  <2>2. CASE k = Len(documents) + 1
    <3>1. worker'[w].documents[k] = result
      BY <1>1, <1>2, <2>2
    <3>2. storage[MyPath(w)] = MyContent(w)
      BY DEF WorkKept, InDocument, At
    <3>3. worker[w].next \in DOMAIN Mail[worker[w].msg].attachments
      BY MyDocument
    <3>4. /\ result.path = Path(worker[w].msg, worker[w].next)
          /\ storage'[result.path] = result.content /\ docStatus'[result.path] = result.status
      BY <1>3, <3>2 DEF MyPath
    <3> HIDE DEF result
    <3> QED
      BY <1>1, <3>1, <3>3, <3>4 DEF Kept
  <2> QED
    BY <1>1, <1>2, <2>1, <2>2
<1>5. worker'[w].pc \notin DocumentSteps \ {"put"} /\ worker'[w].pc # "mark_processed"
  BY <1>1 DEF DocumentSteps
<1> QED
  BY <1>4, <1>5 DEF WorkKept, At

LEMMA KeptStep == DistinctNames /\ TypeOK /\ Exclusive /\ AllKept /\ [Next]_vars => AllKept'
<1> SUFFICES ASSUME DistinctNames, TypeOK, Exclusive, AllKept, [Next]_vars PROVE AllKept'
  OBVIOUS
<1> USE DEF Pcs, DocumentSteps, EndSteps, ledger, stores
<1>1. CASE UNCHANGED vars
  BY <1>1 DEF vars, AllKept, WorkKept, SavedKept, Kept, Active, Working, At, MyPath, MyContent
<1>2. ASSUME NEW w \in Workers, Footprint(w), WorkKept(w)',
             \A m \in processed' : m \in processed \/ SavedKept(m)'
      PROVE  AllKept'
  BY <1>2, OthersKept DEF AllKept
<1>3. ASSUME NEW w \in Workers, WorkerStep(w) PROVE AllKept'
  <2>0. Footprint(w) /\ WorkKept(w)
    BY <1>3, StepFootprint DEF AllKept
  <2>1. CASE Claim(w)
    <3>1. UNCHANGED processed
      BY <2>1 DEF Claim
    <3>2. CASE Leave(w)
      <4>1. WorkKept(w)'
        BY <3>2, LeaveTypes, InactiveKept DEF WorkKept, Active, Working, At
      <4> QED
        BY <1>2, <2>0, <3>1, <4>1
    <3>3. CASE Resume(w, 1, << >>)
      <4>1. << >> \in Seq(DocumentResult)
        OBVIOUS
      <4>2. worker'[w].pc \in {"put", "save"} /\ worker'[w].documents = << >>
        BY <3>3, <4>1, ResumeTypes
      <4>3. WorkKept(w)'
        BY <4>2 DEF WorkKept, At
      <4> QED
        BY <1>2, <2>0, <3>1, <4>3
    <3> QED
      BY <2>1, <3>2, <3>3 DEF Claim
  <2>2. CASE Raise(w) /\ UNCHANGED processed
    <3>1. WorkKept(w)'
      BY <2>2, GoToTypes DEF Raise, WorkKept, Active, Working, At
    <3> QED
      BY <1>2, <2>0, <2>2, <3>1
  <2>3. ASSUME UNCHANGED processed, InDocument(w), NEW pc \in DocumentSteps, GoTo(w, pc),
               \A p \in Paths : p # MyPath(w) => storage'[p] = storage[p] /\ docStatus'[p] = docStatus[p],
               pc # "put" => storage'[MyPath(w)] = MyContent(w)
        PROVE  AllKept'
    BY <1>2, <2>0, <2>3, InDocumentKept
  <2>4. CASE Put(w)
    <3>1. InDocument(w) /\ UNCHANGED <<processed, docStatus>>
      BY <2>4 DEF Put, At, InDocument
    <3>2. CASE storage' = [storage EXCEPT ![MyPath(w)] = MyContent(w)] /\ GoTo(w, "set_stored")
      <4>1. /\ storage'[MyPath(w)] = MyContent(w)
            /\ \A p \in Paths : p # MyPath(w) => storage'[p] = storage[p]
        BY <3>1, <3>2, MyDocument DEF TypeOK
      <4> QED
        BY <2>3, <3>1, <3>2, <4>1
    <3> QED
      BY <2>2, <2>4, <3>1, <3>2 DEF Put
  <2>5. ASSUME NEW at \in DocumentSteps \ {"put"}, NEW value, NEW then \in DocumentSteps \ {"put"},
               SetStatus(w, at, value, then)
        PROVE  AllKept'
    <3>1. InDocument(w) /\ UNCHANGED <<processed, storage>>
      BY <2>5 DEF SetStatus, At, InDocument
    <3>2. CASE WriteStatus(w, value) /\ GoTo(w, then)
      <4>1. storage[MyPath(w)] = MyContent(w)
        BY <2>0, <2>5 DEF SetStatus, WorkKept, At
      <4>2. \A p \in Paths : p # MyPath(w) => docStatus'[p] = docStatus[p]
        BY <3>2 DEF WriteStatus, TypeOK
      <4> QED
        BY <2>3, <3>1, <3>2, <4>1, <4>2
    <3> QED
      BY <2>2, <2>5, <3>1, <3>2 DEF SetStatus
  <2>6. CASE Workflow(w)
    <3>1. InDocument(w) /\ UNCHANGED <<processed, storage, docStatus>>
      BY <2>6 DEF Workflow, At, InDocument
    <3>2. storage[MyPath(w)] = MyContent(w)
      BY <2>0, <2>6 DEF Workflow, WorkKept, At
    <3> QED
      BY <2>3, <2>6, <3>1, <3>2 DEF Workflow
  <2>7. ASSUME NEW at \in DocumentSteps \ {"put"}, NEW value \in Outcomes, SetOutcome(w, at, value)
        PROVE  AllKept'
    <3>1. InDocument(w) /\ ~At(w, "put") /\ UNCHANGED <<processed, storage>>
      BY <2>7 DEF SetOutcome, At, InDocument
    <3>2. CASE WriteStatus(w, value) /\ DocumentDone(w, value)
      BY <1>2, <2>0, <3>1, <3>2, OutcomeKept
    <3> QED
      BY <2>2, <2>7, <3>1, <3>2 DEF SetOutcome
  <2>8. CASE Save(w)
    <3>1. UNCHANGED <<processed, storage, docStatus>>
      BY <2>8 DEF Save
    <3>2. CASE /\ saved' = [saved EXCEPT ![worker[w].msg] =
                    [relevant |-> LegalRelevant(worker[w].msg), prepared |-> Prepared(worker[w].msg),
                     documents |-> worker[w].documents]]
               /\ GoTo(w, "mark_processed")
      <4> DEFINE m == worker[w].msg
                 result == [relevant |-> LegalRelevant(m), prepared |-> Prepared(m),
                            documents |-> worker[w].documents]
      <4>1. m \in Messages /\ result.documents = worker[w].documents
        BY DEF TypeOK, WorkerState
      <4>2. saved'[m] = result
        BY <3>2, <4>1 DEF TypeOK
      <4>3. result # Nothing
        <5>1. result \in Results
          BY DEF Results, TypeOK, WorkerState, LegalRelevant, Prepared
        <5> QED
          BY <5>1, NothingAssumption
      <4>4. Active(w)
        BY <2>8 DEF Save, At, Active, Working
      <4>5. worker'[w].pc = "mark_processed" /\ worker'[w].msg = m
            /\ worker'[w].next = worker[w].next /\ worker'[w].documents = worker[w].documents
        BY <3>2, GoToTypes
      <4> HIDE DEF result
      <4>6. \A k \in DOMAIN worker[w].documents :
              Kept(worker[w].msg, worker[w].next, worker[w].documents[k])'
        BY <2>0, <3>1, <4>4, <4>5 DEF WorkKept, Kept
      <4>7. WorkKept(w)'
        BY <4>1, <4>2, <4>3, <4>5, <4>6 DEF WorkKept, At
      <4> QED
        BY <1>2, <2>0, <3>1, <4>7
    <3> QED
      BY <2>2, <2>8, <3>1, <3>2 DEF Save
  <2>9. CASE MarkProcessed(w)
    <3>1. UNCHANGED stores /\ Active(w) /\ worker[w].msg \in Messages
      BY <2>9 DEF MarkProcessed, At, Active, Working, TypeOK, WorkerState
    <3>2. WorkKept(w)'
      BY <2>9, GoToTypes, LeaveTypes DEF MarkProcessed, Raise, WorkKept, Active, Working, At
    <3>3. ASSUME NEW m \in processed', m \notin processed PROVE SavedKept(m)'
      <4>1. m = worker[w].msg
        BY <2>9, <3>3 DEF MarkProcessed, RecordProcessed
      <4>2. saved[m] # Nothing /\ saved[m].documents = worker[w].documents
        BY <2>0, <2>9, <4>1 DEF MarkProcessed, WorkKept, At
      <4>3. \A k \in DOMAIN worker[w].documents : Kept(m, worker[w].next, worker[w].documents[k])
        BY <2>0, <3>1, <4>1 DEF WorkKept
      <4>4. SavedKept(m)
        BY <3>1, <4>1, <4>2, <4>3, AttachmentTypes DEF SavedKept, Kept
      <4> QED
        BY <3>1, <4>4 DEF SavedKept
    <3> QED
      BY <1>2, <2>0, <3>2, <3>3
  <2>10. CASE MarkFailed(w)
    <3>1. WorkKept(w)' /\ UNCHANGED processed
      BY <2>10, LeaveTypes DEF MarkFailed, WorkKept, Active, Working, At
    <3> QED
      BY <1>2, <2>0, <3>1
  <2> QED
    BY <1>3, <2>1, <2>4, <2>5, <2>6, <2>7, <2>8, <2>9, <2>10
    DEF WorkerStep, SetStored, SetProcessing, SetCompleted, SetFailed, Outcomes
<1>4. ASSUME NEW w \in Workers, Die(w) PROVE AllKept'
  <2>1. WorkKept(w)' /\ UNCHANGED processed
    BY <1>4, LeaveTypes DEF Die, WorkKept, Active, Working, At
  <2> QED
    BY <1>2, <1>4, <2>1, StepFootprint
<1>5. ASSUME NEW w \in Workers, NEW m \in Messages, Deliver(w, m) PROVE AllKept'
  <2>1. worker'[w].pc = "claim" /\ UNCHANGED processed
    BY <1>5 DEF Deliver, TypeOK
  <2>2. WorkKept(w)'
    BY <2>1 DEF WorkKept, Active, Working, At
  <2> QED
    BY <1>2, <1>5, <2>1, <2>2, StepFootprint
<1> QED
  BY <1>1, <1>3, <1>4, <1>5 DEF Next

LEMMA KeptAlways == ASSUME DistinctNames PROVE Spec => [](TypeOK /\ AllKept)
<1>1. TypeOK /\ Exclusive /\ AllKept /\ [Next]_vars => AllKept'
  BY KeptStep
<1> QED
  BY <1>1, TypeInit, TypeStep, ExclusiveInit, ExclusiveStep, KeptInit, PTL DEF Spec

\* When no message has two attachments of one name, the original of every
\* document of a message that is done is where its result says.
THEOREM OriginalsSafe == ASSUME DistinctNames PROVE Spec => []OriginalsKept
<1>1. TypeOK /\ AllKept => OriginalsKept
  BY DEF AllKept, SavedKept, OriginalsKept
<1> QED
  BY <1>1, KeptAlways, PTL

\* And the status of every such document is the one its result reports.
THEOREM ResultsAgree == ASSUME DistinctNames PROVE Spec => []StatusesAgree
<1>1. TypeOK /\ AllKept => StatusesAgree
  BY DEF AllKept, SavedKept, StatusesAgree
<1> QED
  BY <1>1, KeptAlways, PTL

-----------------------------------------------------------------------------
(* Workers, ledger and stores implement MessageLedger. *)

\* The result is saved before the message is marked.
LEMMA SavedStep == TypeOK /\ SavedFirst /\ [Next]_vars => SavedFirst'
<1> SUFFICES ASSUME TypeOK, SavedFirst, [Next]_vars PROVE SavedFirst'
  OBVIOUS
<1> USE DEF Pcs, DocumentSteps, EndSteps, ledger, stores
<1>1. CASE UNCHANGED vars
  BY <1>1 DEF vars, SavedFirst, At
<1>2. ASSUME NEW w \in Workers,
             \A v \in Workers : v # w => worker'[v] = worker[v],
             \A m \in Messages : saved[m] # Nothing => saved'[m] # Nothing,
             worker'[w].pc = "mark_processed" => saved'[worker'[w].msg] # Nothing
      PROVE  SavedFirst'
  BY <1>2 DEF SavedFirst, At, TypeOK, WorkerState
<1>3. ASSUME NEW w \in Workers, WorkerStep(w) \/ Die(w) \/ \E m \in Messages : Deliver(w, m)
      PROVE  SavedFirst'
  <2>1. \A v \in Workers : v # w => worker'[v] = worker[v]
    BY <1>3, StepFootprint DEF Footprint
  <2>2. CASE Save(w)
    <3> DEFINE m == worker[w].msg
               made == [relevant |-> LegalRelevant(m), prepared |-> Prepared(m),
                        documents |-> worker[w].documents]
    <3>1. made # Nothing /\ m \in Messages
      <4>1. made \in Results /\ m \in Messages
        BY DEF Results, TypeOK, WorkerState, LegalRelevant, Prepared
      <4> QED
        BY <4>1, NothingAssumption
    <3>2. \/ saved' = [saved EXCEPT ![m] = made] /\ GoTo(w, "mark_processed")
          \/ (saved' = [saved EXCEPT ![m] = made] \/ UNCHANGED saved) /\ Raise(w)
      BY <2>2 DEF Save
    <3> HIDE DEF made
    <3>3. \A n \in Messages : saved[n] # Nothing => saved'[n] # Nothing
      BY <3>1, <3>2 DEF TypeOK
    <3>4. worker'[w].pc = "mark_processed" => saved'[worker'[w].msg] # Nothing
      BY <3>1, <3>2, GoToTypes DEF TypeOK, Raise
    <3> QED
      BY <1>2, <2>1, <3>3, <3>4
  <2>3. CASE ~Save(w)
    <3>1. UNCHANGED saved
      BY <1>3, <2>3 DEF WorkerStep, Claim, Put, SetStored, SetProcessing, SetStatus, Workflow,
                   SetCompleted, SetFailed, SetOutcome, MarkProcessed, MarkFailed, Die, Deliver
    <3>2. worker'[w].pc # "mark_processed"
      <4>1. << >> \in Seq(DocumentResult)
        OBVIOUS
      <4>2. CASE Claim(w) \/ MarkFailed(w) \/ Die(w)
        <5>1. Leave(w) \/ Resume(w, 1, << >>)
          BY <4>2 DEF Claim, MarkFailed, Die
        <5> QED
          BY <4>1, <5>1, ResumeTypes, LeaveTypes
      <4>6. CASE \E m \in Messages : Deliver(w, m)
        BY <4>6 DEF Deliver, TypeOK
      <4>3. CASE MarkProcessed(w)
        BY <4>3, GoToTypes, LeaveTypes DEF MarkProcessed, Raise
      <4>4. CASE Put(w) \/ SetStored(w) \/ SetProcessing(w) \/ Workflow(w)
        <5>1. InDocument(w)
          BY <4>4 DEF Put, SetStored, SetProcessing, SetStatus, Workflow, At, InDocument
        <5> QED
          BY <4>4, <5>1, GoToTypes
          DEF Put, SetStored, SetProcessing, SetStatus, Workflow, Raise
      <4>5. ASSUME NEW at, NEW value \in Outcomes, SetOutcome(w, at, value), at \in DocumentSteps
            PROVE  worker'[w].pc # "mark_processed"
        <5>1. InDocument(w)
          BY <4>5 DEF SetOutcome, At, InDocument
        <5>2. DocumentDone(w, value) \/ Raise(w)
          BY <4>5 DEF SetOutcome
        <5>3. CASE DocumentDone(w, value)
          BY <4>5, <5>1, <5>3, DoneTypes
        <5>4. CASE Raise(w)
          BY <5>4, GoToTypes DEF Raise
        <5> QED
          BY <5>2, <5>3, <5>4
      <4>7. CASE SetCompleted(w) \/ SetFailed(w)
        <5>1. CASE SetCompleted(w)
          BY <4>5, <5>1 DEF SetCompleted, Outcomes
        <5>2. CASE SetFailed(w)
          BY <4>5, <5>2 DEF SetFailed, Outcomes
        <5> QED
          BY <4>7, <5>1, <5>2
      <4> QED
        BY <1>3, <2>3, <4>2, <4>3, <4>4, <4>6, <4>7 DEF WorkerStep
    <3> QED
      BY <1>2, <2>1, <3>1, <3>2
  <2> QED
    BY <2>2, <2>3
<1> QED
  BY <1>1, <1>3 DEF Next

LEMMA SavedInit == Init => SavedFirst
<1> SUFFICES ASSUME Init PROVE SavedFirst
  OBVIOUS
<1>1. \A w \in Workers : worker[w].pc = "idle"
  BY DEF Init
<1> QED
  BY <1>1 DEF SavedFirst, At

\* The phase of a message, before and after a step.
LEMMA PhaseCases ==
    ASSUME NEW m \in Messages
    PROVE  /\ m \in processed => PhaseOf(m) = "done"
           /\ m \notin claimed \cup processed => PhaseOf(m) = "new"
           /\ m \in claimed \ processed /\ (\E w \in Workers : Working(w) /\ worker[w].msg = m)
                => PhaseOf(m) = "held"
           /\ m \in claimed \ processed /\ ~(\E w \in Workers : Working(w) /\ worker[w].msg = m)
                => PhaseOf(m) = "stuck"
BY DEF PhaseOf

LEMMA NextPhaseCases ==
    ASSUME NEW m \in Messages
    PROVE  /\ m \in processed' => PhaseOf(m)' = "done"
           /\ m \notin claimed' \cup processed' => PhaseOf(m)' = "new"
           /\ m \in claimed' \ processed' /\ (\E w \in Workers : Working(w)' /\ worker'[w].msg = m)
                => PhaseOf(m)' = "held"
           /\ m \in claimed' \ processed' /\ ~(\E w \in Workers : Working(w)' /\ worker'[w].msg = m)
                => PhaseOf(m)' = "stuck"
BY DEF PhaseOf

\* A step of a worker leaves the phases of the other messages alone, and its
\* own message in its phase if the claim is as it was and the worker works on
\* it before and after, or not at all.
LEMMA PhaseKept ==
    ASSUME NEW w \in Workers, NEW m \in Messages,
           \A v \in Workers : v # w => worker'[v] = worker[v],
           m \in claimed' <=> m \in claimed, m \in processed' <=> m \in processed,
           (Working(w)' /\ worker'[w].msg = m) <=> (Working(w) /\ worker[w].msg = m)
    PROVE  PhaseOf(m)' = PhaseOf(m)
<1>1. (\E v \in Workers : Working(v)' /\ worker'[v].msg = m)
        <=> (\E v \in Workers : Working(v) /\ worker[v].msg = m)
  BY DEF Working
<1> QED
  BY <1>1, PhaseCases, NextPhaseCases

\* The moves of the abstract specification, as pairs.
Moves(m) ==
    {<<"new", "held">>, <<"held", "new">>}
    \cup (IF saved[m] # Nothing THEN {<<"held", "done">>} ELSE {})
    \cup (IF LedgerMayFail \/ WorkersMayDie THEN {<<"new", "stuck">>, <<"held", "stuck">>} ELSE {})

\* What a step does to the phase of the message it is about.
PhaseStep(m) ==
    \/ PhaseOf(m)' = PhaseOf(m)
    \/ UNCHANGED stores /\ <<PhaseOf(m), PhaseOf(m)'>> \in Moves(m)

LEMMA PhaseOfStep ==
    ASSUME TypeOK, Exclusive, SavedFirst, NEW w \in Workers, WorkerStep(w) \/ Die(w),
           NEW m \in Messages, m = worker[w].msg
    PROVE  /\ \A n \in Messages : n # m => PhaseOf(n)' = PhaseOf(n)
           /\ PhaseStep(m)
           /\ Active(w) => PhaseOf(m) = "held"
<1> USE DEF Pcs, DocumentSteps, EndSteps, ledger, stores
<1>0. \A v \in Workers : v # w => worker'[v] = worker[v]
  BY StepFootprint DEF Footprint
<1>1. /\ Claims(w)
      /\ \A v \in Workers : Working(v) /\ Working(w) /\ worker[v].msg = m => v = w
  BY DEF Exclusive, OneWorkerPerMessage
<1>2. Active(w) => PhaseOf(m) = "held"
  BY <1>0, <1>1, PhaseCases DEF Claims, Active
\* The frame: other messages.
<1>3. ASSUME \A n \in Messages : n # m => /\ n \in claimed' <=> n \in claimed
                                          /\ n \in processed' <=> n \in processed,
             Working(w)' => worker'[w].msg = m
      PROVE  \A n \in Messages : n # m => PhaseOf(n)' = PhaseOf(n)
  BY <1>0, <1>3, PhaseKept
\* The worker goes on with its message.
<1>4. ASSUME UNCHANGED ledger, Working(w), Working(w)', worker'[w].msg = m
      PROVE  PhaseOf(m)' = PhaseOf(m) /\ \A n \in Messages : n # m => PhaseOf(n)' = PhaseOf(n)
  <2>1. \A n \in Messages : /\ n \in claimed' <=> n \in claimed
                            /\ n \in processed' <=> n \in processed
    BY <1>4
  <2>2. PhaseOf(m)' = PhaseOf(m)
    BY <1>0, <1>4, <2>1, PhaseKept
  <2> QED
    BY <1>3, <1>4, <2>1, <2>2
<1>5. CASE Put(w) \/ SetStored(w) \/ SetProcessing(w) \/ Workflow(w) \/ SetCompleted(w) \/ SetFailed(w)
  <2>1. UNCHANGED ledger /\ InDocument(w)
    BY <1>5 DEF Put, SetStored, SetProcessing, SetStatus, Workflow, SetCompleted, SetFailed,
                SetOutcome, At, InDocument
  <2>2. worker'[w].msg = m /\ worker'[w].pc \in DocumentSteps \cup EndSteps
    BY <1>5, <2>1, GoToTypes, DoneTypes DEF Put, SetStored, SetProcessing, SetStatus, Workflow,
                SetCompleted, SetFailed, SetOutcome, Raise, Outcomes
  <2>3. Working(w) /\ Working(w)'
    BY <2>1, <2>2 DEF Working, InDocument
  <2> QED
    BY <1>2, <1>4, <2>1, <2>2, <2>3 DEF PhaseStep
<1>6. CASE Save(w)
  <2>1. UNCHANGED ledger /\ Working(w)
    BY <1>6 DEF Save, At, Working
  <2>2. worker'[w].msg = m /\ worker'[w].pc \in DocumentSteps \cup EndSteps
    BY <1>6, GoToTypes DEF Save, Raise
  <2>3. Working(w)'
    BY <2>2 DEF Working
  <2> QED
    BY <1>2, <1>4, <2>1, <2>2, <2>3 DEF PhaseStep
<1>7. CASE Claim(w)
  <2>1. ~Working(w) /\ UNCHANGED <<processed, stores>>
    BY <1>7 DEF Claim, At, Working
  <2>2. CASE Leave(w)
    <3>1. ~Working(w)'
      BY <2>2, LeaveTypes DEF Working
    <3>2. CASE UNCHANGED claimed
      BY <1>0, <1>2, <2>1, <3>1, <3>2, PhaseKept DEF PhaseStep
    <3>3. CASE m \notin claimed \cup processed /\ claimed' = claimed \cup {m} /\ LedgerMayFail
      <4>1. PhaseOf(m) = "new"
        BY <1>0, <3>3, PhaseCases
      <4>2. \A v \in Workers : ~(Working(v) /\ worker[v].msg = m)
        BY <3>3 DEF Exclusive, Claims
      <4>3. ~(\E v \in Workers : Working(v)' /\ worker'[v].msg = m)
        BY <1>0, <3>1, <4>2 DEF Working
      <4>4. PhaseOf(m)' = "stuck"
        BY <1>0, <2>1, <3>3, <4>3, NextPhaseCases
      <4>5. \A n \in Messages : n # m => PhaseOf(n)' = PhaseOf(n)
        BY <1>3, <2>1, <3>1, <3>3
      <4> QED
        BY <1>2, <2>1, <3>3, <4>1, <4>4, <4>5 DEF PhaseStep, Moves
    <3>4. ~Resume(w, 1, << >>)
      <4>1. << >> \in Seq(DocumentResult)
        OBVIOUS
      <4> QED
        BY <2>2, <4>1, ResumeTypes, LeaveTypes
    <3> QED
      BY <1>7, <3>2, <3>3, <3>4 DEF Claim
  <2>3. CASE m \notin claimed \cup processed /\ claimed' = claimed \cup {m} /\ Resume(w, 1, << >>)
    <3>1. << >> \in Seq(DocumentResult)
      OBVIOUS
    <3>2. worker'[w].pc \in {"put", "save"} /\ worker'[w].msg = m
      BY <2>3, <3>1, ResumeTypes
    <3>3. PhaseOf(m) = "new" /\ PhaseOf(m)' = "held"
      BY <1>0, <2>1, <2>3, <3>2, PhaseCases, NextPhaseCases DEF Working
    <3>4. \A n \in Messages : n # m => PhaseOf(n)' = PhaseOf(n)
      BY <1>3, <2>1, <2>3, <3>2
    <3> QED
      BY <1>2, <2>1, <3>3, <3>4 DEF PhaseStep, Moves
  <2> QED
    BY <1>7, <2>2, <2>3 DEF Claim
<1>8. CASE MarkProcessed(w)
  <2>1. UNCHANGED stores /\ Active(w) /\ Working(w) /\ saved[m] # Nothing
    BY <1>8 DEF MarkProcessed, At, Active, Working, SavedFirst
  <2>2. Working(w)' => worker'[w].msg = m
    BY <1>8, GoToTypes, LeaveTypes DEF MarkProcessed, Raise, Working
  <2>3. CASE RecordProcessed(m)
    <3>1. PhaseOf(m)' = "done"
      BY <1>0, <2>3, NextPhaseCases DEF RecordProcessed
    <3>2. \A n \in Messages : n # m => PhaseOf(n)' = PhaseOf(n)
      BY <1>3, <2>2, <2>3 DEF RecordProcessed
    <3> QED
      BY <1>2, <2>1, <3>1, <3>2 DEF PhaseStep, Moves
  <2>4. CASE UNCHANGED ledger /\ Raise(w)
    <3>1. Working(w)' /\ worker'[w].msg = m
      BY <2>4, GoToTypes DEF Raise, Working
    <3> QED
      BY <1>2, <1>4, <2>1, <2>4, <3>1 DEF PhaseStep
  <2> QED
    BY <1>8, <2>3, <2>4 DEF MarkProcessed
\* A worker that leaves its message gives the claim back, or leaves it behind.
<1>9. ASSUME Working(w), Leave(w), UNCHANGED <<processed, stores>>,
             \/ claimed' = claimed \ {m}
             \/ UNCHANGED claimed /\ (LedgerMayFail \/ WorkersMayDie)
      PROVE  PhaseStep(m) /\ \A n \in Messages : n # m => PhaseOf(n)' = PhaseOf(n)
  <2>1. ~Working(w)'
    BY <1>9, LeaveTypes DEF Working
  <2>2. \A n \in Messages : n # m => PhaseOf(n)' = PhaseOf(n)
    BY <1>3, <1>9, <2>1
  <2>3. ~(\E v \in Workers : Working(v)' /\ worker'[v].msg = m)
    BY <1>0, <1>1, <1>9, <2>1 DEF Working
  <2>4. CASE m \in processed
    BY <1>0, <1>9, <2>2, <2>4, PhaseCases, NextPhaseCases DEF PhaseStep
  <2>5. CASE m \notin processed
    <3>1. PhaseOf(m) = "held"
      BY <1>0, <1>1, <1>9, <2>5, PhaseCases DEF Claims
    <3>2. CASE claimed' = claimed \ {m}
      <4>1. PhaseOf(m)' = "new"
        BY <1>0, <1>9, <2>5, <3>2, NextPhaseCases
      <4> QED
        BY <1>9, <2>2, <3>1, <4>1 DEF PhaseStep, Moves
    <3>3. CASE UNCHANGED claimed /\ (LedgerMayFail \/ WorkersMayDie)
      <4>1. PhaseOf(m)' = "stuck"
        BY <1>0, <1>1, <1>9, <2>3, <2>5, <3>3, NextPhaseCases DEF Claims
      <4> QED
        BY <1>9, <2>2, <3>1, <3>3, <4>1 DEF PhaseStep, Moves
    <3> QED
      BY <1>9, <3>2, <3>3
  <2> QED
    BY <2>4, <2>5
<1>10. CASE MarkFailed(w)
  <2>1. Working(w) /\ Leave(w) /\ UNCHANGED <<processed, stores>>
        /\ (claimed' = claimed \ {m} \/ (LedgerMayFail /\ UNCHANGED claimed))
    BY <1>10 DEF MarkFailed, At, Working
  <2> QED
    BY <1>2, <1>9, <2>1
<1>11. CASE Die(w)
  <2>1. Leave(w) /\ UNCHANGED <<claimed, processed, stores>> /\ WorkersMayDie
    BY <1>11 DEF Die
  <2>2. CASE Working(w)
    BY <1>2, <1>9, <2>1, <2>2
  <2>3. CASE ~Working(w)
    <3>1. ~Working(w)'
      BY <2>1, LeaveTypes DEF Working
    <3> QED
      BY <1>0, <1>2, <2>1, <2>3, <3>1, PhaseKept DEF PhaseStep
  <2> QED
    BY <2>2, <2>3
<1> QED
  BY <1>5, <1>6, <1>7, <1>8, <1>10, <1>11 DEF WorkerStep

-----------------------------------------------------------------------------
\* The steps, one kind of move after the other.

\* Only the phase of one message moves.
LEMMA MoveOfPhase ==
    ASSUME TypeOK, NEW m \in Messages,
           \A n \in Messages : n # m => PhaseOf(n)' = PhaseOf(n), PhaseStep(m), UNCHANGED stores
    PROVE  [Ledger!Next]_<<[n \in Messages |-> PhaseOf(n)], saved, [n \in Messages |-> DocumentsOf(n)]>>
<1> DEFINE phase == [n \in Messages |-> PhaseOf(n)]
           documents == [n \in Messages |-> DocumentsOf(n)]
           names == {f.name : f \in Files}
<1>1. saved' = saved /\ documents' = documents
  BY DEF stores, DocumentsOf
<1>2. CASE PhaseOf(m)' = PhaseOf(m)
  <2>1. phase' = phase
    BY <1>2
  <2> QED
    BY <1>1, <2>1
<1>3. CASE <<PhaseOf(m), PhaseOf(m)'>> \in Moves(m)
  <2>1. ASSUME NEW from, NEW to, PhaseOf(m) = from, PhaseOf(m)' = to
        PROVE  phase[m] = from /\ phase' = [phase EXCEPT ![m] = to]
    BY <2>1
  <2>2. \/ PhaseOf(m) = "new" /\ PhaseOf(m)' = "held"
        \/ PhaseOf(m) = "held" /\ PhaseOf(m)' = "new"
        \/ saved[m] # Nothing /\ PhaseOf(m) = "held" /\ PhaseOf(m)' = "done"
        \/ (LedgerMayFail \/ WorkersMayDie) /\ PhaseOf(m) = "new" /\ PhaseOf(m)' = "stuck"
        \/ (LedgerMayFail \/ WorkersMayDie) /\ PhaseOf(m) = "held" /\ PhaseOf(m)' = "stuck"
    BY <1>3 DEF Moves
  <2>3. \/ phase[m] = "new" /\ phase' = [phase EXCEPT ![m] = "held"]
        \/ phase[m] = "held" /\ phase' = [phase EXCEPT ![m] = "new"]
        \/ saved[m] # Nothing /\ phase[m] = "held" /\ phase' = [phase EXCEPT ![m] = "done"]
        \/ (LedgerMayFail \/ WorkersMayDie) /\ phase[m] = "new" /\ phase' = [phase EXCEPT ![m] = "stuck"]
        \/ (LedgerMayFail \/ WorkersMayDie) /\ phase[m] = "held" /\ phase' = [phase EXCEPT ![m] = "stuck"]
    BY <2>1, <2>2
  <2> HIDE DEF phase, documents
  <2>4. Ledger!Take(m) \/ Ledger!GiveUp(m) \/ Ledger!Finish(m) \/ Ledger!LoseClaim(m)
    BY <1>1, <2>3 DEF Ledger!Take, Ledger!GiveUp, Ledger!Finish, Ledger!LoseClaim, Ledger!Move,
       phase, documents
  <2> QED
    BY <2>4 DEF Ledger!Next
<1> QED
  BY <1>2, <1>3 DEF PhaseStep

LedgerVars == <<[n \in Messages |-> PhaseOf(n)], saved, [n \in Messages |-> DocumentsOf(n)]>>

\* Only what is stored of one held message changes.
LEMMA StoreOfDocuments ==
    ASSUME NEW m \in Messages, PhaseOf(m) = "held",
           \A n \in Messages : PhaseOf(n)' = PhaseOf(n), UNCHANGED saved,
           \A p \in Paths : p[1] # m => storage'[p] = storage[p] /\ docStatus'[p] = docStatus[p]
    PROVE  [Ledger!Next]_LedgerVars
<1> DEFINE phase == [n \in Messages |-> PhaseOf(n)]
           documents == [n \in Messages |-> DocumentsOf(n)]
<1>1. ASSUME NEW n \in Messages, n # m PROVE DocumentsOf(n)' = DocumentsOf(n)
  <2>1. ASSUME NEW name \in {f.name : f \in Files}
        PROVE  storage'[<<n, name>>] = storage[<<n, name>>] /\ docStatus'[<<n, name>>] = docStatus[<<n, name>>]
    <3>1. <<n, name>> \in Paths /\ <<n, name>>[1] # m
      BY <1>1 DEF Paths
    <3> QED
      BY <3>1
  <2> QED
    BY <2>1 DEF DocumentsOf
<1>2. phase[m] = "held" /\ phase' = phase
  OBVIOUS
<1>3. documents' = [documents EXCEPT ![m] = documents'[m]]
  BY <1>1
<1> HIDE DEF phase, documents
<1>4. Ledger!Store(m)
  BY <1>2, <1>3 DEF Ledger!Store, phase, documents
<1> QED
  BY <1>4 DEF Ledger!Next, LedgerVars

\* Only the result of one held message changes.
LEMMA ConcludeOfMessage ==
    ASSUME TypeOK, NEW m \in Messages, PhaseOf(m) = "held",
           \A n \in Messages : PhaseOf(n)' = PhaseOf(n), UNCHANGED <<storage, docStatus>>,
           NEW made, made # Nothing, saved' = [saved EXCEPT ![m] = made]
    PROVE  [Ledger!Next]_LedgerVars
<1> DEFINE phase == [n \in Messages |-> PhaseOf(n)]
           documents == [n \in Messages |-> DocumentsOf(n)]
<1>1. phase[m] = "held" /\ phase' = phase /\ documents' = documents
  BY DEF DocumentsOf
<1>2. saved' = [saved EXCEPT ![m] = saved'[m]] /\ saved'[m] # Nothing
  BY DEF TypeOK
<1> HIDE DEF phase, documents
<1>3. Ledger!Conclude(m)
  BY <1>1, <1>2 DEF Ledger!Conclude, phase, documents
<1> QED
  BY <1>3 DEF Ledger!Next, LedgerVars

\* A step of a worker is a step of the ledger, or none.
LEMMA LedgerOfStep ==
    ASSUME TypeOK, Exclusive, SavedFirst, NEW w \in Workers, WorkerStep(w) \/ Die(w)
    PROVE  [Ledger!Next]_LedgerVars
<1>1. PICK m \in Messages : m = worker[w].msg
  BY DEF TypeOK, WorkerState
<1>2. /\ \A n \in Messages : n # m => PhaseOf(n)' = PhaseOf(n)
      /\ PhaseStep(m)
      /\ Active(w) => PhaseOf(m) = "held"
  BY <1>1, PhaseOfStep
<1>3. Footprint(w)
  BY StepFootprint
<1>4. CASE UNCHANGED stores
  BY <1>2, <1>4, MoveOfPhase DEF LedgerVars
<1>5. CASE ~UNCHANGED stores
  <2>1. PhaseOf(m) = "held" /\ \A n \in Messages : PhaseOf(n)' = PhaseOf(n)
    BY <1>2, <1>3, <1>5 DEF Footprint, PhaseStep
  <2>2. CASE Save(w)
    <3> DEFINE made == [relevant |-> LegalRelevant(m), prepared |-> Prepared(m),
                        documents |-> worker[w].documents]
    <3>1. made # Nothing
      <4>1. made \in Results
        BY <1>1 DEF Results, TypeOK, WorkerState, LegalRelevant, Prepared
      <4> QED
        BY <4>1, NothingAssumption
    <3>2. saved' = [saved EXCEPT ![m] = made] /\ UNCHANGED <<storage, docStatus>>
      BY <1>1, <1>5, <2>2 DEF Save, stores
    <3> HIDE DEF made
    <3> QED
      BY <2>1, <3>1, <3>2, ConcludeOfMessage
  <2>3. CASE ~Save(w)
    <3>1. UNCHANGED saved
      BY <2>3 DEF WorkerStep, Claim, Put, SetStored, SetProcessing, SetStatus, Workflow,
         SetCompleted, SetFailed, SetOutcome, MarkProcessed, MarkFailed, Die, stores
    <3>2. \A p \in Paths : p[1] # m => storage'[p] = storage[p] /\ docStatus'[p] = docStatus[p]
      BY <1>1, <1>3 DEF Footprint
    <3> QED
      BY <2>1, <3>1, <3>2, StoreOfDocuments
  <2> QED
    BY <2>2, <2>3
<1> QED
  BY <1>4, <1>5

LEMMA LedgerStep == TypeOK /\ Exclusive /\ SavedFirst /\ [Next]_vars => [Ledger!Next]_LedgerVars
<1> SUFFICES ASSUME TypeOK, Exclusive, SavedFirst, [Next]_vars PROVE [Ledger!Next]_LedgerVars
  OBVIOUS
<1>1. CASE UNCHANGED vars
  <2>1. \A n \in Messages : PhaseOf(n)' = PhaseOf(n) /\ DocumentsOf(n)' = DocumentsOf(n)
    BY <1>1 DEF vars, PhaseOf, DocumentsOf, Working
  <2> QED
    BY <1>1, <2>1 DEF vars, LedgerVars
<1>2. ASSUME NEW w \in Workers, NEW m \in Messages, Deliver(w, m) PROVE [Ledger!Next]_LedgerVars
  <2>1. /\ UNCHANGED <<ledger, stores>> /\ ~Working(w) /\ ~Working(w)'
        /\ \A v \in Workers : v # w => worker'[v] = worker[v]
    BY <1>2 DEF Deliver, At, Working, TypeOK, DocumentSteps, EndSteps
  <2>2. \A n \in Messages : PhaseOf(n)' = PhaseOf(n)
    BY <2>1, PhaseKept DEF ledger
  <2>3. \A n \in Messages : DocumentsOf(n)' = DocumentsOf(n)
    BY <2>1 DEF stores, DocumentsOf
  <2> QED
    BY <2>1, <2>2, <2>3 DEF stores, LedgerVars
<1> QED
  BY <1>1, <1>2, LedgerOfStep DEF Next

LEMMA LedgerInit == Init => Ledger!Init
<1> SUFFICES ASSUME Init PROVE Ledger!Init
  OBVIOUS
<1>1. \A m \in Messages : PhaseOf(m) = "new"
  BY PhaseCases DEF Init
<1>2. ASSUME NEW m \in Messages
      PROVE  DocumentsOf(m) = [name \in {f.name : f \in Files} |-> <<Nothing, "none">>]
  <2>1. \A name \in {f.name : f \in Files} : <<m, name>> \in Paths
    BY DEF Paths
  <2> QED
    BY <2>1 DEF Init, DocumentsOf
<1> QED
  BY <1>1, <1>2 DEF Ledger!Init, Init

\* Workers, ledger and stores implement the life of a message.
THEOREM ImplementsLedger == Spec => LedgerSpec
<1>1. TypeOK /\ Exclusive /\ SavedFirst /\ [Next]_vars => [Ledger!Next]_Ledger!ledgerVars
  BY LedgerStep DEF LedgerVars, Ledger!ledgerVars
<1> QED
  BY <1>1, TypeInit, TypeStep, ExclusiveInit, ExclusiveStep, SavedInit, SavedStep, LedgerInit, PTL
  DEF Spec, LedgerSpec, Ledger!Spec
=============================================================================
