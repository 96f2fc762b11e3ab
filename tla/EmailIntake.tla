------------------------------ MODULE EmailIntake ------------------------------
(***************************************************************************)
(* Incoming e-mail: workers that run EmailPipeline.process on messages the  *)
(* mail provider delivers, possibly more than once.  A ledger (idempotency, *)
(* supabase_processing_ledger) keeps two workers off one message; the       *)
(* inbox processor stores every readable attachment, runs the document      *)
(* workflow on it and keeps its status; the result store is written last.   *)
(*                                                                         *)
(* Ledger, storage, status store and result store are remote; each call is  *)
(* atomic and may raise, executed or not.  The ledger and the storage do    *)
(* what InMemoryProcessingLedger and InMemoryAttachmentStorage do.          *)
(***************************************************************************)
EXTENDS Naturals, Sequences

CONSTANTS
    Workers,
    Messages,
    Files,          \* the attachments: [name, content, legal, readable]
    Mail,           \* of each message: [hits, attachments]
    Nothing,        \* no content, no result
    LedgerMayFail,  \* calls of the ledger may raise
    StoresMayFail,  \* calls of the three stores may raise
    WorkersMayDie   \* a worker process may die between two calls

\* hits: how many LEGAL_TERMS occur; legal: the extension is .pdf or .docx;
\* readable: the extractor gets text out of it.
ASSUME FilesAssumption ==
    \A f \in Files : /\ DOMAIN f = {"name", "content", "legal", "readable"}
                     /\ {f.legal, f.readable} \subseteq BOOLEAN
                     /\ f.content # Nothing
ASSUME MailAssumption == Mail \in [Messages -> [hits : Nat, attachments : Seq(Files)]]
ASSUME FaultAssumption == {LedgerMayFail, StoresMayFail, WorkersMayDie} \subseteq BOOLEAN

VARIABLES
    claimed,    \* the ledger: messages some worker has claimed
    processed,  \* the ledger: messages that are done
    storage,    \* content of each stored path
    docStatus,  \* the document status of each path
    saved,      \* the persisted result of each message
    worker      \* where each worker is in which message

stores == <<storage, docStatus, saved>>
ledger == <<claimed, processed>>
vars == <<claimed, processed, storage, docStatus, saved, worker>>

-----------------------------------------------------------------------------
(* Triage and extraction *)

\* EmailTriage.classify: the relevance, in sixths.
Relevance(m) ==
    LET hits == IF Mail[m].hits < 3 THEN 2 * Mail[m].hits ELSE 6
        attached == \E i \in DOMAIN Mail[m].attachments : Mail[m].attachments[i].legal
    IN  IF attached /\ hits < 3 THEN 3 ELSE hits
Prepared(m) == 6 <= 3 * Relevance(m)
\* legal_relevant of the persisted result: at least 0.34.
LegalRelevant(m) == 34 * 6 <= 100 * Relevance(m)

\* extract_documents: what cannot be read becomes an issue and is skipped.
\* The readable attachments from the i-th on, if the message is prepared.
ReadableFrom(m, i) ==
    {j \in DOMAIN Mail[m].attachments : Prepared(m) /\ i <= j /\ Mail[m].attachments[j].readable}

Paths == Messages \X {f.name : f \in Files}
\* Mutant: attachments are stored under their filename alone.
PathByNameOnly(m, i) == <<CHOOSE n \in Messages : TRUE, Mail[m].attachments[i].name>>
Path(m, i) == <<m, Mail[m].attachments[i].name>>

-----------------------------------------------------------------------------
Contents == {f.content : f \in Files}
DocumentSteps == {"put", "set_stored", "set_processing", "workflow", "set_completed", "set_failed"}
EndSteps == {"save", "mark_processed", "mark_failed"}
Outcomes == {"completed", "failed"}
DocumentResult == [path : Paths, content : Contents, status : Outcomes]

\* next: the attachment being processed; documents: the results so far.
WorkerState ==
    [pc : {"idle", "claim"} \cup DocumentSteps \cup EndSteps, msg : Messages,
     next : Nat, documents : Seq(DocumentResult)]
Results == [relevant : BOOLEAN, prepared : BOOLEAN, documents : Seq(DocumentResult)]
ASSUME NothingAssumption == Nothing \notin Results

At(w, pc) == worker[w].pc = pc
GoTo(w, pc) == worker' = [worker EXCEPT ![w].pc = pc]
Raise(w) == GoTo(w, "mark_failed")
\* process has returned or raised.
Leave(w) == worker' = [worker EXCEPT ![w] = [@ EXCEPT !.pc = "idle", !.next = 0, !.documents = << >>]]

Init ==
    /\ claimed = {} /\ processed = {}
    /\ storage = [p \in Paths |-> Nothing]
    /\ docStatus = [p \in Paths |-> "none"]
    /\ saved = [m \in Messages |-> Nothing]
    /\ worker \in [Workers -> {[pc |-> "idle", msg |-> m, next |-> 0, documents |-> << >>] :
                                 m \in Messages}]

-----------------------------------------------------------------------------
(* EmailPipeline.process *)

Deliver(w, m) ==
    /\ At(w, "idle")
    /\ worker' = [worker EXCEPT ![w] = [pc |-> "claim", msg |-> m, next |-> 0, documents |-> << >>]]
    /\ UNCHANGED <<ledger, stores>>

\* Work on the next document from the i-th attachment on, if there is one.
Resume(w, i, documents) ==
    LET m == worker[w].msg
        rest == ReadableFrom(m, i)
        Continue(pc, next) == worker' = [worker EXCEPT ![w] =
                           [pc |-> pc, msg |-> m, next |-> next, documents |-> documents]]
    IN  \/ rest = {} /\ Continue("save", i)
        \/ \E j \in rest : (\A k \in rest : j <= k) /\ Continue("put", j)

\* Mutant: duplicates are not skipped.
ClaimUnchecked(w) ==
    /\ At(w, "claim")
    /\ claimed' = claimed \cup {worker[w].msg} /\ Resume(w, 1, << >>)
    /\ UNCHANGED <<processed, stores>>

\* Mutant: claim looks at the claimed messages only.
ClaimForgetful(w) ==
    /\ At(w, "claim")
    /\ \/ worker[w].msg \in claimed /\ Leave(w) /\ UNCHANGED claimed
       \/ worker[w].msg \notin claimed /\ claimed' = claimed \cup {worker[w].msg}
          /\ Resume(w, 1, << >>)
    /\ UNCHANGED <<processed, stores>>

\* The claim is made before the try: if it raises, nothing takes it back.
Claim(w) ==
    LET m == worker[w].msg
        taken == m \in claimed \cup processed
    IN  /\ At(w, "claim")
        /\ \/ taken /\ Leave(w) /\ UNCHANGED claimed
           \/ ~taken /\ claimed' = claimed \cup {m} /\ Resume(w, 1, << >>)
           \/ /\ LedgerMayFail
              /\ claimed' = (IF taken THEN claimed ELSE claimed \cup {m}) \/ UNCHANGED claimed
              /\ Leave(w)
        /\ UNCHANGED <<processed, stores>>

Save(w) ==
    LET m == worker[w].msg
        result == [relevant |-> LegalRelevant(m), prepared |-> Prepared(m),
                   documents |-> worker[w].documents]
    IN  /\ At(w, "save")
        /\ \/ saved' = [saved EXCEPT ![m] = result] /\ GoTo(w, "mark_processed")
           \/ /\ StoresMayFail
              /\ saved' = [saved EXCEPT ![m] = result] \/ UNCHANGED saved
              /\ Raise(w)
        /\ UNCHANGED <<ledger, storage, docStatus>>

RecordProcessed(m) == claimed' = claimed \ {m} /\ processed' = processed \cup {m}
MarkProcessed(w) ==
    /\ At(w, "mark_processed")
    /\ \/ RecordProcessed(worker[w].msg) /\ Leave(w)
       \/ LedgerMayFail /\ (RecordProcessed(worker[w].msg) \/ UNCHANGED ledger) /\ Raise(w)
    /\ UNCHANGED stores

\* The except clause; it re-raises, and so does a call of its own that fails.
MarkFailed(w) ==
    /\ At(w, "mark_failed")
    /\ Leave(w)
    /\ claimed' = claimed \ {worker[w].msg} \/ (LedgerMayFail /\ UNCHANGED claimed)
    /\ UNCHANGED <<processed, stores>>

-----------------------------------------------------------------------------
(* InboxProcessor._process_document *)

MyPath(w) == Path(worker[w].msg, worker[w].next)
MyContent(w) == Mail[worker[w].msg].attachments[worker[w].next].content

Put(w) ==
    LET stored == storage' = [storage EXCEPT ![MyPath(w)] = MyContent(w)]
    IN  /\ At(w, "put")
        /\ \/ stored /\ GoTo(w, "set_stored")
           \/ StoresMayFail /\ (stored \/ UNCHANGED storage) /\ Raise(w)
        /\ UNCHANGED <<ledger, docStatus, saved>>

WriteStatus(w, value) == docStatus' = [docStatus EXCEPT ![MyPath(w)] = value]
SetStatus(w, at, value, then) ==
    /\ At(w, at)
    /\ \/ WriteStatus(w, value) /\ GoTo(w, then)
       \/ StoresMayFail /\ (WriteStatus(w, value) \/ UNCHANGED docStatus) /\ Raise(w)
    /\ UNCHANGED <<ledger, storage, saved>>
SetStored(w) == SetStatus(w, "set_stored", "stored", "set_processing")
SetProcessing(w) == SetStatus(w, "set_processing", "processing", "workflow")

\* The workflow only reads; an exception of its own makes the document fail,
\* not the message.
Workflow(w) ==
    /\ At(w, "workflow")
    /\ GoTo(w, "set_completed") \/ GoTo(w, "set_failed")
    /\ UNCHANGED <<ledger, stores>>

\* The last set_status of a document; its result joins the others.
DocumentDone(w, value) ==
    LET result == [path |-> MyPath(w), content |-> MyContent(w), status |-> value]
    IN  Resume(w, worker[w].next + 1, Append(worker[w].documents, result))

SetOutcome(w, at, value) ==
    /\ At(w, at)
    /\ \/ WriteStatus(w, value) /\ DocumentDone(w, value)
       \/ StoresMayFail /\ (WriteStatus(w, value) \/ UNCHANGED docStatus) /\ Raise(w)
    /\ UNCHANGED <<ledger, storage, saved>>
SetCompleted(w) == SetOutcome(w, "set_completed", "completed")
\* Mutant: the document that failed is reported, its status is not written.
SetFailedUnwritten(w) ==
    At(w, "set_failed") /\ DocumentDone(w, "failed") /\ UNCHANGED <<ledger, stores>>
SetFailed(w) == SetOutcome(w, "set_failed", "failed")

\* The process of the worker dies; the process started in its place is idle.
Die(w) ==
    /\ WorkersMayDie
    /\ ~At(w, "idle")
    /\ Leave(w)
    /\ UNCHANGED <<ledger, stores>>

WorkerStep(w) ==
    \/ Claim(w) \/ Put(w) \/ SetStored(w) \/ SetProcessing(w) \/ Workflow(w)
    \/ SetCompleted(w) \/ SetFailed(w) \/ Save(w) \/ MarkProcessed(w) \/ MarkFailed(w)

Next ==
    \E w \in Workers :
        \/ WorkerStep(w) \/ Die(w)
        \/ \E m \in Messages : Deliver(w, m)

Spec == Init /\ [][Next]_vars

-----------------------------------------------------------------------------
(* Properties *)

Working(w) == worker[w].pc \in DocumentSteps \cup EndSteps
InDocument(w) == worker[w].pc \in DocumentSteps
Active(w) == Working(w) /\ ~At(w, "mark_failed")

TypeOK ==
    /\ claimed \subseteq Messages /\ processed \subseteq Messages
    /\ storage \in [Paths -> Contents \cup {Nothing}]
    /\ docStatus \in [Paths -> {"none", "stored", "processing"} \cup Outcomes]
    /\ saved \in [Messages -> Results \cup {Nothing}]
    /\ worker \in [Workers -> WorkerState]
    /\ \A w \in Workers : InDocument(w) => worker[w].next \in DOMAIN Mail[worker[w].msg].attachments

\* Two workers never process one message at the same time, although messages
\* are delivered again and the except clause gives up a claim whose outcome it
\* does not know.
OneWorkerPerMessage ==
    \A v, w \in Workers :
        Working(v) /\ Working(w) /\ worker[v].msg = worker[w].msg => v = w

\* A message the ledger reports done has its result persisted, and each of its
\* documents has the status that result gives it.
StatusesAgree ==
    \A m \in processed :
        /\ saved[m] # Nothing
        /\ \A i \in DOMAIN saved[m].documents :
             docStatus[saved[m].documents[i].path] = saved[m].documents[i].status

\* AttachmentStorage is the durable boundary for original attachments: what is
\* at the path of a document of a message that is done is that document.
OriginalsKept ==
    \A m \in processed : saved[m] # Nothing =>
        \A i \in DOMAIN saved[m].documents :
            storage[saved[m].documents[i].path] = saved[m].documents[i].content

\* A message that is done is not touched again: a redelivery neither stores
\* its attachments, nor moves their status, nor replaces its result.
ProcessedIsFinal ==
    [][\A m \in processed :
         /\ m \in processed'
         /\ saved'[m] = saved[m]
         /\ \A p \in Paths : p[1] = m => storage'[p] = storage[p] /\ docStatus'[p] = docStatus[p]]_vars

-----------------------------------------------------------------------------
(* The inductive strengthening the proofs rest on. *)

\* A worker that may still write works on a message that is claimed and not
\* done; what it gives up is claimed or done.
Claims(w) ==
    /\ Working(w) => worker[w].msg \in claimed \cup processed
    /\ Active(w) => worker[w].msg \notin processed
Exclusive ==
    /\ OneWorkerPerMessage
    /\ \A w \in Workers : Claims(w)

\* No message has two attachments of one name.
DistinctNames ==
    \A m \in Messages : \A i, j \in DOMAIN Mail[m].attachments :
        Mail[m].attachments[i].name = Mail[m].attachments[j].name => i = j

\* A result is that of an attachment before the i-th, and the stores agree.
Kept(m, i, result) ==
    /\ \E j \in DOMAIN Mail[m].attachments : j < i /\ result.path = Path(m, j)
    /\ storage[result.path] = result.content
    /\ docStatus[result.path] = result.status
WorkKept(w) ==
    /\ Active(w) => \A k \in DOMAIN worker[w].documents :
                       Kept(worker[w].msg, worker[w].next, worker[w].documents[k])
    /\ worker[w].pc \in DocumentSteps \ {"put"} => storage[MyPath(w)] = MyContent(w)
    /\ At(w, "mark_processed") =>
         /\ saved[worker[w].msg] # Nothing
         /\ saved[worker[w].msg].documents = worker[w].documents
SavedKept(m) ==
    /\ saved[m] # Nothing
    /\ \A k \in DOMAIN saved[m].documents :
         /\ saved[m].documents[k].path[1] = m
         /\ storage[saved[m].documents[k].path] = saved[m].documents[k].content
         /\ docStatus[saved[m].documents[k].path] = saved[m].documents[k].status
AllKept ==
    /\ \A w \in Workers : WorkKept(w)
    /\ \A m \in processed : SavedKept(m)

\* The result is there before the message is reported done.
SavedFirst == \A w \in Workers : At(w, "mark_processed") => saved[worker[w].msg] # Nothing

-----------------------------------------------------------------------------
(* Refinement *)

PhaseOf(m) ==
    CASE m \in processed -> "done"
      [] m \notin claimed \cup processed -> "new"
      [] OTHER -> IF \E w \in Workers : Working(w) /\ worker[w].msg = m THEN "held" ELSE "stuck"
DocumentsOf(m) ==
    [name \in {f.name : f \in Files} |-> <<storage[<<m, name>>], docStatus[<<m, name>>]>>]

\* Workers, ledger and stores implement the life of a message: redeliveries,
\* calls that raise and deaths never change anything of a message that is not
\* held or already done, only they can leave one claimed with nobody working on
\* it, and no redelivery ever gets such a message back (EmailPipeline.process,
\* whose claim is outside of the try).
Ledger == INSTANCE MessageLedger WITH
    NoDocuments <- [name \in {f.name : f \in Files} |-> <<Nothing, "none">>],
    ClaimsMayBeLost <- LedgerMayFail \/ WorkersMayDie,
    phase <- [m \in Messages |-> PhaseOf(m)],
    result <- saved,
    documents <- [m \in Messages |-> DocumentsOf(m)]
LedgerSpec == Ledger!Spec
=============================================================================
