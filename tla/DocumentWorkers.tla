--------------------------- MODULE DocumentWorkers ---------------------------
(***************************************************************************)
(* The document workers: two Edge Functions that cron calls every 30       *)
(* seconds (document-ocr-worker-v4, document-pipeline-worker-v3).  An      *)
(* invocation claims one job and goes through its awaited calls one by     *)
(* one; others run beside it.  The first worker recognizes the pages of a  *)
(* document; the second cuts them into chunks, embeds the chunks and       *)
(* analyzes them, one stage per job.                                       *)
(*                                                                         *)
(* The functions that claim jobs are in the database and not in the        *)
(* repository: they give a queued job, or one whose lease of 600 s ran     *)
(* out, to one invocation and count the attempt.                           *)
(***************************************************************************)
EXTENDS Naturals, FiniteSets

CONSTANTS
    Documents,
    Invocations,    \* requests of cron that can be in progress at a time
    PageNumbers,    \* the pages of a document
    Confidences,    \* how sure OCR can be of a page, in per cent
    Results,        \* the pages OCR can find in a document
    EmbedLimit,     \* chunks the embed stage reads
    AnalyzeLimit,   \* chunks the analyze stage reads
    None,
    MaxFaults       \* bound: lost writes, lost invocations and overruns

THRESHOLD == 85
MAX_RETRIES == 3

ASSUME PagesAssumption == PageNumbers \subseteq Nat
ASSUME ConfidencesAssumption == Confidences \subseteq 0..100
ASSUME ResultsAssumption ==
    Results \subseteq [PageNumbers -> [confidence : Confidences, blank : BOOLEAN] \cup {None}]
ASSUME LimitsAssumption == {EmbedLimit, AnalyzeLimit} \subseteq Nat
ASSUME BoundAssumption == MaxFaults \in Nat

VARIABLES
    jobs,       \* document_ocr_jobs and document_pipeline_jobs: status
    attempts,   \* document_ocr_jobs.attempts, counted to MAX_RETRIES
    docs,       \* documents: processing_status and manual_review_required
    pages,      \* document_pages
    chunks,     \* document_chunks
    analyses,   \* ai_analyses
    runs,       \* what each invocation is doing
    inserts,    \* chunk insertions so far: they tell the rows' ids apart
    disturbed,  \* documents that met a fault
    overrun,    \* documents with a job given to two invocations at once
    faults      \* faults so far

ocrTables == <<attempts, docs, pages>>
pipelineTables == <<chunks, analyses, inserts>>
history == <<disturbed, overrun, faults>>
vars == <<jobs, ocrTables, pipelineTables, runs, history>>

-----------------------------------------------------------------------------
Stages == {"ocr", "chunk", "embed", "analyze"}
Statuses == {"queued", "processing", "completed", "failed", "manual_review"}
DocumentStatuses == {"pending", "processing", "completed", "failed"}

\* A row of document_pages; a blank text makes no chunks.
Page == [confidence : Confidences, blank : BOOLEAN, status : {"completed", "manual_review"}]
NoPages == [n \in PageNumbers |-> None]
PageTable == [PageNumbers -> Page \cup {None}]
Found(rows) == {n \in PageNumbers : rows[n] # None}

\* A row of document_chunks: semanticLegalChunks makes at least one of a page's
\* text, and here exactly one, in the order of the pages.
Chunk == [doc : Documents, page : PageNumbers, confidence : Confidences,
          insert : Nat, embedded : BOOLEAN]
ChunksOf(d) == {c \in chunks : c.doc = d}
Analysis == [doc : Documents, sources : SUBSET Chunk]

OcrCalls == {"document", "begin", "recognize", "persist", "settle", "release"}
PipelineCalls == {"check", "pages", "delete", "insert", "chunks", "embed", "context",
                  "analyze", "finish"}
\* rows: pages read or recognized.  batch: chunks read.  outcome, left: the
\* status the job and the document are to get.
Run == [pc : {"idle"} \cup OcrCalls \cup PipelineCalls,
        doc : Documents \cup {None}, stage : Stages, attempt : Nat,
        rows : PageTable, batch : SUBSET Chunk,
        outcome : Statuses, left : DocumentStatuses]
Idle == [pc |-> "idle", doc |-> None, stage |-> "ocr", attempt |-> 0,
         rows |-> NoPages, batch |-> {}, outcome |-> "processing", left |-> "processing"]

At(i, pc) == runs[i].pc = pc
Doc(i) == runs[i].doc
Works(i, d, s) == runs[i].pc # "idle" /\ runs[i].doc = d /\ runs[i].stage = s
GoTo(i, pc) == runs' = [runs EXCEPT ![i].pc = pc]
SetJob(i, status) == jobs' = [jobs EXCEPT ![Doc(i)][runs[i].stage] = status]
SetDocument(d, status, review) ==
    docs' = [docs EXCEPT ![d] = [status |-> status, review |-> review]]

Fault(d) ==
    /\ faults < MaxFaults
    /\ faults' = faults + 1
    /\ disturbed' = disturbed \cup {d}
NoFault == UNCHANGED <<disturbed, faults>>

\* A write whose error the code does not look at.
Write(i, effect, unchanged) ==
    /\ \/ effect /\ NoFault
       \/ unchanged /\ Fault(Doc(i))
    /\ UNCHANGED overrun

Init ==
    /\ jobs = [d \in Documents |-> [s \in Stages |-> "queued"]]
    /\ attempts = [d \in Documents |-> 0]
    /\ docs = [d \in Documents |-> [status |-> "pending", review |-> FALSE]]
    /\ pages = [d \in Documents |-> NoPages]
    /\ chunks = {} /\ analyses = {} /\ inserts = 0
    /\ runs = [i \in Invocations |-> Idle]
    /\ disturbed = {} /\ overrun = {} /\ faults = 0

-----------------------------------------------------------------------------
(* Claims *)

\* claim_document_ocr_job, claim_document_pipeline_job.  A job can be claimed
\* while an invocation still works on it: the call after its requeue takes
\* longer than the delay, or the invocation outlives its lease.
Claim(i, d, s) ==
    /\ At(i, "idle")
    /\ jobs[d][s] \in {"queued", "processing"}
    /\ IF \E k \in Invocations : Works(k, d, s)
         THEN Fault(d) /\ overrun' = overrun \cup {d}
         ELSE NoFault /\ UNCHANGED overrun
    /\ jobs' = [jobs EXCEPT ![d][s] = "processing"]
    /\ attempts' = IF s = "ocr" /\ attempts[d] < MAX_RETRIES
                     THEN [attempts EXCEPT ![d] = attempts[d] + 1] ELSE attempts
    /\ runs' = [runs EXCEPT ![i] =
                  [Idle EXCEPT !.pc = IF s = "ocr" THEN "document" ELSE "check",
                               !.doc = d, !.stage = s, !.attempt = attempts'[d]]]
    /\ UNCHANGED <<docs, pages, pipelineTables>>

\* An invocation is ended by the platform, or a fetch throws outside of a try.
Die(i) ==
    /\ ~At(i, "idle")
    /\ Fault(Doc(i))
    /\ runs' = [runs EXCEPT ![i] = Idle]
    /\ UNCHANGED <<jobs, ocrTables, pipelineTables, overrun>>

-----------------------------------------------------------------------------
(* The OCR worker *)

Conclude(i, outcome, left) ==
    runs' = [runs EXCEPT ![i] = [Idle EXCEPT !.pc = "settle", !.doc = Doc(i),
                                             !.outcome = outcome, !.left = left]]

\* Mutant: the attempts are not looked at.
TerminalUncounted(i, retry) == ~retry

Terminal(i, retry) == ~retry \/ runs[i].attempt >= MAX_RETRIES

\* fail
Fail(i, retry) ==
    IF Terminal(i, retry) THEN Conclude(i, "manual_review", "failed")
                          ELSE Conclude(i, "queued", "processing")

\* The document is read; it may not be there, or have no storage_path.
ReadDocument(i) ==
    /\ At(i, "document")
    /\ GoTo(i, "begin") \/ Fail(i, FALSE)
    /\ UNCHANGED <<jobs, ocrTables, pipelineTables, history>>

Begin(i) ==
    /\ At(i, "begin")
    /\ Write(i, SetDocument(Doc(i), "processing", FALSE), UNCHANGED docs)
    /\ GoTo(i, "recognize")
    /\ UNCHANGED <<jobs, attempts, pages, pipelineTables>>

\* Download, upload and recognition, each of which may fail, and what comes
\* back: invalid JSON, no pages, or pages, of which those with a proper number
\* are kept.
PageRow(page) ==
    [confidence |-> page.confidence, blank |-> page.blank,
     status |-> IF page.confidence < THRESHOLD THEN "manual_review" ELSE "completed"]
Rows(result) ==
    [n \in PageNumbers |-> IF result[n] = None THEN None ELSE PageRow(result[n])]
Recognize(i) ==
    /\ At(i, "recognize")
    /\ \/ \E result \in Results :
            runs' = [runs EXCEPT ![i].pc = "persist", ![i].rows = Rows(result)]
       \/ \E retry \in BOOLEAN : Fail(i, retry)
    /\ UNCHANGED <<jobs, ocrTables, pipelineTables, history>>

\* The upsert of the pages; those of an earlier run with other numbers stay.
Low(rows) == {n \in Found(rows) : rows[n].confidence < THRESHOLD}
Upsert(d, rows) ==
    pages' = [pages EXCEPT ![d] =
                [n \in PageNumbers |-> IF n \in Found(rows) THEN rows[n] ELSE pages[d][n]]]
Persist(i) ==
    LET rows == runs[i].rows IN
    /\ At(i, "persist")
    /\ \/ /\ Upsert(Doc(i), rows)
          /\ Conclude(i, IF Low(rows) # {} THEN "manual_review" ELSE "completed", "completed")
       \/ Fail(i, FALSE) /\ (Upsert(Doc(i), rows) \/ UNCHANGED pages)
    /\ UNCHANGED <<jobs, attempts, docs, pipelineTables, history>>

\* The outcome is written into the job ...
Settle(i) ==
    /\ At(i, "settle")
    /\ Write(i, SetJob(i, runs[i].outcome), UNCHANGED jobs)
    /\ GoTo(i, "release")
    /\ UNCHANGED <<ocrTables, pipelineTables>>

\* Mutant: a run that fails for good does not ask for a review.
ReleaseUnflagged(i) ==
    /\ At(i, "release")
    /\ Write(i, SetDocument(Doc(i), runs[i].left,
                            runs[i].outcome = "manual_review" /\ runs[i].left = "completed"),
             UNCHANGED docs)
    /\ runs' = [runs EXCEPT ![i] = Idle]
    /\ UNCHANGED <<jobs, attempts, pages, pipelineTables>>

\* ... and then into the document.
Release(i) ==
    /\ At(i, "release")
    /\ Write(i, SetDocument(Doc(i), runs[i].left, runs[i].outcome = "manual_review"),
             UNCHANGED docs)
    /\ runs' = [runs EXCEPT ![i] = Idle]
    /\ UNCHANGED <<jobs, attempts, pages, pipelineTables>>

-----------------------------------------------------------------------------
(* The pipeline worker *)

FinishAs(i, outcome) ==
    runs' = [runs EXCEPT ![i] = [Idle EXCEPT !.pc = "finish", !.doc = Doc(i),
                                             !.stage = runs[i].stage, !.outcome = outcome]]

FirstCall(s) == CASE s = "chunk" -> "pages" [] s = "embed" -> "chunks" [] OTHER -> "context"

Check(i) ==
    /\ At(i, "check")
    /\ \/ docs[Doc(i)].review /\ FinishAs(i, "manual_review")
       \/ ~docs[Doc(i)].review /\ GoTo(i, FirstCall(runs[i].stage))
       \/ FinishAs(i, "failed")
    /\ UNCHANGED <<jobs, ocrTables, pipelineTables, history>>

\* Mutant: the document's flag is trusted.
ReadPagesUnchecked(i) ==
    LET rows == pages[Doc(i)] IN
    /\ At(i, "pages")
    /\ \/ /\ Found(rows) # {}
          /\ runs' = [runs EXCEPT ![i].pc = "delete", ![i].rows = rows]
       \/ FinishAs(i, "failed")
    /\ UNCHANGED <<jobs, ocrTables, pipelineTables, history>>

\* Stage "chunk": every page must have passed OCR.
ReadPages(i) ==
    LET rows == pages[Doc(i)]
        doubtful == {n \in Found(rows) : rows[n].status = "manual_review"} IN
    /\ At(i, "pages")
    /\ \/ /\ Found(rows) # {} /\ doubtful = {}
          /\ runs' = [runs EXCEPT ![i].pc = "delete", ![i].rows = rows]
       \/ doubtful # {} /\ FinishAs(i, "manual_review")
       \/ FinishAs(i, "failed")
    /\ UNCHANGED <<jobs, ocrTables, pipelineTables, history>>

Cut(d, rows) ==
    {[doc |-> d, page |-> n, confidence |-> rows[n].confidence,
      insert |-> inserts, embedded |-> FALSE] : n \in {k \in Found(rows) : ~rows[k].blank}}

DeleteChunks(i) ==
    /\ At(i, "delete")
    /\ Write(i, chunks' = chunks \ ChunksOf(Doc(i)), UNCHANGED chunks)
    /\ IF Cut(Doc(i), runs[i].rows) = {} THEN FinishAs(i, "failed") ELSE GoTo(i, "insert")
    /\ UNCHANGED <<jobs, ocrTables, analyses, inserts>>

\* Mutant: the error of the insert is not looked at.
InsertChunksUnchecked(i) ==
    /\ At(i, "insert")
    /\ chunks' = chunks \cup Cut(Doc(i), runs[i].rows) \/ UNCHANGED chunks
    /\ inserts' = inserts + 1
    /\ FinishAs(i, "completed")
    /\ UNCHANGED <<jobs, ocrTables, analyses, history>>

InsertChunks(i) ==
    /\ At(i, "insert")
    /\ \/ chunks' = chunks \cup Cut(Doc(i), runs[i].rows) /\ FinishAs(i, "completed")
       \/ /\ chunks' = chunks \cup Cut(Doc(i), runs[i].rows) \/ UNCHANGED chunks
          /\ FinishAs(i, "failed")
    /\ inserts' = inserts + 1
    /\ UNCHANGED <<jobs, ocrTables, analyses, history>>

\* .order("chunk_index").limit(n)
First(S, n) ==
    {B \in SUBSET S :
       /\ Cardinality(B) = (IF Cardinality(S) < n THEN Cardinality(S) ELSE n)
       /\ \A b \in B, c \in S \ B : b.page =< c.page}

\* Stage "embed": the first chunks without an embedding are read and sent ...
ReadChunks(i) ==
    /\ At(i, "chunks")
    /\ \/ \E batch \in First({c \in ChunksOf(Doc(i)) : ~c.embedded}, EmbedLimit) :
            IF batch = {}
              THEN FinishAs(i, "completed")
              ELSE runs' = [runs EXCEPT ![i].pc = "embed", ![i].batch = batch]
       \/ FinishAs(i, "failed")
    /\ UNCHANGED <<jobs, ocrTables, pipelineTables, history>>

\* Mutant: a chunk that gets no embedding is passed over.
EmbedSkipping(i) ==
    /\ At(i, "embed")
    /\ \E c \in runs[i].batch :
         /\ \A b \in runs[i].batch : c.page =< b.page
         /\ \/ chunks' = IF c \in chunks
                            THEN (chunks \ {c}) \cup {[c EXCEPT !.embedded = TRUE]}
                            ELSE chunks
            \/ UNCHANGED chunks
         /\ IF runs[i].batch = {c}
              THEN FinishAs(i, "completed")
              ELSE runs' = [runs EXCEPT ![i].batch = @ \ {c}]
    /\ UNCHANGED <<jobs, ocrTables, analyses, inserts, history>>

\* ... and get their embeddings one by one; a row that was deleted gets none.
Embed(i) ==
    /\ At(i, "embed")
    /\ \/ \E c \in runs[i].batch :
            /\ \A b \in runs[i].batch : c.page =< b.page
            /\ \/ /\ chunks' = IF c \in chunks
                                 THEN (chunks \ {c}) \cup {[c EXCEPT !.embedded = TRUE]}
                                 ELSE chunks
                  /\ IF runs[i].batch = {c}
                       THEN FinishAs(i, "completed")
                       ELSE runs' = [runs EXCEPT ![i].batch = @ \ {c}]
       \/ FinishAs(i, "failed") /\ UNCHANGED chunks
    /\ UNCHANGED <<jobs, ocrTables, analyses, inserts, history>>

\* Stage "analyze": the first chunks are read and sent ...
ReadContext(i) ==
    /\ At(i, "context")
    /\ \/ \E batch \in First(ChunksOf(Doc(i)), AnalyzeLimit) :
            /\ batch # {}
            /\ runs' = [runs EXCEPT ![i].pc = "analyze", ![i].batch = batch]
       \/ FinishAs(i, "failed")
    /\ UNCHANGED <<jobs, ocrTables, pipelineTables, history>>

\* ... and the answer is inserted with them as its sources.
Analyze(i) ==
    LET analysis == [doc |-> Doc(i), sources |-> runs[i].batch] IN
    /\ At(i, "analyze")
    /\ \/ analyses' = analyses \cup {analysis} /\ FinishAs(i, "completed")
       \/ /\ analyses' = analyses \cup {analysis} \/ UNCHANGED analyses
          /\ FinishAs(i, "failed")
    /\ UNCHANGED <<jobs, ocrTables, chunks, inserts, history>>

\* finish
Finish(i) ==
    /\ At(i, "finish")
    /\ Write(i, SetJob(i, runs[i].outcome), UNCHANGED jobs)
    /\ runs' = [runs EXCEPT ![i] = Idle]
    /\ UNCHANGED <<ocrTables, pipelineTables>>

-----------------------------------------------------------------------------
OcrStep(i) ==
    \/ ReadDocument(i) \/ Begin(i) \/ Recognize(i) \/ Persist(i) \/ Settle(i) \/ Release(i)
PipelineStep(i) ==
    \/ Check(i)
    \/ ReadPages(i) \/ DeleteChunks(i) \/ InsertChunks(i)
    \/ ReadChunks(i) \/ Embed(i)
    \/ ReadContext(i) \/ Analyze(i)
    \/ Finish(i)

Next ==
    \E i \in Invocations :
      \/ \E d \in Documents, s \in Stages : Claim(i, d, s)
      \/ OcrStep(i) \/ PipelineStep(i) \/ Die(i)

Spec == Init /\ [][Next]_vars

\* cron calls the OCR worker every 30 seconds, and an invocation goes on.
Fairness ==
    /\ \A i \in Invocations : WF_vars(OcrStep(i) \/ PipelineStep(i))
    /\ \A d \in Documents : WF_vars(\E i \in Invocations : Claim(i, d, "ocr"))
FairSpec == Spec /\ Fairness

-----------------------------------------------------------------------------
(* Properties *)

\* Types of the tables and of every invocation.
TypeOK ==
    /\ jobs \in [Documents -> [Stages -> Statuses]]
    /\ attempts \in [Documents -> 0..MAX_RETRIES]
    /\ docs \in [Documents -> [status : DocumentStatuses, review : BOOLEAN]]
    /\ pages \in [Documents -> PageTable]
    /\ chunks \subseteq Chunk /\ analyses \subseteq Analysis /\ inserts \in Nat
    /\ runs \in [Invocations -> Run]
    /\ disturbed \subseteq Documents /\ overrun \subseteq Documents
    /\ faults \in 0..MaxFaults

\* What is embedded or analyzed is text that OCR was sure of, whatever OCR run
\* replaces the pages, whichever writes are lost, and however the document's
\* flag lags behind (document-pipeline-worker-v3, the checks before chunking).
OnlyTrustedText ==
    /\ \A c \in chunks : c.confidence >= THRESHOLD
    /\ \A a \in analyses : \A c \in a.sources : c.confidence >= THRESHOLD

\* A completed stage has left its rows: chunks after "chunk", an analysis after
\* "analyze", through failures and repeated runs, as long as no two invocations
\* had the job at once (finish("completed") at the end of the worker).
CompletedHasRows ==
    \A d \in Documents \ overrun :
      /\ jobs[d]["chunk"] = "completed" => ChunksOf(d) # {}
      /\ jobs[d]["analyze"] = "completed" => \E a \in analyses : a.doc = d

\* When the OCR of a document is over, the document asks for a review exactly
\* if its job does, on each of the ways out of the worker.
ReviewAgrees ==
    \A d \in Documents \ disturbed :
      /\ jobs[d]["ocr"] \in {"completed", "manual_review"}
      /\ \A i \in Invocations : ~Works(i, d, "ocr")
      => /\ docs[d].review = (jobs[d]["ocr"] = "manual_review")
         /\ docs[d].status \in {"completed", "failed"}

\* A stage that reads only the first EmbedLimit chunks, fails halfway, runs again
\* or beside another, or finds its rows replaced leaves chunks without an
\* embedding only after all those with one: no chunk of one chunking is passed
\* over (the embed stage, which updates the rows in their order).
EmbeddedInOrder ==
    \A b, c \in chunks :
      b.doc = c.doc /\ b.insert = c.insert /\ b.page < c.page /\ c.embedded => b.embedded

\* OCR ends for every document, with pages or with a person.
OcrSettles == \A d \in Documents : <>(jobs[d]["ocr"] \in {"completed", "manual_review"})

-----------------------------------------------------------------------------
(* The inductive strengthening EmbeddedInOrder rests on. *)

\* What precedes a chunk a run is going to embed has its embedding, or the run
\* is going to embed it too.
Ahead(c, batch) ==
    \A b \in chunks :
      b.doc = c.doc /\ b.insert = c.insert /\ b.page < c.page => b.embedded \/ b \in batch
EmbedInv ==
    /\ EmbeddedInOrder
    /\ \A c \in chunks : c.insert < inserts
    /\ \A i \in Invocations : \A c \in runs[i].batch : c.insert < inserts
    /\ \A i \in Invocations : At(i, "embed") => \A c \in runs[i].batch : Ahead(c, runs[i].batch)
=============================================================================
