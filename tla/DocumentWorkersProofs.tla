------------------------ MODULE DocumentWorkersProofs ------------------------
(***************************************************************************)
(* Theorems about DocumentWorkers, for any documents, invocations, pages,   *)
(* results of OCR and number of faults.                                    *)
(***************************************************************************)
EXTENDS DocumentWorkers, TLAPS

Calls == {"idle"} \cup OcrCalls \cup PipelineCalls

\* Only invocation i moves, to a state r.
Moved(i, r) ==
    /\ runs'[i] = r
    /\ \A k \in Invocations \ {i} : runs'[k] = runs[k]

-----------------------------------------------------------------------------
(* What becomes of an invocation *)

LEMMA IdleType == Idle \in Run
<1>1. NoPages \in PageTable
  BY DEF NoPages, PageTable
<1> QED
  BY <1>1 DEF Idle, Run, Statuses, DocumentStatuses, Stages

LEMMA GoToMoves ==
    ASSUME TypeOK, NEW i \in Invocations, NEW pc \in Calls, GoTo(i, pc)
    PROVE  /\ runs' \in [Invocations -> Run]
           /\ Moved(i, [runs[i] EXCEPT !.pc = pc])
BY DEF TypeOK, GoTo, Moved, Run, Calls

LEMMA ResetMoves ==
    ASSUME TypeOK, NEW i \in Invocations, runs' = [runs EXCEPT ![i] = Idle]
    PROVE  runs' \in [Invocations -> Run] /\ Moved(i, Idle)
BY IdleType DEF TypeOK, Moved

LEMMA ConcludeMoves ==
    ASSUME TypeOK, NEW i \in Invocations, NEW outcome \in Statuses,
           NEW left \in DocumentStatuses, Conclude(i, outcome, left)
    PROVE  /\ runs' \in [Invocations -> Run]
           /\ Moved(i, [Idle EXCEPT !.pc = "settle", !.doc = Doc(i),
                                    !.outcome = outcome, !.left = left])
<1> DEFINE r == [Idle EXCEPT !.pc = "settle", !.doc = Doc(i), !.outcome = outcome, !.left = left]
<1>1. runs[i] \in Run
  BY DEF TypeOK
<1>2. r \in Run
  BY <1>1, IdleType DEF Run, Idle, Doc, OcrCalls
<1>3. runs' = [runs EXCEPT ![i] = r]
  BY DEF Conclude
<1> HIDE DEF r
<1>4. runs' \in [Invocations -> Run] /\ Moved(i, r)
  BY <1>2, <1>3 DEF TypeOK, Moved
<1> QED
  BY <1>4 DEF r

LEMMA FinishMoves ==
    ASSUME TypeOK, NEW i \in Invocations, NEW outcome \in Statuses, FinishAs(i, outcome)
    PROVE  /\ runs' \in [Invocations -> Run]
           /\ Moved(i, [Idle EXCEPT !.pc = "finish", !.doc = Doc(i),
                                    !.stage = runs[i].stage, !.outcome = outcome])
<1> DEFINE r == [Idle EXCEPT !.pc = "finish", !.doc = Doc(i),
                             !.stage = runs[i].stage, !.outcome = outcome]
<1>1. runs[i] \in Run
  BY DEF TypeOK
<1>2. r \in Run
  BY <1>1, IdleType DEF Run, Idle, Doc, PipelineCalls
<1>3. runs' = [runs EXCEPT ![i] = r]
  BY DEF FinishAs
<1> HIDE DEF r
<1>4. runs' \in [Invocations -> Run] /\ Moved(i, r)
  BY <1>2, <1>3 DEF TypeOK, Moved
<1> QED
  BY <1>4 DEF r

\* fail queues the job again or gives it up.
LEMMA FailMoves ==
    ASSUME TypeOK, NEW i \in Invocations, NEW retry \in BOOLEAN, Fail(i, retry)
    PROVE  /\ runs' \in [Invocations -> Run]
           /\ \/ Moved(i, [Idle EXCEPT !.pc = "settle", !.doc = Doc(i),
                                       !.outcome = "manual_review", !.left = "failed"])
              \/ Moved(i, [Idle EXCEPT !.pc = "settle", !.doc = Doc(i),
                                       !.outcome = "queued", !.left = "processing"])
<1>1. CASE Terminal(i, retry)
  <2>1. Conclude(i, "manual_review", "failed")
    BY <1>1 DEF Fail
  <2> QED
    BY <2>1, ConcludeMoves DEF Statuses, DocumentStatuses
<1>2. CASE ~Terminal(i, retry)
  <2>1. Conclude(i, "queued", "processing")
    BY <1>2 DEF Fail
  <2> QED
    BY <2>1, ConcludeMoves DEF Statuses, DocumentStatuses
<1> QED
  BY <1>1, <1>2

LEMMA RowsMove ==
    ASSUME TypeOK, NEW i \in Invocations, NEW pc \in Calls, NEW rows \in PageTable,
           runs' = [runs EXCEPT ![i].pc = pc, ![i].rows = rows]
    PROVE  /\ runs' \in [Invocations -> Run]
           /\ Moved(i, [runs[i] EXCEPT !.pc = pc, !.rows = rows])
<1> DEFINE r == [runs[i] EXCEPT !.pc = pc, !.rows = rows]
<1>1. r \in Run
  BY DEF TypeOK, Run, Calls
<1>2. runs' = [runs EXCEPT ![i] = r]
  BY DEF TypeOK
<1> HIDE DEF r
<1>3. runs' \in [Invocations -> Run] /\ Moved(i, r)
  BY <1>1, <1>2 DEF TypeOK, Moved
<1> QED
  BY <1>3 DEF r

LEMMA BatchMoves ==
    ASSUME TypeOK, NEW i \in Invocations, NEW pc \in Calls, NEW batch \in SUBSET Chunk,
           runs' = [runs EXCEPT ![i].pc = pc, ![i].batch = batch]
    PROVE  /\ runs' \in [Invocations -> Run]
           /\ Moved(i, [runs[i] EXCEPT !.pc = pc, !.batch = batch])
<1> DEFINE r == [runs[i] EXCEPT !.pc = pc, !.batch = batch]
<1>1. r \in Run
  BY DEF TypeOK, Run, Calls
<1>2. runs' = [runs EXCEPT ![i] = r]
  BY DEF TypeOK
<1> HIDE DEF r
<1>3. runs' \in [Invocations -> Run] /\ Moved(i, r)
  BY <1>1, <1>2 DEF TypeOK, Moved
<1> QED
  BY <1>3 DEF r

LEMMA ShrinkMoves ==
    ASSUME TypeOK, NEW i \in Invocations, NEW c,
           runs' = [runs EXCEPT ![i].batch = @ \ {c}]
    PROVE  /\ runs' \in [Invocations -> Run]
           /\ Moved(i, [runs[i] EXCEPT !.batch = runs[i].batch \ {c}])
<1> DEFINE r == [runs[i] EXCEPT !.batch = runs[i].batch \ {c}]
<1>1. r \in Run
  BY DEF TypeOK, Run
<1>2. runs' = [runs EXCEPT ![i] = r]
  BY DEF TypeOK
<1> HIDE DEF r
<1>3. runs' \in [Invocations -> Run] /\ Moved(i, r)
  BY <1>1, <1>2 DEF TypeOK, Moved
<1> QED
  BY <1>3 DEF r

LEMMA ClaimMoves ==
    ASSUME TypeOK, NEW i \in Invocations, NEW d \in Documents, NEW s \in Stages, Claim(i, d, s)
    PROVE  /\ attempts' \in [Documents -> 0..MAX_RETRIES]
           /\ runs' \in [Invocations -> Run]
           /\ Moved(i, [Idle EXCEPT !.pc = IF s = "ocr" THEN "document" ELSE "check",
                                    !.doc = d, !.stage = s, !.attempt = attempts'[d]])
<1>1. attempts' \in [Documents -> 0..MAX_RETRIES]
  <2>1. CASE s = "ocr" /\ attempts[d] < MAX_RETRIES
    <3>1. attempts[d] + 1 \in 0..MAX_RETRIES
      BY <2>1 DEF TypeOK, MAX_RETRIES
    <3> QED
      BY <2>1, <3>1 DEF Claim, TypeOK
  <2>2. CASE ~(s = "ocr" /\ attempts[d] < MAX_RETRIES)
    BY <2>2 DEF Claim, TypeOK
  <2> QED
    BY <2>1, <2>2
<1>2. PICK a \in Nat : a = attempts'[d]
  BY <1>1 DEF MAX_RETRIES
<1> DEFINE r == [Idle EXCEPT !.pc = IF s = "ocr" THEN "document" ELSE "check",
                             !.doc = d, !.stage = s, !.attempt = a]
<1>3. r \in Run
  BY IdleType DEF Run, Idle, OcrCalls, PipelineCalls
<1>4. runs' = [runs EXCEPT ![i] = r]
  BY <1>2 DEF Claim
<1> HIDE DEF r
<1>5. runs' \in [Invocations -> Run] /\ Moved(i, r)
  BY <1>3, <1>4 DEF TypeOK, Moved
<1> QED
  BY <1>1, <1>2, <1>5 DEF r

-----------------------------------------------------------------------------
(* Types and places: an invocation at a call of a stage works for that stage *)

Placed(r) ==
    /\ r.pc # "idle" => r.doc \in Documents
    /\ r.pc \in OcrCalls => r.stage = "ocr"
    /\ r.pc \in PipelineCalls => r.stage # "ocr"
    /\ r.pc \in {"pages", "delete", "insert"} => r.stage = "chunk"
    /\ r.pc \in {"chunks", "embed"} => r.stage = "embed"
    /\ r.pc \in {"context", "analyze"} => r.stage = "analyze"
PlaceInv == \A i \in Invocations : Placed(runs[i])
ShapeInv == TypeOK /\ PlaceInv

LEMMA PlacedMove ==
    ASSUME PlaceInv, NEW i \in Invocations, NEW r, Moved(i, r), Placed(r)
    PROVE  PlaceInv'
BY DEF PlaceInv, Moved

LEMMA CutType ==
    ASSUME TypeOK, NEW d \in Documents, NEW rows \in PageTable
    PROVE  Cut(d, rows) \subseteq Chunk
<1>1. ASSUME NEW n \in Found(rows)
      PROVE  [doc |-> d, page |-> n, confidence |-> rows[n].confidence,
              insert |-> inserts, embedded |-> FALSE] \in Chunk
  <2>1. n \in PageNumbers /\ rows[n] \in Page /\ inserts \in Nat
    BY DEF Found, PageTable, TypeOK
  <2>2. rows[n].confidence \in Confidences
    BY <2>1 DEF Page
  <2> QED
    BY <2>1, <2>2 DEF Chunk
<1> QED
  BY <1>1 DEF Cut

LEMMA RowsType ==
    ASSUME NEW result \in Results
    PROVE  Rows(result) \in PageTable
<1>1. result \in [PageNumbers -> [confidence : Confidences, blank : BOOLEAN] \cup {None}]
  BY ResultsAssumption
<1>2. ASSUME NEW n \in PageNumbers, result[n] # None
      PROVE  PageRow(result[n]) \in Page
  <2>1. result[n] \in [confidence : Confidences, blank : BOOLEAN]
    BY <1>1, <1>2
  <2> QED
    BY <2>1 DEF PageRow, Page
<1> QED
  BY <1>2 DEF Rows, PageTable

LEMMA UpsertType ==
    ASSUME TypeOK, NEW d \in Documents, NEW rows \in PageTable, Upsert(d, rows)
    PROVE  pages' \in [Documents -> PageTable]
<1> DEFINE merged == [n \in PageNumbers |-> IF n \in Found(rows) THEN rows[n] ELSE pages[d][n]]
<1>1. merged \in PageTable
  BY DEF PageTable, TypeOK
<1>2. pages' = [pages EXCEPT ![d] = merged]
  BY DEF Upsert
<1> HIDE DEF merged
<1> QED
  BY <1>1, <1>2 DEF TypeOK

\* What an unnoticed fault leaves of the history is well formed.
LEMMA FaultType ==
    ASSUME TypeOK, NEW d \in Documents, Fault(d) \/ NoFault
    PROVE  disturbed' \subseteq Documents /\ faults' \in 0..MaxFaults
BY BoundAssumption DEF TypeOK, Fault, NoFault

LEMMA SetDocumentType ==
    ASSUME TypeOK, NEW d \in Documents, NEW status \in DocumentStatuses, NEW review \in BOOLEAN,
           SetDocument(d, status, review)
    PROVE  docs' \in [Documents -> [status : DocumentStatuses, review : BOOLEAN]]
BY DEF TypeOK, SetDocument

LEMMA SetJobType ==
    ASSUME TypeOK, NEW i \in Invocations, NEW status \in Statuses, SetJob(i, status)
    PROVE  jobs' \in [Documents -> [Stages -> Statuses]]
BY DEF TypeOK, SetJob

LEMMA ShapeClaim ==
    ASSUME ShapeInv, NEW i \in Invocations, NEW d \in Documents, NEW s \in Stages, Claim(i, d, s)
    PROVE  ShapeInv'
<1>1. TypeOK /\ PlaceInv
  BY DEF ShapeInv
<1>2. /\ attempts' \in [Documents -> 0..MAX_RETRIES]
      /\ runs' \in [Invocations -> Run]
      /\ Moved(i, [Idle EXCEPT !.pc = IF s = "ocr" THEN "document" ELSE "check",
                               !.doc = d, !.stage = s, !.attempt = attempts'[d]])
  BY <1>1, ClaimMoves
<1>3. disturbed' \subseteq Documents /\ faults' \in 0..MaxFaults /\ overrun' \subseteq Documents
  <2>1. CASE \E k \in Invocations : Works(k, d, s)
    BY <1>1, <2>1, FaultType DEF Claim, TypeOK
  <2>2. CASE ~\E k \in Invocations : Works(k, d, s)
    BY <1>1, <2>2, FaultType DEF Claim, TypeOK
  <2> QED
    BY <2>1, <2>2
<1>4. jobs' \in [Documents -> [Stages -> Statuses]]
  BY <1>1 DEF Claim, TypeOK, Statuses
<1>5. TypeOK'
  BY <1>1, <1>2, <1>3, <1>4 DEF Claim, TypeOK, pipelineTables
<1>6. PlaceInv'
  <2>1. Placed([Idle EXCEPT !.pc = IF s = "ocr" THEN "document" ELSE "check",
                            !.doc = d, !.stage = s, !.attempt = attempts'[d]])
    BY DEF Placed, Idle, OcrCalls, PipelineCalls
  <2> QED
    BY <1>1, <1>2, <2>1, PlacedMove
<1> QED
  BY <1>5, <1>6 DEF ShapeInv

LEMMA ShapeDie ==
    ASSUME ShapeInv, NEW i \in Invocations, Die(i)
    PROVE  ShapeInv'
<1>1. TypeOK /\ PlaceInv /\ Doc(i) \in Documents
  BY DEF ShapeInv, PlaceInv, Placed, Die, At, Doc
<1>2. runs' \in [Invocations -> Run] /\ Moved(i, Idle)
  BY <1>1, ResetMoves DEF Die
<1>3. Placed(Idle)
  BY DEF Placed, Idle, OcrCalls, PipelineCalls
<1>4. disturbed' \subseteq Documents /\ faults' \in 0..MaxFaults
  BY <1>1, FaultType DEF Die
<1>5. TypeOK'
  BY <1>1, <1>2, <1>4 DEF Die, TypeOK, ocrTables, pipelineTables
<1> QED
  BY <1>1, <1>2, <1>3, <1>5, PlacedMove DEF ShapeInv

\* The two ways a run is closed keep its place.
LEMMA ShapeFail ==
    ASSUME ShapeInv, NEW i \in Invocations, NEW retry \in BOOLEAN, ~At(i, "idle"), Fail(i, retry)
    PROVE  runs' \in [Invocations -> Run] /\ PlaceInv'
<1>1. TypeOK /\ PlaceInv /\ Doc(i) \in Documents
  BY DEF ShapeInv, PlaceInv, Placed, At, Doc
<1>2. /\ runs' \in [Invocations -> Run]
      /\ \/ Moved(i, [Idle EXCEPT !.pc = "settle", !.doc = Doc(i),
                                  !.outcome = "manual_review", !.left = "failed"])
         \/ Moved(i, [Idle EXCEPT !.pc = "settle", !.doc = Doc(i),
                                  !.outcome = "queued", !.left = "processing"])
  BY <1>1, FailMoves
<1>3. /\ Placed([Idle EXCEPT !.pc = "settle", !.doc = Doc(i),
                             !.outcome = "manual_review", !.left = "failed"])
      /\ Placed([Idle EXCEPT !.pc = "settle", !.doc = Doc(i),
                             !.outcome = "queued", !.left = "processing"])
  BY <1>1 DEF Placed, Idle, OcrCalls, PipelineCalls
<1> QED
  BY <1>1, <1>2, <1>3, PlacedMove

LEMMA ShapeFinishAs ==
    ASSUME ShapeInv, NEW i \in Invocations, NEW outcome \in Statuses,
           runs[i].pc \in PipelineCalls, FinishAs(i, outcome)
    PROVE  runs' \in [Invocations -> Run] /\ PlaceInv'
<1>1. TypeOK /\ PlaceInv /\ Doc(i) \in Documents /\ runs[i].stage # "ocr"
  BY DEF ShapeInv, PlaceInv, Placed, Doc, PipelineCalls
<1>2. /\ runs' \in [Invocations -> Run]
      /\ Moved(i, [Idle EXCEPT !.pc = "finish", !.doc = Doc(i),
                               !.stage = runs[i].stage, !.outcome = outcome])
  BY <1>1, FinishMoves
<1>3. Placed([Idle EXCEPT !.pc = "finish", !.doc = Doc(i),
                          !.stage = runs[i].stage, !.outcome = outcome])
  BY <1>1 DEF Placed, Idle, OcrCalls, PipelineCalls
<1> QED
  BY <1>1, <1>2, <1>3, PlacedMove

LEMMA ShapeOcr ==
    ASSUME ShapeInv, NEW i \in Invocations, OcrStep(i)
    PROVE  ShapeInv'
<1>0. TypeOK /\ PlaceInv /\ runs[i] \in Run
  BY DEF ShapeInv, TypeOK
<1>1. CASE ReadDocument(i)
  <2>1. runs' \in [Invocations -> Run] /\ PlaceInv'
    <3>1. CASE GoTo(i, "begin")
      <4>1. /\ runs' \in [Invocations -> Run]
            /\ Moved(i, [runs[i] EXCEPT !.pc = "begin"])
        BY <1>0, <3>1, GoToMoves DEF Calls, OcrCalls
      <4>2. Placed([runs[i] EXCEPT !.pc = "begin"])
        BY <1>0, <1>1 DEF ReadDocument, At, PlaceInv, Placed, OcrCalls, PipelineCalls, Run
      <4> QED
        BY <1>0, <4>1, <4>2, PlacedMove
    <3>2. CASE Fail(i, FALSE)
      BY <1>1, <3>2, ShapeFail DEF ReadDocument, At
    <3> QED
      BY <1>1, <3>1, <3>2 DEF ReadDocument
  <2> QED
    BY <1>0, <1>1, <2>1 DEF ReadDocument, ShapeInv, TypeOK, ocrTables, pipelineTables, history
<1>2. CASE Begin(i)
  <2>1. Doc(i) \in Documents
    BY <1>0, <1>2 DEF Begin, At, Doc, PlaceInv, Placed
  <2>2. /\ runs' \in [Invocations -> Run]
        /\ Moved(i, [runs[i] EXCEPT !.pc = "recognize"])
    BY <1>0, <1>2, GoToMoves DEF Begin, Calls, OcrCalls
  <2>3. Placed([runs[i] EXCEPT !.pc = "recognize"])
    BY <1>0, <1>2 DEF Begin, At, PlaceInv, Placed, OcrCalls, PipelineCalls, Run
  <2>4. docs' \in [Documents -> [status : DocumentStatuses, review : BOOLEAN]]
    <3>1. CASE SetDocument(Doc(i), "processing", FALSE)
      BY <1>0, <2>1, <3>1, SetDocumentType DEF DocumentStatuses
    <3>2. CASE UNCHANGED docs
      BY <1>0, <3>2 DEF TypeOK
    <3> QED
      BY <1>2, <3>1, <3>2 DEF Begin, Write
  <2>5. disturbed' \subseteq Documents /\ faults' \in 0..MaxFaults
    BY <1>0, <1>2, <2>1, FaultType DEF Begin, Write
  <2>6. TypeOK'
    BY <1>0, <1>2, <2>2, <2>4, <2>5 DEF Begin, Write, TypeOK, pipelineTables
  <2> QED
    BY <1>0, <2>2, <2>3, <2>6, PlacedMove DEF ShapeInv
<1>3. CASE Recognize(i)
  <2>1. runs' \in [Invocations -> Run] /\ PlaceInv'
    <3>1. CASE \E result \in Results :
                 runs' = [runs EXCEPT ![i].pc = "persist", ![i].rows = Rows(result)]
      <4>1. PICK result \in Results :
              runs' = [runs EXCEPT ![i].pc = "persist", ![i].rows = Rows(result)]
        BY <3>1
      <4>2. Rows(result) \in PageTable
        BY RowsType
      <4>3. /\ runs' \in [Invocations -> Run]
            /\ Moved(i, [runs[i] EXCEPT !.pc = "persist", !.rows = Rows(result)])
        BY <1>0, <4>1, <4>2, RowsMove DEF Calls, OcrCalls
      <4>4. Placed([runs[i] EXCEPT !.pc = "persist", !.rows = Rows(result)])
        BY <1>0, <1>3 DEF Recognize, At, PlaceInv, Placed, OcrCalls, PipelineCalls, Run
      <4> QED
        BY <1>0, <4>3, <4>4, PlacedMove
    <3>2. ASSUME NEW retry \in BOOLEAN, Fail(i, retry)
          PROVE  runs' \in [Invocations -> Run] /\ PlaceInv'
      BY <1>3, <3>2, ShapeFail DEF Recognize, At
    <3> QED
      BY <1>3, <3>1, <3>2 DEF Recognize
  <2> QED
    BY <1>0, <1>3, <2>1 DEF Recognize, ShapeInv, TypeOK, ocrTables, pipelineTables, history
<1>4. CASE Persist(i)
  <2>1. Doc(i) \in Documents /\ runs[i].rows \in PageTable
    BY <1>0, <1>4 DEF Persist, At, Doc, PlaceInv, Placed, Run
  <2>2. pages' \in [Documents -> PageTable]
    BY <1>0, <1>4, <2>1, UpsertType DEF Persist, TypeOK
  <2>3. runs' \in [Invocations -> Run] /\ PlaceInv'
    <3>1. ASSUME NEW outcome \in {"manual_review", "completed"}, Conclude(i, outcome, "completed")
          PROVE  runs' \in [Invocations -> Run] /\ PlaceInv'
      <4>1. /\ runs' \in [Invocations -> Run]
            /\ Moved(i, [Idle EXCEPT !.pc = "settle", !.doc = Doc(i),
                                     !.outcome = outcome, !.left = "completed"])
        BY <1>0, <3>1, ConcludeMoves DEF Statuses, DocumentStatuses
      <4>2. Placed([Idle EXCEPT !.pc = "settle", !.doc = Doc(i),
                                !.outcome = outcome, !.left = "completed"])
        BY <2>1 DEF Placed, Idle, OcrCalls, PipelineCalls
      <4> QED
        BY <1>0, <4>1, <4>2, PlacedMove
    <3>2. CASE Fail(i, FALSE)
      BY <1>4, <3>2, ShapeFail DEF Persist, At
    <3>3. CASE Conclude(i, IF Low(runs[i].rows) # {} THEN "manual_review" ELSE "completed",
                        "completed")
      BY <3>1, <3>3
    <3> QED
      BY <1>4, <3>2, <3>3 DEF Persist
  <2> QED
    BY <1>0, <1>4, <2>2, <2>3 DEF Persist, ShapeInv, TypeOK, pipelineTables, history
<1>5. CASE Settle(i)
  <2>1. Doc(i) \in Documents /\ runs[i].outcome \in Statuses
    BY <1>0, <1>5 DEF Settle, At, Doc, PlaceInv, Placed, Run
  <2>2. /\ runs' \in [Invocations -> Run]
        /\ Moved(i, [runs[i] EXCEPT !.pc = "release"])
    BY <1>0, <1>5, GoToMoves DEF Settle, Calls, OcrCalls
  <2>3. Placed([runs[i] EXCEPT !.pc = "release"])
    BY <1>0, <1>5 DEF Settle, At, PlaceInv, Placed, OcrCalls, PipelineCalls, Run
  <2>4. jobs' \in [Documents -> [Stages -> Statuses]]
    <3>1. CASE SetJob(i, runs[i].outcome)
      BY <1>0, <2>1, <3>1, SetJobType
    <3>2. CASE UNCHANGED jobs
      BY <1>0, <3>2 DEF TypeOK
    <3> QED
      BY <1>5, <3>1, <3>2 DEF Settle, Write
  <2>5. disturbed' \subseteq Documents /\ faults' \in 0..MaxFaults
    BY <1>0, <1>5, <2>1, FaultType DEF Settle, Write
  <2>6. TypeOK'
    BY <1>0, <1>5, <2>2, <2>4, <2>5 DEF Settle, Write, TypeOK, ocrTables, pipelineTables
  <2> QED
    BY <1>0, <2>2, <2>3, <2>6, PlacedMove DEF ShapeInv
<1>6. CASE Release(i)
  <2>1. Doc(i) \in Documents /\ runs[i].left \in DocumentStatuses
    BY <1>0, <1>6 DEF Release, At, Doc, PlaceInv, Placed, Run
  <2>2. runs' \in [Invocations -> Run] /\ Moved(i, Idle)
    BY <1>0, <1>6, ResetMoves DEF Release
  <2>3. Placed(Idle)
    BY DEF Placed, Idle, OcrCalls, PipelineCalls
  <2>4. docs' \in [Documents -> [status : DocumentStatuses, review : BOOLEAN]]
    <3>1. CASE SetDocument(Doc(i), runs[i].left, runs[i].outcome = "manual_review")
      BY <1>0, <2>1, <3>1, SetDocumentType
    <3>2. CASE UNCHANGED docs
      BY <1>0, <3>2 DEF TypeOK
    <3> QED
      BY <1>6, <3>1, <3>2 DEF Release, Write
  <2>5. disturbed' \subseteq Documents /\ faults' \in 0..MaxFaults
    BY <1>0, <1>6, <2>1, FaultType DEF Release, Write
  <2>6. TypeOK'
    BY <1>0, <1>6, <2>2, <2>4, <2>5 DEF Release, Write, TypeOK, pipelineTables
  <2> QED
    BY <1>0, <2>2, <2>3, <2>6, PlacedMove DEF ShapeInv
<1> QED
  BY <1>1, <1>2, <1>3, <1>4, <1>5, <1>6 DEF OcrStep

LEMMA ShapePipeline ==
    ASSUME ShapeInv, NEW i \in Invocations, PipelineStep(i)
    PROVE  ShapeInv'
<1>0. TypeOK /\ PlaceInv /\ runs[i] \in Run
  BY DEF ShapeInv, TypeOK
<1>f. ASSUME NEW outcome \in {"completed", "failed", "manual_review"},
             runs[i].pc \in PipelineCalls, FinishAs(i, outcome)
      PROVE  runs' \in [Invocations -> Run] /\ PlaceInv'
  BY <1>f, ShapeFinishAs DEF Statuses
<1>1. CASE Check(i)
  <2>1. runs[i].pc \in PipelineCalls
    BY <1>1 DEF Check, At, PipelineCalls
  <2>2. runs' \in [Invocations -> Run] /\ PlaceInv'
    <3>1. CASE GoTo(i, FirstCall(runs[i].stage))
      <4>1. FirstCall(runs[i].stage) \in Calls
        BY DEF FirstCall, Calls, PipelineCalls
      <4>2. /\ runs' \in [Invocations -> Run]
            /\ Moved(i, [runs[i] EXCEPT !.pc = FirstCall(runs[i].stage)])
        BY <1>0, <3>1, <4>1, GoToMoves
      <4>3. Placed(runs[i]) /\ runs[i].stage \in Stages /\ runs[i].stage # "ocr"
        BY <1>0, <2>1 DEF PlaceInv, Placed, Run
      <4>4. Placed([runs[i] EXCEPT !.pc = FirstCall(runs[i].stage)])
        BY <1>0, <1>1, <4>3
        DEF Check, At, Placed, OcrCalls, PipelineCalls, FirstCall, Run, Stages
      <4> QED
        BY <1>0, <4>2, <4>4, PlacedMove
    <3> QED
      BY <1>1, <1>f, <2>1, <3>1 DEF Check
  <2> QED
    BY <1>0, <1>1, <2>2 DEF Check, ShapeInv, TypeOK, ocrTables, pipelineTables, history
<1>2. CASE ReadPages(i)
  <2>1. runs[i].pc \in PipelineCalls /\ Doc(i) \in Documents
    BY <1>0, <1>2 DEF ReadPages, At, PipelineCalls, PlaceInv, Placed, Doc
  <2>2. runs' \in [Invocations -> Run] /\ PlaceInv'
    <3>1. CASE runs' = [runs EXCEPT ![i].pc = "delete", ![i].rows = pages[Doc(i)]]
      <4>1. pages[Doc(i)] \in PageTable
        BY <1>0, <2>1 DEF TypeOK
      <4>2. /\ runs' \in [Invocations -> Run]
            /\ Moved(i, [runs[i] EXCEPT !.pc = "delete", !.rows = pages[Doc(i)]])
        BY <1>0, <3>1, <4>1, RowsMove DEF Calls, PipelineCalls
      <4>3. Placed([runs[i] EXCEPT !.pc = "delete", !.rows = pages[Doc(i)]])
        BY <1>0, <1>2 DEF ReadPages, At, PlaceInv, Placed, OcrCalls, PipelineCalls, Run
      <4> QED
        BY <1>0, <4>2, <4>3, PlacedMove
    <3> QED
      BY <1>2, <1>f, <2>1, <3>1 DEF ReadPages
  <2> QED
    BY <1>0, <1>2, <2>2 DEF ReadPages, ShapeInv, TypeOK, ocrTables, pipelineTables, history
<1>3. CASE DeleteChunks(i)
  <2>1. runs[i].pc \in PipelineCalls /\ Doc(i) \in Documents
    BY <1>0, <1>3 DEF DeleteChunks, At, PipelineCalls, PlaceInv, Placed, Doc
  <2>2. runs' \in [Invocations -> Run] /\ PlaceInv'
    <3>1. CASE GoTo(i, "insert")
      <4>1. /\ runs' \in [Invocations -> Run]
            /\ Moved(i, [runs[i] EXCEPT !.pc = "insert"])
        BY <1>0, <3>1, GoToMoves DEF Calls, PipelineCalls
      <4>2. Placed([runs[i] EXCEPT !.pc = "insert"])
        BY <1>0, <1>3 DEF DeleteChunks, At, PlaceInv, Placed, OcrCalls, PipelineCalls, Run
      <4> QED
        BY <1>0, <4>1, <4>2, PlacedMove
    <3> QED
      BY <1>3, <1>f, <2>1, <3>1 DEF DeleteChunks
  <2>3. disturbed' \subseteq Documents /\ faults' \in 0..MaxFaults
    BY <1>0, <1>3, <2>1, FaultType DEF DeleteChunks, Write
  <2>4. chunks' \subseteq Chunk
    BY <1>0, <1>3 DEF DeleteChunks, Write, TypeOK
  <2> QED
    BY <1>0, <1>3, <2>2, <2>3, <2>4 DEF DeleteChunks, Write, ShapeInv, TypeOK, ocrTables
<1>4. CASE InsertChunks(i)
  <2>1. runs[i].pc \in PipelineCalls /\ Doc(i) \in Documents /\ runs[i].rows \in PageTable
    BY <1>0, <1>4 DEF InsertChunks, At, PipelineCalls, PlaceInv, Placed, Doc, Run
  <2>2. runs' \in [Invocations -> Run] /\ PlaceInv'
    BY <1>4, <1>f, <2>1 DEF InsertChunks
  <2>3. chunks' \subseteq Chunk /\ inserts' \in Nat
    BY <1>0, <1>4, <2>1, CutType DEF InsertChunks, TypeOK
  <2> QED
    BY <1>0, <1>4, <2>2, <2>3 DEF InsertChunks, ShapeInv, TypeOK, ocrTables, history
<1>5. CASE ReadChunks(i)
  <2>1. runs[i].pc \in PipelineCalls
    BY <1>5 DEF ReadChunks, At, PipelineCalls
  <2>2. runs' \in [Invocations -> Run] /\ PlaceInv'
    <3>1. ASSUME NEW batch \in First({c \in ChunksOf(Doc(i)) : ~c.embedded}, EmbedLimit),
                 runs' = [runs EXCEPT ![i].pc = "embed", ![i].batch = batch]
          PROVE  runs' \in [Invocations -> Run] /\ PlaceInv'
      <4>1. batch \in SUBSET Chunk
        BY <1>0, <3>1 DEF First, ChunksOf, TypeOK
      <4>2. /\ runs' \in [Invocations -> Run]
            /\ Moved(i, [runs[i] EXCEPT !.pc = "embed", !.batch = batch])
        BY <1>0, <3>1, <4>1, BatchMoves DEF Calls, PipelineCalls
      <4>3. Placed([runs[i] EXCEPT !.pc = "embed", !.batch = batch])
        BY <1>0, <1>5 DEF ReadChunks, At, PlaceInv, Placed, OcrCalls, PipelineCalls, Run
      <4> QED
        BY <1>0, <4>2, <4>3, PlacedMove
    <3> QED
      BY <1>5, <1>f, <2>1, <3>1 DEF ReadChunks
  <2> QED
    BY <1>0, <1>5, <2>2 DEF ReadChunks, ShapeInv, TypeOK, ocrTables, pipelineTables, history
<1>6. CASE Embed(i)
  <2>1. runs[i].pc \in PipelineCalls
    BY <1>6 DEF Embed, At, PipelineCalls
  <2>2. runs' \in [Invocations -> Run] /\ PlaceInv'
    <3>1. ASSUME NEW c, runs' = [runs EXCEPT ![i].batch = @ \ {c}]
          PROVE  runs' \in [Invocations -> Run] /\ PlaceInv'
      <4>1. /\ runs' \in [Invocations -> Run]
            /\ Moved(i, [runs[i] EXCEPT !.batch = runs[i].batch \ {c}])
        BY <1>0, <3>1, ShrinkMoves
      <4>2. Placed([runs[i] EXCEPT !.batch = runs[i].batch \ {c}])
        BY <1>0 DEF PlaceInv, Placed, Run
      <4> QED
        BY <1>0, <4>1, <4>2, PlacedMove
    <3> QED
      BY <1>6, <1>f, <2>1, <3>1 DEF Embed
  <2>3. chunks' \subseteq Chunk
    <3>1. ASSUME NEW c \in chunks
          PROVE  [c EXCEPT !.embedded = TRUE] \in Chunk
      BY <1>0, <3>1 DEF TypeOK, Chunk
    <3> QED
      BY <1>0, <1>6, <3>1 DEF Embed, TypeOK
  <2> QED
    BY <1>0, <1>6, <2>2, <2>3 DEF Embed, ShapeInv, TypeOK, ocrTables, history
<1>7. CASE ReadContext(i)
  <2>1. runs[i].pc \in PipelineCalls
    BY <1>7 DEF ReadContext, At, PipelineCalls
  <2>2. runs' \in [Invocations -> Run] /\ PlaceInv'
    <3>1. ASSUME NEW batch \in First(ChunksOf(Doc(i)), AnalyzeLimit),
                 runs' = [runs EXCEPT ![i].pc = "analyze", ![i].batch = batch]
          PROVE  runs' \in [Invocations -> Run] /\ PlaceInv'
      <4>1. batch \in SUBSET Chunk
        BY <1>0, <3>1 DEF First, ChunksOf, TypeOK
      <4>2. /\ runs' \in [Invocations -> Run]
            /\ Moved(i, [runs[i] EXCEPT !.pc = "analyze", !.batch = batch])
        BY <1>0, <3>1, <4>1, BatchMoves DEF Calls, PipelineCalls
      <4>3. Placed([runs[i] EXCEPT !.pc = "analyze", !.batch = batch])
        BY <1>0, <1>7 DEF ReadContext, At, PlaceInv, Placed, OcrCalls, PipelineCalls, Run
      <4> QED
        BY <1>0, <4>2, <4>3, PlacedMove
    <3> QED
      BY <1>7, <1>f, <2>1, <3>1 DEF ReadContext
  <2> QED
    BY <1>0, <1>7, <2>2 DEF ReadContext, ShapeInv, TypeOK, ocrTables, pipelineTables, history
<1>8. CASE Analyze(i)
  <2>1. runs[i].pc \in PipelineCalls /\ Doc(i) \in Documents /\ runs[i].batch \in SUBSET Chunk
    BY <1>0, <1>8 DEF Analyze, At, PipelineCalls, PlaceInv, Placed, Doc, Run
  <2>2. runs' \in [Invocations -> Run] /\ PlaceInv'
    BY <1>8, <1>f, <2>1 DEF Analyze
  <2>3. [doc |-> Doc(i), sources |-> runs[i].batch] \in Analysis
    BY <2>1 DEF Analysis
  <2>4. analyses' \subseteq Analysis
    BY <1>0, <1>8, <2>3 DEF Analyze, TypeOK
  <2> QED
    BY <1>0, <1>8, <2>2, <2>4 DEF Analyze, ShapeInv, TypeOK, ocrTables, history
<1>9. CASE Finish(i)
  <2>1. Doc(i) \in Documents /\ runs[i].outcome \in Statuses
    BY <1>0, <1>9 DEF Finish, At, Doc, PlaceInv, Placed, Run
  <2>2. runs' \in [Invocations -> Run] /\ Moved(i, Idle)
    BY <1>0, <1>9, ResetMoves DEF Finish
  <2>3. Placed(Idle)
    BY DEF Placed, Idle, OcrCalls, PipelineCalls
  <2>4. jobs' \in [Documents -> [Stages -> Statuses]]
    <3>1. CASE SetJob(i, runs[i].outcome)
      BY <1>0, <2>1, <3>1, SetJobType
    <3>2. CASE UNCHANGED jobs
      BY <1>0, <3>2 DEF TypeOK
    <3> QED
      BY <1>9, <3>1, <3>2 DEF Finish, Write
  <2>5. disturbed' \subseteq Documents /\ faults' \in 0..MaxFaults
    BY <1>0, <1>9, <2>1, FaultType DEF Finish, Write
  <2>6. TypeOK'
    BY <1>0, <1>9, <2>2, <2>4, <2>5 DEF Finish, Write, TypeOK, ocrTables, pipelineTables
  <2> QED
    BY <1>0, <2>2, <2>3, <2>6, PlacedMove DEF ShapeInv
<1> QED
  BY <1>1, <1>2, <1>3, <1>4, <1>5, <1>6, <1>7, <1>8, <1>9 DEF PipelineStep

\* The tables and the invocations keep their types, and every invocation works
\* for the stage its call belongs to.
LEMMA Shaped == Spec => []ShapeInv
<1>1. Init => ShapeInv
  <2> SUFFICES ASSUME Init PROVE ShapeInv
    OBVIOUS
  <2>1. NoPages \in PageTable
    BY DEF NoPages, PageTable
  <2>2. TypeOK
    BY <2>1, IdleType, BoundAssumption
    DEF Init, TypeOK, Statuses, DocumentStatuses, MAX_RETRIES
  <2>3. PlaceInv
    BY DEF Init, PlaceInv, Placed, Idle, OcrCalls, PipelineCalls
  <2> QED
    BY <2>2, <2>3 DEF ShapeInv
<1>2. ShapeInv /\ [Next]_vars => ShapeInv'
  <2> SUFFICES ASSUME ShapeInv, [Next]_vars PROVE ShapeInv'
    OBVIOUS
  <2>1. CASE UNCHANGED vars
    BY <2>1 DEF ShapeInv, TypeOK, PlaceInv, vars, ocrTables, pipelineTables, history
  <2>2. CASE Next
    <3>1. PICK i \in Invocations :
            \/ \E d \in Documents, s \in Stages : Claim(i, d, s)
            \/ OcrStep(i) \/ PipelineStep(i) \/ Die(i)
      BY <2>2 DEF Next
    <3> QED
      BY <3>1, ShapeClaim, ShapeOcr, ShapePipeline, ShapeDie
  <2> QED
    BY <2>1, <2>2
<1> QED
  BY <1>1, <1>2, PTL DEF Spec

\* The tables and the invocations keep their types.
THEOREM TypeCorrect == Spec => []TypeOK
<1>1. ShapeInv => TypeOK
  BY DEF ShapeInv
<1> QED
  BY <1>1, Shaped, PTL

-----------------------------------------------------------------------------
(* Only trusted text is embedded and analyzed.  The status of a page tells  *)
(* whether OCR was sure of it, and travels with the text: what the chunk    *)
(* stage has read stays trusted whatever happens to the tables meanwhile.   *)

SureRows(rows) ==
    \A n \in PageNumbers :
      rows[n] # None /\ rows[n].status # "manual_review" => rows[n].confidence >= THRESHOLD
CleanRows(rows) == \A n \in Found(rows) : rows[n].confidence >= THRESHOLD
TrustedChunks(C) == \A c \in C : c.confidence >= THRESHOLD
TrustedRun(r) ==
    /\ SureRows(r.rows)
    /\ r.pc \in {"delete", "insert"} => CleanRows(r.rows)
    /\ TrustedChunks(r.batch)
TrustInv ==
    /\ OnlyTrustedText
    /\ \A d \in Documents : SureRows(pages[d])
    /\ \A i \in Invocations : TrustedRun(runs[i])

\* The status of a recognized page is that of its confidence.
LEMMA RowsSure ==
    ASSUME NEW result \in Results
    PROVE  SureRows(Rows(result))
<1>1. result \in [PageNumbers -> [confidence : Confidences, blank : BOOLEAN] \cup {None}]
  BY ResultsAssumption
<1> SUFFICES ASSUME NEW n \in PageNumbers, Rows(result)[n] # None,
                    Rows(result)[n].status # "manual_review"
             PROVE  Rows(result)[n].confidence >= THRESHOLD
  BY DEF SureRows
<1>2. Rows(result)[n] = PageRow(result[n]) /\ result[n] # None
  BY DEF Rows
<1>3. result[n].confidence \in 0..100
  BY <1>1, <1>2, ConfidencesAssumption
<1> QED
  BY <1>2, <1>3 DEF PageRow, THRESHOLD

\* The chunks of clean pages are trusted.
LEMMA CutTrusted ==
    ASSUME NEW d, NEW rows, CleanRows(rows)
    PROVE  TrustedChunks(Cut(d, rows))
<1> SUFFICES ASSUME NEW c \in Cut(d, rows) PROVE c.confidence >= THRESHOLD
  BY DEF TrustedChunks
<1>1. PICK n \in Found(rows) : c.confidence = rows[n].confidence
  BY DEF Cut
<1> QED
  BY <1>1 DEF CleanRows

\* A run that is being closed holds no text.
LEMMA IdleTrusted ==
    ASSUME NEW d, NEW s, NEW outcome, NEW left
    PROVE  /\ TrustedRun(Idle)
           /\ TrustedRun([Idle EXCEPT !.pc = "settle", !.doc = d,
                                      !.outcome = outcome, !.left = left])
           /\ TrustedRun([Idle EXCEPT !.pc = "finish", !.doc = d,
                                      !.stage = s, !.outcome = outcome])
BY DEF Idle, TrustedRun, SureRows, TrustedChunks, NoPages

\* A step that only moves one invocation keeps the tables trusted.
LEMMA TrustMove ==
    ASSUME TrustInv, NEW i \in Invocations, NEW r, Moved(i, r), TrustedRun(r),
           UNCHANGED <<pages, chunks, analyses>>
    PROVE  TrustInv'
BY DEF TrustInv, Moved, OnlyTrustedText

LEMMA TrustFail ==
    ASSUME ShapeInv, TrustInv, NEW i \in Invocations, NEW retry \in BOOLEAN, Fail(i, retry),
           UNCHANGED <<chunks, analyses>>, \A d \in Documents : SureRows(pages'[d])
    PROVE  TrustInv'
<1>1. TypeOK
  BY DEF ShapeInv
<1>2. \/ Moved(i, [Idle EXCEPT !.pc = "settle", !.doc = Doc(i),
                               !.outcome = "manual_review", !.left = "failed"])
      \/ Moved(i, [Idle EXCEPT !.pc = "settle", !.doc = Doc(i),
                               !.outcome = "queued", !.left = "processing"])
  BY <1>1, FailMoves
<1>3. /\ TrustedRun([Idle EXCEPT !.pc = "settle", !.doc = Doc(i),
                                 !.outcome = "manual_review", !.left = "failed"])
      /\ TrustedRun([Idle EXCEPT !.pc = "settle", !.doc = Doc(i),
                                 !.outcome = "queued", !.left = "processing"])
  BY IdleTrusted
<1> QED
  BY <1>2, <1>3 DEF TrustInv, Moved, OnlyTrustedText

LEMMA TrustFinishAs ==
    ASSUME ShapeInv, TrustInv, NEW i \in Invocations, NEW outcome \in Statuses,
           FinishAs(i, outcome), UNCHANGED pages, OnlyTrustedText'
    PROVE  TrustInv'
<1>1. TypeOK
  BY DEF ShapeInv
<1>2. Moved(i, [Idle EXCEPT !.pc = "finish", !.doc = Doc(i),
                            !.stage = runs[i].stage, !.outcome = outcome])
  BY <1>1, FinishMoves
<1>3. TrustedRun([Idle EXCEPT !.pc = "finish", !.doc = Doc(i),
                              !.stage = runs[i].stage, !.outcome = outcome])
  BY IdleTrusted
<1> QED
  BY <1>2, <1>3 DEF TrustInv, Moved

LEMMA TrustOcr ==
    ASSUME ShapeInv, TrustInv, NEW i \in Invocations, OcrStep(i)
    PROVE  TrustInv'
<1>0. TypeOK /\ runs[i] \in Run /\ TrustedRun(runs[i])
  BY DEF ShapeInv, TypeOK, TrustInv
<1>g. ASSUME NEW pc \in Calls \ {"delete", "insert"}, GoTo(i, pc),
             UNCHANGED <<pages, chunks, analyses>>
      PROVE  TrustInv'
  <2>1. Moved(i, [runs[i] EXCEPT !.pc = pc])
    BY <1>0, <1>g, GoToMoves
  <2>2. TrustedRun([runs[i] EXCEPT !.pc = pc])
    BY <1>0, <1>g DEF TrustedRun, Run
  <2> QED
    BY <1>g, <2>1, <2>2, TrustMove
<1>1. CASE ReadDocument(i)
  <2>1. UNCHANGED <<pages, chunks, analyses>>
    BY <1>1 DEF ReadDocument, ocrTables, pipelineTables
  <2>2. \A d \in Documents : SureRows(pages'[d])
    BY <2>1 DEF TrustInv
  <2> QED
    BY <1>1, <1>g, <2>1, <2>2, TrustFail DEF ReadDocument, Calls, OcrCalls
<1>2. CASE Begin(i)
  BY <1>2, <1>g DEF Begin, Calls, OcrCalls, pipelineTables
<1>3. CASE Recognize(i)
  <2>1. UNCHANGED <<pages, chunks, analyses>>
    BY <1>3 DEF Recognize, ocrTables, pipelineTables
  <2>2. \A d \in Documents : SureRows(pages'[d])
    BY <2>1 DEF TrustInv
  <2>3. ASSUME NEW result \in Results,
               runs' = [runs EXCEPT ![i].pc = "persist", ![i].rows = Rows(result)]
        PROVE  TrustInv'
    <3>1. Rows(result) \in PageTable /\ SureRows(Rows(result))
      BY RowsType, RowsSure
    <3>2. Moved(i, [runs[i] EXCEPT !.pc = "persist", !.rows = Rows(result)])
      BY <1>0, <2>3, <3>1, RowsMove DEF Calls, OcrCalls
    <3>3. TrustedRun([runs[i] EXCEPT !.pc = "persist", !.rows = Rows(result)])
      BY <1>0, <3>1 DEF TrustedRun, Run
    <3> QED
      BY <2>1, <3>2, <3>3, TrustMove
  <2> QED
    BY <1>3, <2>1, <2>2, <2>3, TrustFail DEF Recognize
<1>4. CASE Persist(i)
  <2>1. UNCHANGED <<chunks, analyses>>
    BY <1>4 DEF Persist, pipelineTables
  <2>2. ASSUME NEW d \in Documents PROVE SureRows(pages'[d])
    <3>1. SureRows(runs[i].rows) /\ SureRows(pages[d])
      BY <1>0 DEF TrustedRun, TrustInv
    <3>2. CASE UNCHANGED pages
      BY <3>1, <3>2
    <3>3. CASE Upsert(Doc(i), runs[i].rows)
      <4>1. CASE d = Doc(i)
        <5>1. pages'[d] = [n \in PageNumbers |->
                 IF n \in Found(runs[i].rows) THEN runs[i].rows[n] ELSE pages[d][n]]
          BY <1>0, <3>3, <4>1 DEF Upsert, TypeOK
        <5> QED
          BY <3>1, <5>1 DEF SureRows
      <4>2. CASE d # Doc(i)
        BY <1>0, <3>1, <3>3, <4>2 DEF Upsert, TypeOK
      <4> QED
        BY <4>1, <4>2
    <3> QED
      BY <1>4, <3>2, <3>3 DEF Persist
  <2>3. ASSUME NEW outcome \in {"manual_review", "completed"}, Conclude(i, outcome, "completed")
        PROVE  TrustInv'
    <3>1. Moved(i, [Idle EXCEPT !.pc = "settle", !.doc = Doc(i),
                                !.outcome = outcome, !.left = "completed"])
      BY <1>0, <2>3, ConcludeMoves DEF Statuses, DocumentStatuses
    <3>2. TrustedRun([Idle EXCEPT !.pc = "settle", !.doc = Doc(i),
                                  !.outcome = outcome, !.left = "completed"])
      BY IdleTrusted
    <3> QED
      BY <2>1, <2>2, <3>1, <3>2 DEF TrustInv, Moved, OnlyTrustedText
  <2>4. CASE Fail(i, FALSE)
    BY <2>1, <2>2, <2>4, TrustFail
  <2>5. CASE Conclude(i, IF Low(runs[i].rows) # {} THEN "manual_review" ELSE "completed",
                      "completed")
    BY <2>3, <2>5
  <2> QED
    BY <1>4, <2>4, <2>5 DEF Persist
<1>5. CASE Settle(i)
  BY <1>5, <1>g DEF Settle, Calls, OcrCalls, ocrTables, pipelineTables
<1>6. CASE Release(i)
  <2>1. Moved(i, Idle)
    BY <1>0, <1>6, ResetMoves DEF Release
  <2>2. TrustedRun(Idle)
    BY IdleTrusted
  <2> QED
    BY <1>6, <2>1, <2>2, TrustMove DEF Release, pipelineTables
<1> QED
  BY <1>1, <1>2, <1>3, <1>4, <1>5, <1>6 DEF OcrStep

LEMMA TrustPipeline ==
    ASSUME ShapeInv, TrustInv, NEW i \in Invocations, PipelineStep(i)
    PROVE  TrustInv'
<1>0. /\ TypeOK /\ runs[i] \in Run /\ TrustedRun(runs[i])
      /\ TrustedChunks(chunks) /\ OnlyTrustedText
  BY DEF ShapeInv, TypeOK, TrustInv, OnlyTrustedText, TrustedChunks
<1>g. ASSUME NEW pc \in Calls \ {"delete", "insert"}, GoTo(i, pc),
             UNCHANGED <<pages, chunks, analyses>>
      PROVE  TrustInv'
  <2>1. Moved(i, [runs[i] EXCEPT !.pc = pc])
    BY <1>0, <1>g, GoToMoves
  <2>2. TrustedRun([runs[i] EXCEPT !.pc = pc])
    BY <1>0, <1>g DEF TrustedRun, Run
  <2> QED
    BY <1>g, <2>1, <2>2, TrustMove
<1>f. ASSUME NEW outcome \in {"completed", "failed", "manual_review"},
             FinishAs(i, outcome), UNCHANGED pages, OnlyTrustedText'
      PROVE  TrustInv'
  BY <1>f, TrustFinishAs DEF Statuses
<1>b. ASSUME NEW pc \in {"embed", "analyze"}, NEW batch \in SUBSET chunks,
             runs' = [runs EXCEPT ![i].pc = pc, ![i].batch = batch],
             UNCHANGED <<pages, chunks, analyses>>
      PROVE  TrustInv'
  <2>1. batch \in SUBSET Chunk /\ TrustedChunks(batch)
    BY <1>0 DEF TypeOK, TrustedChunks
  <2>2. Moved(i, [runs[i] EXCEPT !.pc = pc, !.batch = batch])
    BY <1>0, <1>b, <2>1, BatchMoves DEF Calls, PipelineCalls
  <2>3. TrustedRun([runs[i] EXCEPT !.pc = pc, !.batch = batch])
    BY <1>0, <2>1 DEF TrustedRun, Run
  <2> QED
    BY <1>b, <2>2, <2>3, TrustMove
<1>1. CASE Check(i)
  <2>1. UNCHANGED <<pages, chunks, analyses>> /\ OnlyTrustedText'
    BY <1>0, <1>1 DEF Check, ocrTables, pipelineTables, OnlyTrustedText
  <2>2. FirstCall(runs[i].stage) \in Calls \ {"delete", "insert"}
    BY DEF FirstCall, Calls, PipelineCalls
  <2> QED
    BY <1>1, <1>f, <1>g, <2>1, <2>2 DEF Check
<1>2. CASE ReadPages(i)
  <2>1. UNCHANGED <<pages, chunks, analyses>> /\ OnlyTrustedText'
    BY <1>0, <1>2 DEF ReadPages, ocrTables, pipelineTables, OnlyTrustedText
  <2>2. CASE /\ {n \in Found(pages[Doc(i)]) : pages[Doc(i)][n].status = "manual_review"} = {}
             /\ runs' = [runs EXCEPT ![i].pc = "delete", ![i].rows = pages[Doc(i)]]
    <3>1. Doc(i) \in Documents
      BY <1>2 DEF ReadPages, At, ShapeInv, PlaceInv, Placed, Doc
    <3>2. pages[Doc(i)] \in PageTable /\ SureRows(pages[Doc(i)])
      BY <1>0, <3>1 DEF TypeOK, TrustInv
    <3>3. CleanRows(pages[Doc(i)])
      BY <2>2, <3>2 DEF SureRows, CleanRows, Found
    <3>4. Moved(i, [runs[i] EXCEPT !.pc = "delete", !.rows = pages[Doc(i)]])
      BY <1>0, <2>2, <3>2, RowsMove DEF Calls, PipelineCalls
    <3>5. TrustedRun([runs[i] EXCEPT !.pc = "delete", !.rows = pages[Doc(i)]])
      BY <1>0, <3>2, <3>3 DEF TrustedRun, Run
    <3> QED
      BY <2>1, <3>4, <3>5, TrustMove
  <2> QED
    BY <1>2, <1>f, <2>1, <2>2 DEF ReadPages
<1>3. CASE DeleteChunks(i)
  <2>1. UNCHANGED pages /\ OnlyTrustedText'
    BY <1>0, <1>3 DEF DeleteChunks, Write, ocrTables, OnlyTrustedText
  <2>2. CASE GoTo(i, "insert")
    <3>1. Moved(i, [runs[i] EXCEPT !.pc = "insert"])
      BY <1>0, <2>2, GoToMoves DEF Calls, PipelineCalls
    <3>2. TrustedRun([runs[i] EXCEPT !.pc = "insert"])
      BY <1>0, <1>3 DEF DeleteChunks, At, TrustedRun, Run
    <3> QED
      BY <2>1, <3>1, <3>2 DEF TrustInv, Moved
  <2> QED
    BY <1>3, <1>f, <2>1, <2>2 DEF DeleteChunks
<1>4. CASE InsertChunks(i)
  <2>1. TrustedChunks(Cut(Doc(i), runs[i].rows))
    BY <1>0, <1>4, CutTrusted DEF InsertChunks, At, TrustedRun
  <2>2. UNCHANGED pages /\ OnlyTrustedText'
    BY <1>0, <1>4, <2>1 DEF InsertChunks, ocrTables, OnlyTrustedText, TrustedChunks
  <2> QED
    BY <1>4, <1>f, <2>2 DEF InsertChunks
<1>5. CASE ReadChunks(i)
  <2>1. UNCHANGED <<pages, chunks, analyses>> /\ OnlyTrustedText'
    BY <1>0, <1>5 DEF ReadChunks, ocrTables, pipelineTables, OnlyTrustedText
  <2>2. ASSUME NEW batch \in First({c \in ChunksOf(Doc(i)) : ~c.embedded}, EmbedLimit)
        PROVE  batch \in SUBSET chunks
    BY DEF First, ChunksOf
  <2> QED
    BY <1>5, <1>b, <1>f, <2>1, <2>2 DEF ReadChunks
<1>6. CASE Embed(i)
  <2>1. \A c \in chunks : [c EXCEPT !.embedded = TRUE].confidence = c.confidence
    BY <1>0 DEF TypeOK, Chunk
  <2>2. UNCHANGED pages /\ OnlyTrustedText'
    BY <1>0, <1>6, <2>1 DEF Embed, ocrTables, OnlyTrustedText
  <2>3. ASSUME NEW c, runs' = [runs EXCEPT ![i].batch = @ \ {c}]
        PROVE  TrustInv'
    <3>1. Moved(i, [runs[i] EXCEPT !.batch = runs[i].batch \ {c}])
      BY <1>0, <2>3, ShrinkMoves
    <3>2. TrustedRun([runs[i] EXCEPT !.batch = runs[i].batch \ {c}])
      BY <1>0 DEF TrustedRun, TrustedChunks, Run
    <3> QED
      BY <2>2, <3>1, <3>2 DEF TrustInv, Moved
  <2> QED
    BY <1>6, <1>f, <2>2, <2>3 DEF Embed
<1>7. CASE ReadContext(i)
  <2>1. UNCHANGED <<pages, chunks, analyses>> /\ OnlyTrustedText'
    BY <1>0, <1>7 DEF ReadContext, ocrTables, pipelineTables, OnlyTrustedText
  <2>2. ASSUME NEW batch \in First(ChunksOf(Doc(i)), AnalyzeLimit)
        PROVE  batch \in SUBSET chunks
    BY DEF First, ChunksOf
  <2> QED
    BY <1>7, <1>b, <1>f, <2>1, <2>2 DEF ReadContext
<1>8. CASE Analyze(i)
  <2>1. UNCHANGED pages /\ OnlyTrustedText'
    BY <1>0, <1>8 DEF Analyze, ocrTables, OnlyTrustedText, TrustedRun, TrustedChunks
  <2> QED
    BY <1>8, <1>f, <2>1 DEF Analyze
<1>9. CASE Finish(i)
  <2>1. Moved(i, Idle) /\ TrustedRun(Idle)
    BY <1>0, <1>9, ResetMoves, IdleTrusted DEF Finish
  <2> QED
    BY <1>9, <2>1, TrustMove DEF Finish, ocrTables, pipelineTables
<1> QED
  BY <1>1, <1>2, <1>3, <1>4, <1>5, <1>6, <1>7, <1>8, <1>9 DEF PipelineStep

\* What is embedded or analyzed is text that OCR was sure of, for any number of
\* documents, invocations, runs and faults.
THEOREM TrustedTextOnly == Spec => []OnlyTrustedText
<1>1. Init => TrustInv
  <2> SUFFICES ASSUME Init PROVE TrustInv
    OBVIOUS
  <2>1. SureRows(NoPages)
    BY DEF SureRows, NoPages
  <2> QED
    BY <2>1, IdleTrusted DEF Init, TrustInv, OnlyTrustedText
<1>2. ShapeInv /\ TrustInv /\ [Next]_vars => TrustInv'
  <2> SUFFICES ASSUME ShapeInv, TrustInv, [Next]_vars PROVE TrustInv'
    OBVIOUS
  <2>0. TypeOK
    BY DEF ShapeInv
  <2>1. CASE UNCHANGED vars
    BY <2>1 DEF TrustInv, OnlyTrustedText, vars, ocrTables, pipelineTables
  <2>2. ASSUME NEW i \in Invocations, NEW d \in Documents, NEW s \in Stages, Claim(i, d, s)
        PROVE  TrustInv'
    <3>1. Moved(i, [Idle EXCEPT !.pc = IF s = "ocr" THEN "document" ELSE "check",
                                !.doc = d, !.stage = s, !.attempt = attempts'[d]])
      BY <2>0, <2>2, ClaimMoves
    <3>2. TrustedRun([Idle EXCEPT !.pc = IF s = "ocr" THEN "document" ELSE "check",
                                  !.doc = d, !.stage = s, !.attempt = attempts'[d]])
      BY DEF Idle, TrustedRun, SureRows, TrustedChunks, NoPages
    <3> QED
      BY <2>2, <3>1, <3>2, TrustMove DEF Claim, pipelineTables
  <2>3. ASSUME NEW i \in Invocations, Die(i)
        PROVE  TrustInv'
    <3>1. Moved(i, Idle) /\ TrustedRun(Idle)
      BY <2>0, <2>3, ResetMoves, IdleTrusted DEF Die
    <3> QED
      BY <2>3, <3>1, TrustMove DEF Die, ocrTables, pipelineTables
  <2>4. CASE Next
    <3>1. PICK i \in Invocations :
            \/ \E d \in Documents, s \in Stages : Claim(i, d, s)
            \/ OcrStep(i) \/ PipelineStep(i) \/ Die(i)
      BY <2>4 DEF Next
    <3> QED
      BY <2>2, <2>3, <3>1, TrustOcr, TrustPipeline
  <2> QED
    BY <2>1, <2>4
<1>3. TrustInv => OnlyTrustedText
  BY DEF TrustInv
<1> QED
  BY <1>1, <1>2, <1>3, Shaped, PTL DEF Spec

-----------------------------------------------------------------------------
(* A completed stage has left its rows.  While nobody else has the job, it  *)
(* stays in processing and nobody else deletes the chunks of its document.  *)

Has(d, s) ==
    /\ s = "chunk" => ChunksOf(d) # {}
    /\ s = "analyze" => \E a \in analyses : a.doc = d
Exclusive ==
    \A d \in Documents \ overrun, s \in Stages, i \in Invocations, k \in Invocations :
      Works(i, d, s) /\ Works(k, d, s) => i = k
Busy ==
    \A i \in Invocations :
      runs[i].pc \in PipelineCalls /\ runs[i].doc \notin overrun
        => jobs[runs[i].doc][runs[i].stage] = "processing"
Cutting ==
    \A i \in Invocations :
      runs[i].pc = "insert" => \E n \in Found(runs[i].rows) : ~runs[i].rows[n].blank
Ending ==
    \A i \in Invocations, d \in Documents \ overrun, s \in Stages :
      Works(i, d, s) /\ runs[i].pc = "finish" /\ runs[i].outcome = "completed" => Has(d, s)
RowsInv == Exclusive /\ Busy /\ Cutting /\ Ending /\ CompletedHasRows

\* A step of an invocation that keeps its job and deletes nothing.
LEMMA RowsKept ==
    ASSUME RowsInv, NEW i \in Invocations, NEW r, Moved(i, r), UNCHANGED overrun,
           ~At(i, "idle"),
           r.pc # "idle" => r.doc = Doc(i) /\ r.stage = runs[i].stage,
           r.pc \in PipelineCalls => runs[i].pc \in PipelineCalls,
           r.pc \in PipelineCalls => r.stage # "ocr",
           r.pc = "insert" => \E n \in Found(r.rows) : ~r.rows[n].blank,
           r.pc = "finish" /\ r.outcome = "completed" => Has(r.doc, r.stage)',
           \A k \in Invocations : Placed(runs[k]),
           \A d \in Documents, s \in Stages \ {"ocr"} : jobs'[d][s] = jobs[d][s],
           \A d \in Documents, s \in Stages : Has(d, s) => Has(d, s)',
           runs \in [Invocations -> Run]
    PROVE  RowsInv'
<1>1. Exclusive'
  BY DEF RowsInv, Exclusive, Works, Moved, At, Doc
<1>2. Busy'
  <2> SUFFICES ASSUME NEW k \in Invocations, runs'[k].pc \in PipelineCalls,
                      runs'[k].doc \notin overrun
               PROVE  jobs'[runs'[k].doc][runs'[k].stage] = "processing"
    BY DEF Busy
  <2>1. PICK d, s : /\ d = runs'[k].doc /\ s = runs'[k].stage
    OBVIOUS
  <2>2. /\ runs[k].pc \in PipelineCalls /\ d = runs[k].doc /\ s = runs[k].stage
        /\ d \in Documents /\ s \in Stages \ {"ocr"}
    BY <2>1 DEF Moved, At, Doc, Placed, Run, PipelineCalls
  <2> QED
    BY <2>1, <2>2 DEF RowsInv, Busy
<1>3. Cutting'
  BY DEF RowsInv, Cutting, Moved
<1>4. Ending'
  <2> SUFFICES ASSUME NEW k \in Invocations, NEW d \in Documents \ overrun, NEW s \in Stages,
                      Works(k, d, s)', runs'[k].pc = "finish", runs'[k].outcome = "completed"
               PROVE  Has(d, s)'
    BY DEF Ending
  <2>1. CASE k = i
    <3>1. runs'[i] = r
      BY DEF Moved
    <3>2. r.pc = "finish" /\ r.outcome = "completed" /\ r.doc = d /\ r.stage = s
      BY <2>1, <3>1 DEF Works
    <3> QED
      BY <3>2 DEF Has
  <2>2. CASE k # i
    <3>1. runs'[k] = runs[k]
      BY <2>2 DEF Moved
    <3>2. Has(d, s)
      BY <3>1 DEF RowsInv, Ending, Works
    <3> QED
      BY <3>2
  <2> QED
    BY <2>1, <2>2
<1>5. CompletedHasRows'
  <2> SUFFICES ASSUME NEW d \in Documents \ overrun
               PROVE  /\ jobs'[d]["chunk"] = "completed" => ChunksOf(d)' # {}
                      /\ jobs'[d]["analyze"] = "completed" => \E a \in analyses' : a.doc = d
    BY DEF CompletedHasRows
  <2>1. jobs'[d]["chunk"] = jobs[d]["chunk"] /\ jobs'[d]["analyze"] = jobs[d]["analyze"]
    BY DEF Stages
  <2>2. /\ jobs[d]["chunk"] = "completed" => Has(d, "chunk")
        /\ jobs[d]["analyze"] = "completed" => Has(d, "analyze")
    BY DEF RowsInv, CompletedHasRows, Has
  <2>3. (Has(d, "chunk") => Has(d, "chunk")') /\ (Has(d, "analyze") => Has(d, "analyze")')
    BY DEF Stages
  <2> QED
    BY <2>1, <2>2, <2>3 DEF Has
<1> QED
  BY <1>1, <1>2, <1>3, <1>4, <1>5 DEF RowsInv

\* A step within the OCR worker.
LEMMA RowsBesideOcr ==
    ASSUME ShapeInv, RowsInv, NEW i \in Invocations, runs[i].pc \in OcrCalls,
           NEW r, Moved(i, r), r.pc \in OcrCalls \cup {"idle"},
           r.pc # "idle" => r.doc = Doc(i) /\ r.stage = "ocr",
           UNCHANGED <<chunks, analyses, overrun>>,
           \A d \in Documents, s \in Stages \ {"ocr"} : jobs'[d][s] = jobs[d][s]
    PROVE  RowsInv'
<1>1. /\ ~At(i, "idle") /\ runs[i].stage = "ocr" /\ runs \in [Invocations -> Run]
      /\ \A k \in Invocations : Placed(runs[k])
  BY DEF ShapeInv, PlaceInv, Placed, At, OcrCalls, TypeOK
<1>2. r.pc \notin PipelineCalls
  BY DEF OcrCalls, PipelineCalls
<1>3. \A d \in Documents, s \in Stages : Has(d, s) => Has(d, s)'
  BY DEF Has, ChunksOf
<1> QED
  BY <1>1, <1>2, <1>3, RowsKept DEF PipelineCalls

LEMMA RowsFail ==
    ASSUME ShapeInv, RowsInv, NEW i \in Invocations, runs[i].pc \in OcrCalls,
           NEW retry \in BOOLEAN, Fail(i, retry), UNCHANGED <<jobs, chunks, analyses, overrun>>
    PROVE  RowsInv'
<1>1. TypeOK
  BY DEF ShapeInv
<1>2. ASSUME NEW outcome, NEW left,
             Moved(i, [Idle EXCEPT !.pc = "settle", !.doc = Doc(i),
                                   !.outcome = outcome, !.left = left])
      PROVE  RowsInv'
  <2> DEFINE r == [Idle EXCEPT !.pc = "settle", !.doc = Doc(i),
                               !.outcome = outcome, !.left = left]
  <2>1. r.pc = "settle" /\ r.doc = Doc(i) /\ r.stage = "ocr"
    BY DEF Idle
  <2>2. Moved(i, r)
    BY <1>2
  <2> HIDE DEF r
  <2> QED
    BY <2>1, <2>2, RowsBesideOcr DEF OcrCalls
<1> QED
  BY <1>1, <1>2, FailMoves

LEMMA RowsOcr ==
    ASSUME ShapeInv, RowsInv, NEW i \in Invocations, OcrStep(i)
    PROVE  RowsInv'
<1>0. /\ TypeOK /\ runs[i] \in Run
      /\ runs[i].pc \in OcrCalls => runs[i].stage = "ocr"
  BY DEF ShapeInv, TypeOK, PlaceInv, Placed
<1>g. ASSUME NEW pc \in OcrCalls, GoTo(i, pc), runs[i].pc \in OcrCalls,
             UNCHANGED <<chunks, analyses, overrun>>,
             \A d \in Documents, s \in Stages \ {"ocr"} : jobs'[d][s] = jobs[d][s]
      PROVE  RowsInv'
  <2> DEFINE r == [runs[i] EXCEPT !.pc = pc]
  <2>1. r.pc = pc /\ r.doc = Doc(i) /\ r.stage = "ocr"
    BY <1>0, <1>g DEF Run, Doc
  <2>2. Moved(i, r)
    BY <1>0, <1>g, GoToMoves DEF Calls
  <2> HIDE DEF r
  <2> QED
    BY <1>g, <2>1, <2>2, RowsBesideOcr
<1>1. CASE ReadDocument(i)
  BY <1>1, <1>g, RowsFail
  DEF ReadDocument, At, OcrCalls, ocrTables, pipelineTables, history
<1>2. CASE Begin(i)
  BY <1>2, <1>g DEF Begin, Write, At, OcrCalls, pipelineTables
<1>3. CASE Recognize(i)
  <2>1. /\ runs[i].pc \in OcrCalls /\ runs[i].stage = "ocr"
        /\ UNCHANGED <<jobs, chunks, analyses, overrun>>
    BY <1>0, <1>3 DEF Recognize, At, OcrCalls, pipelineTables, history
  <2>2. ASSUME NEW result \in Results,
               runs' = [runs EXCEPT ![i].pc = "persist", ![i].rows = Rows(result)]
        PROVE  RowsInv'
    <3> DEFINE r == [runs[i] EXCEPT !.pc = "persist", !.rows = Rows(result)]
    <3>1. r.pc = "persist" /\ r.doc = Doc(i) /\ r.stage = "ocr"
      BY <1>0, <2>1 DEF Run, Doc
    <3>2. Moved(i, r)
      BY <1>0, <2>2, RowsType, RowsMove DEF Calls, OcrCalls
    <3> HIDE DEF r
    <3>3. r.pc \in OcrCalls
      BY <3>1 DEF OcrCalls
    <3> QED
      BY <2>1, <3>1, <3>2, <3>3, RowsBesideOcr
  <2> QED
    BY <1>3, <2>1, <2>2, RowsFail DEF Recognize
<1>4. CASE Persist(i)
  <2>1. runs[i].pc \in OcrCalls /\ UNCHANGED <<jobs, chunks, analyses, overrun>>
    BY <1>4 DEF Persist, At, OcrCalls, pipelineTables, history
  <2>2. ASSUME NEW outcome \in {"manual_review", "completed"}, Conclude(i, outcome, "completed")
        PROVE  RowsInv'
    <3> DEFINE r == [Idle EXCEPT !.pc = "settle", !.doc = Doc(i),
                                 !.outcome = outcome, !.left = "completed"]
    <3>1. r.pc = "settle" /\ r.doc = Doc(i) /\ r.stage = "ocr"
      BY DEF Idle
    <3>2. Moved(i, r)
      BY <1>0, <2>2, ConcludeMoves DEF Statuses, DocumentStatuses
    <3> HIDE DEF r
    <3>3. r.pc \in OcrCalls
      BY <3>1 DEF OcrCalls
    <3> QED
      BY <2>1, <3>1, <3>2, <3>3, RowsBesideOcr
  <2>3. CASE Fail(i, FALSE)
    BY <2>1, <2>3, RowsFail
  <2>4. CASE Conclude(i, IF Low(runs[i].rows) # {} THEN "manual_review" ELSE "completed",
                      "completed")
    BY <2>2, <2>4
  <2> QED
    BY <1>4, <2>3, <2>4 DEF Persist
<1>5. CASE Settle(i)
  <2>1. runs[i].pc \in OcrCalls /\ runs[i].stage = "ocr"
    BY <1>0, <1>5 DEF Settle, At, OcrCalls
  <2>2. \A d \in Documents, s \in Stages \ {"ocr"} : jobs'[d][s] = jobs[d][s]
    <3>1. CASE UNCHANGED jobs
      BY <3>1
    <3>2. CASE SetJob(i, runs[i].outcome)
      <4> SUFFICES ASSUME NEW d \in Documents, NEW s \in Stages \ {"ocr"}
                   PROVE  jobs'[d][s] = jobs[d][s]
        OBVIOUS
      <4>1. jobs' = [jobs EXCEPT ![Doc(i)]["ocr"] = runs[i].outcome]
        BY <2>1, <3>2 DEF SetJob
      <4>2. jobs'[d] = jobs[d] \/ jobs'[d] = [jobs[d] EXCEPT !["ocr"] = runs[i].outcome]
        BY <1>0, <4>1 DEF TypeOK
      <4> QED
        BY <1>0, <4>2 DEF TypeOK
    <3> QED
      BY <1>5, <3>1, <3>2 DEF Settle, Write
  <2> QED
    BY <1>5, <1>g, <2>1, <2>2 DEF Settle, Write, OcrCalls, pipelineTables
<1>6. CASE Release(i)
  <2>1. Moved(i, Idle) /\ Idle.pc = "idle"
    BY <1>0, <1>6, ResetMoves DEF Release, Idle
  <2> QED
    BY <1>6, <2>1, RowsBesideOcr DEF Release, Write, At, OcrCalls, pipelineTables
<1> QED
  BY <1>1, <1>2, <1>3, <1>4, <1>5, <1>6 DEF OcrStep

LEMMA RowsFinishAs ==
    ASSUME ShapeInv, RowsInv, NEW i \in Invocations, runs[i].pc \in PipelineCalls,
           NEW outcome \in Statuses, FinishAs(i, outcome), UNCHANGED <<jobs, overrun>>,
           \A d \in Documents, s \in Stages : Has(d, s) => Has(d, s)',
           \A d \in Documents, s \in Stages :
             Works(i, d, s) /\ outcome = "completed" => Has(d, s)'
    PROVE  RowsInv'
<1>1. /\ TypeOK /\ runs[i] \in Run /\ ~At(i, "idle") /\ runs[i].stage # "ocr"
      /\ Doc(i) \in Documents /\ runs[i].stage \in Stages
      /\ \A k \in Invocations : Placed(runs[k])
  BY DEF ShapeInv, TypeOK, PlaceInv, Placed, At, PipelineCalls, Doc, Run
<1>2. PICK d \in Documents, s \in Stages : d = Doc(i) /\ s = runs[i].stage
  BY <1>1
<1> DEFINE r == [Idle EXCEPT !.pc = "finish", !.doc = d, !.stage = s, !.outcome = outcome]
<1>3. r.pc = "finish" /\ r.doc = d /\ r.stage = s /\ r.outcome = outcome
  BY DEF Idle
<1>4. Moved(i, r)
  BY <1>1, <1>2, FinishMoves
<1> HIDE DEF r
<1>5. r.outcome = "completed" => Has(d, s)'
  BY <1>1, <1>2, <1>3 DEF Works, Doc, At
<1>6. r.pc = "finish" /\ r.outcome = "completed" => Has(r.doc, r.stage)'
  BY <1>3, <1>5 DEF Has
<1>7. runs \in [Invocations -> Run]
  BY <1>1 DEF TypeOK
<1> QED
  BY <1>1, <1>2, <1>3, <1>4, <1>6, <1>7, RowsKept

\* A step of the pipeline worker to another call of the same stage.
LEMMA RowsGoOn ==
    ASSUME ShapeInv, RowsInv, NEW i \in Invocations, runs[i].pc \in PipelineCalls,
           NEW r, Moved(i, r), r.pc \in PipelineCalls \ {"finish"},
           r.doc = Doc(i), r.stage = runs[i].stage,
           r.pc = "insert" => \E n \in Found(r.rows) : ~r.rows[n].blank,
           UNCHANGED <<jobs, overrun>>,
           \A d \in Documents, s \in Stages : Has(d, s) => Has(d, s)'
    PROVE  RowsInv'
<1>1. /\ ~At(i, "idle") /\ runs[i].stage # "ocr" /\ runs \in [Invocations -> Run]
      /\ \A k \in Invocations : Placed(runs[k])
  BY DEF ShapeInv, TypeOK, PlaceInv, Placed, At, PipelineCalls
<1> QED
  BY <1>1, RowsKept DEF PipelineCalls

\* Deleting the chunks leaves the job in processing, with this invocation only.
LEMMA RowsDelete ==
    ASSUME ShapeInv, RowsInv, NEW i \in Invocations, DeleteChunks(i)
    PROVE  RowsInv'
<1>0. /\ TypeOK /\ runs[i] \in Run /\ runs[i].stage = "chunk" /\ runs[i].pc = "delete"
      /\ Doc(i) \in Documents /\ "chunk" \in Stages
      /\ \A k \in Invocations : Placed(runs[k])
      /\ UNCHANGED <<jobs, overrun, analyses>>
  BY DEF ShapeInv, TypeOK, PlaceInv, Placed, At, Doc, DeleteChunks, Stages, Write
<1>1. PICK d \in Documents : d = Doc(i)
  BY <1>0
<1>2. PICK r : /\ Moved(i, r) /\ r.doc = d /\ r.stage = "chunk"
               /\ \/ r.pc = "insert" /\ \E n \in Found(r.rows) : ~r.rows[n].blank
                  \/ r.pc = "finish" /\ r.outcome = "failed"
  <2>1. CASE Cut(d, runs[i].rows) = {}
    <3> DEFINE r == [Idle EXCEPT !.pc = "finish", !.doc = d,
                                 !.stage = "chunk", !.outcome = "failed"]
    <3>1. r.pc = "finish" /\ r.doc = d /\ r.stage = "chunk" /\ r.outcome = "failed"
      BY DEF Idle
    <3>2. FinishAs(i, "failed")
      BY <1>1, <2>1 DEF DeleteChunks
    <3>3. Moved(i, r)
      BY <1>0, <1>1, <3>2, FinishMoves DEF Statuses
    <3> HIDE DEF r
    <3> QED
      BY <3>1, <3>3
  <2>2. CASE Cut(d, runs[i].rows) # {}
    <3> DEFINE r == [runs[i] EXCEPT !.pc = "insert"]
    <3>1. r.pc = "insert" /\ r.doc = d /\ r.stage = "chunk" /\ r.rows = runs[i].rows
      BY <1>0, <1>1 DEF Run, Doc
    <3>2. GoTo(i, "insert")
      BY <1>1, <2>2 DEF DeleteChunks
    <3>3. Moved(i, r)
      BY <1>0, <3>2, GoToMoves DEF Calls, PipelineCalls
    <3>4. \E n \in Found(runs[i].rows) : ~runs[i].rows[n].blank
      BY <2>2 DEF Cut
    <3> HIDE DEF r
    <3> QED
      BY <3>1, <3>3, <3>4
  <2> QED
    BY <2>1, <2>2
<1>3. \A e \in Documents, s \in Stages : e # d \/ s # "chunk" => (Has(e, s) => Has(e, s)')
  <2> SUFFICES ASSUME NEW e \in Documents, NEW s \in Stages, e # d \/ s # "chunk", Has(e, s)
               PROVE  Has(e, s)'
    OBVIOUS
  <2>1. CASE s = "chunk"
    <3>1. PICK c \in chunks : c.doc = e
      BY <2>1 DEF Has, ChunksOf
    <3>2. c \in chunks'
      BY <1>1, <2>1, <3>1 DEF DeleteChunks, Write, ChunksOf
    <3> QED
      BY <2>1, <3>1, <3>2 DEF Has, ChunksOf
  <2>2. CASE s # "chunk"
    BY <1>0, <2>2 DEF Has
  <2> QED
    BY <2>1, <2>2
<1>4. Exclusive'
  BY <1>0, <1>1, <1>2 DEF RowsInv, Exclusive, Works, Moved, Doc
<1>5. Busy'
  <2> SUFFICES ASSUME NEW k \in Invocations, runs'[k].pc \in PipelineCalls,
                      runs'[k].doc \notin overrun
               PROVE  jobs[runs'[k].doc][runs'[k].stage] = "processing"
    BY <1>0 DEF Busy
  <2>1. /\ runs[k].pc \in PipelineCalls /\ runs'[k].doc = runs[k].doc
        /\ runs'[k].stage = runs[k].stage
    BY <1>0, <1>1, <1>2 DEF Moved, Doc, PipelineCalls
  <2> QED
    BY <2>1 DEF RowsInv, Busy
<1>6. Cutting'
  BY <1>2 DEF RowsInv, Cutting, Moved
<1>7. d \notin overrun =>
        /\ jobs[d]["chunk"] = "processing"
        /\ \A k \in Invocations : Works(k, d, "chunk") => k = i
  <2> SUFFICES ASSUME d \notin overrun
               PROVE  /\ jobs[d]["chunk"] = "processing"
                      /\ \A k \in Invocations : Works(k, d, "chunk") => k = i
    OBVIOUS
  <2>1. Works(i, d, "chunk") /\ runs[i].pc \in PipelineCalls /\ runs[i].doc = d
    BY <1>0, <1>1 DEF Works, Doc, PipelineCalls
  <2> QED
    BY <1>0, <2>1 DEF RowsInv, Busy, Exclusive
<1>8. Ending'
  <2> SUFFICES ASSUME NEW k \in Invocations, NEW e \in Documents \ overrun, NEW s \in Stages,
                      Works(k, e, s)', runs'[k].pc = "finish", runs'[k].outcome = "completed"
               PROVE  Has(e, s)'
    BY <1>0 DEF Ending
  <2>1. k # i
    BY <1>2 DEF Moved
  <2>2. runs'[k] = runs[k]
    BY <1>2, <2>1 DEF Moved
  <2>3. Has(e, s) /\ Works(k, e, s)
    BY <2>2 DEF RowsInv, Ending, Works
  <2>4. e # d \/ s # "chunk"
    BY <1>7, <2>1, <2>3
  <2> QED
    BY <1>3, <2>3, <2>4
<1>9. CompletedHasRows'
  <2> SUFFICES ASSUME NEW e \in Documents \ overrun
               PROVE  /\ jobs[e]["chunk"] = "completed" => ChunksOf(e)' # {}
                      /\ jobs[e]["analyze"] = "completed" => \E a \in analyses' : a.doc = e
    BY <1>0 DEF CompletedHasRows
  <2>1. jobs[e]["analyze"] = "completed" => \E a \in analyses' : a.doc = e
    BY <1>0 DEF RowsInv, CompletedHasRows
  <2>2. ASSUME jobs[e]["chunk"] = "completed"
        PROVE  ChunksOf(e)' # {}
    <3>1. e # d
      BY <1>7, <2>2
    <3>2. Has(e, "chunk")
      BY <2>2 DEF RowsInv, CompletedHasRows, Has
    <3>3. Has(e, "chunk")'
      BY <1>0, <1>3, <3>1, <3>2
    <3> QED
      BY <3>3 DEF Has
  <2> QED
    BY <2>1, <2>2
<1> QED
  BY <1>4, <1>5, <1>6, <1>8, <1>9 DEF RowsInv

\* The job gets its outcome; nobody else has it.
LEMMA RowsFinish ==
    ASSUME ShapeInv, RowsInv, NEW i \in Invocations, Finish(i)
    PROVE  RowsInv'
<1>0. /\ TypeOK /\ runs[i] \in Run /\ runs[i].stage \in Stages \ {"ocr"}
      /\ runs[i].pc = "finish" /\ Doc(i) \in Documents
      /\ \A k \in Invocations : Placed(runs[k])
      /\ UNCHANGED <<chunks, analyses, overrun>>
  BY DEF ShapeInv, TypeOK, PlaceInv, Placed, At, Doc, Finish, Write, Run, PipelineCalls,
         pipelineTables
<1>1. PICK d \in Documents, s \in Stages \ {"ocr"} : d = Doc(i) /\ s = runs[i].stage
  BY <1>0
<1>2. Moved(i, Idle) /\ Idle.pc = "idle"
  BY <1>0, ResetMoves DEF Finish, Idle
<1>3. \A e \in Documents, t \in Stages : Has(e, t) => Has(e, t)'
  BY <1>0 DEF Has, ChunksOf
<1>4. \A e \in Documents, t \in Stages :
        \/ jobs'[e][t] = jobs[e][t]
        \/ e = d /\ t = s /\ jobs'[e][t] = runs[i].outcome
  <2>1. CASE UNCHANGED jobs
    BY <2>1
  <2>2. CASE SetJob(i, runs[i].outcome)
    <3> SUFFICES ASSUME NEW e \in Documents, NEW t \in Stages
                 PROVE  \/ jobs'[e][t] = jobs[e][t]
                        \/ e = d /\ t = s /\ jobs'[e][t] = runs[i].outcome
      OBVIOUS
    <3>1. jobs' = [jobs EXCEPT ![d][s] = runs[i].outcome]
      BY <1>1, <2>2 DEF SetJob
    <3>2. jobs'[e] = IF e = d THEN [jobs[d] EXCEPT ![s] = runs[i].outcome] ELSE jobs[e]
      BY <1>0, <3>1 DEF TypeOK
    <3> QED
      BY <1>0, <3>2 DEF TypeOK
  <2> QED
    BY <2>1, <2>2 DEF Finish, Write
<1>5. Works(i, d, s)
  BY <1>0, <1>1 DEF Works, Doc
<1>6. Exclusive'
  BY <1>0, <1>2 DEF RowsInv, Exclusive, Works, Moved
<1>7. Busy'
  <2> SUFFICES ASSUME NEW k \in Invocations, runs'[k].pc \in PipelineCalls,
                      runs'[k].doc \notin overrun
               PROVE  jobs'[runs'[k].doc][runs'[k].stage] = "processing"
    BY <1>0 DEF Busy
  <2>1. k # i /\ runs'[k] = runs[k]
    BY <1>2 DEF Moved, PipelineCalls
  <2>2. PICK e \in Documents, t \in Stages : e = runs[k].doc /\ t = runs[k].stage
    BY <1>0, <2>1 DEF Placed, TypeOK, Run, PipelineCalls
  <2>3. Works(k, e, t) /\ jobs[e][t] = "processing"
    BY <2>1, <2>2 DEF RowsInv, Busy, Works, PipelineCalls
  <2>4. e # d \/ t # s
    BY <1>5, <2>1, <2>2, <2>3 DEF RowsInv, Exclusive
  <2>5. jobs'[e][t] = "processing"
    BY <1>4, <2>3, <2>4
  <2> QED
    BY <2>1, <2>2, <2>5
<1>8. Cutting'
  BY <1>2 DEF RowsInv, Cutting, Moved
<1>9. Ending'
  <2> SUFFICES ASSUME NEW k \in Invocations, NEW e \in Documents \ overrun, NEW t \in Stages,
                      Works(k, e, t)', runs'[k].pc = "finish", runs'[k].outcome = "completed"
               PROVE  Has(e, t)'
    BY <1>0 DEF Ending
  <2>1. k # i /\ runs'[k] = runs[k]
    BY <1>2 DEF Moved
  <2>2. Has(e, t)
    BY <2>1 DEF RowsInv, Ending, Works
  <2> QED
    BY <1>3, <2>2
<1>10. CompletedHasRows'
  <2>1. ASSUME NEW e \in Documents \ overrun, NEW t \in {"chunk", "analyze"},
               jobs'[e][t] = "completed"
        PROVE  Has(e, t)'
    <3>0. t \in Stages
      BY DEF Stages
    <3>1. CASE jobs'[e][t] = jobs[e][t]
      <4>1. Has(e, t)
        BY <2>1, <3>1 DEF RowsInv, CompletedHasRows, Has
      <4> QED
        BY <1>3, <3>0, <4>1
    <3>2. CASE e = d /\ t = s /\ jobs'[e][t] = runs[i].outcome
      <4>1. Has(e, t)
        BY <1>0, <1>5, <2>1, <3>0, <3>2 DEF RowsInv, Ending
      <4> QED
        BY <1>3, <3>0, <4>1
    <3> QED
      BY <1>4, <3>0, <3>1, <3>2
  <2> QED
    BY <1>0, <2>1 DEF CompletedHasRows, Has
<1> QED
  BY <1>6, <1>7, <1>8, <1>9, <1>10 DEF RowsInv

LEMMA RowsPipeline ==
    ASSUME ShapeInv, RowsInv, NEW i \in Invocations, PipelineStep(i)
    PROVE  RowsInv'
<1>0. TypeOK /\ runs[i] \in Run
  BY DEF ShapeInv, TypeOK
<1>p. ASSUME UNCHANGED <<chunks, analyses>>
      PROVE  \A d \in Documents, s \in Stages : Has(d, s) => Has(d, s)'
  BY <1>p DEF Has, ChunksOf
<1>f. ASSUME NEW outcome \in {"failed", "manual_review"}, runs[i].pc \in PipelineCalls,
             FinishAs(i, outcome), UNCHANGED <<jobs, overrun>>,
             \A d \in Documents, s \in Stages : Has(d, s) => Has(d, s)'
      PROVE  RowsInv'
  BY <1>f, RowsFinishAs DEF Statuses
<1>c. ASSUME runs[i].pc \in PipelineCalls, FinishAs(i, "completed"),
             UNCHANGED <<jobs, overrun>>,
             \A d \in Documents, s \in Stages : Has(d, s) => Has(d, s)',
             \A d \in Documents, s \in Stages : Works(i, d, s) => Has(d, s)'
      PROVE  RowsInv'
  BY <1>c, RowsFinishAs DEF Statuses
<1>1. CASE Check(i)
  <2>1. runs[i].pc \in PipelineCalls /\ UNCHANGED <<jobs, chunks, analyses, overrun>>
    BY <1>1 DEF Check, At, PipelineCalls, pipelineTables, history
  <2>2. CASE GoTo(i, FirstCall(runs[i].stage))
    <3> DEFINE r == [runs[i] EXCEPT !.pc = FirstCall(runs[i].stage)]
    <3>1. FirstCall(runs[i].stage) \in Calls \ {"insert", "finish"}
      BY DEF FirstCall, Calls, PipelineCalls
    <3>2. /\ r.pc \in PipelineCalls \ {"finish", "insert"}
          /\ r.doc = Doc(i) /\ r.stage = runs[i].stage
      BY <1>0 DEF FirstCall, PipelineCalls, Run, Doc
    <3>3. Moved(i, r)
      BY <1>0, <2>2, <3>1, GoToMoves
    <3> HIDE DEF r
    <3> QED
      BY <1>p, <2>1, <3>2, <3>3, RowsGoOn
  <2> QED
    BY <1>1, <1>f, <1>p, <2>1, <2>2 DEF Check
<1>2. CASE ReadPages(i)
  <2>1. runs[i].pc \in PipelineCalls /\ UNCHANGED <<jobs, chunks, analyses, overrun>>
    BY <1>2 DEF ReadPages, At, PipelineCalls, pipelineTables, history
  <2>2. CASE runs' = [runs EXCEPT ![i].pc = "delete", ![i].rows = pages[Doc(i)]]
    <3> DEFINE r == [runs[i] EXCEPT !.pc = "delete", !.rows = pages[Doc(i)]]
    <3>1. pages[Doc(i)] \in PageTable
      BY <1>0, <1>2 DEF ReadPages, At, ShapeInv, PlaceInv, Placed, Doc, TypeOK
    <3>2. r.pc = "delete" /\ r.doc = Doc(i) /\ r.stage = runs[i].stage
      BY <1>0 DEF Run, Doc
    <3>3. Moved(i, r)
      BY <1>0, <2>2, <3>1, RowsMove DEF Calls, PipelineCalls
    <3> HIDE DEF r
    <3>4. r.pc \in PipelineCalls \ {"finish"} /\ r.pc # "insert"
      BY <3>2 DEF PipelineCalls
    <3> QED
      BY <1>p, <2>1, <3>2, <3>3, <3>4, RowsGoOn
  <2> QED
    BY <1>2, <1>f, <1>p, <2>1, <2>2 DEF ReadPages
<1>3. CASE DeleteChunks(i)
  BY <1>3, RowsDelete
<1>4. CASE InsertChunks(i)
  <2>1. /\ runs[i].pc \in PipelineCalls /\ runs[i].stage = "chunk"
        /\ UNCHANGED <<jobs, analyses, overrun>>
    BY <1>4 DEF InsertChunks, At, PipelineCalls, ocrTables, history, ShapeInv, PlaceInv, Placed
  <2>2. chunks \subseteq chunks'
    BY <1>4 DEF InsertChunks
  <2>3. \A d \in Documents, s \in Stages : Has(d, s) => Has(d, s)'
    BY <2>1, <2>2 DEF Has, ChunksOf
  <2>4. CASE chunks' = chunks \cup Cut(Doc(i), runs[i].rows) /\ FinishAs(i, "completed")
    <3>1. PICK n \in Found(runs[i].rows) : ~runs[i].rows[n].blank
      BY <1>4 DEF InsertChunks, At, RowsInv, Cutting
    <3>2. PICK d : d = Doc(i)
      OBVIOUS
    <3> DEFINE c == [doc |-> d, page |-> n, confidence |-> runs[i].rows[n].confidence,
                     insert |-> inserts, embedded |-> FALSE]
    <3>3. c \in Cut(d, runs[i].rows)
      BY <3>1 DEF Cut
    <3>4. c.doc = d
      OBVIOUS
    <3> HIDE DEF c
    <3>5. \E e \in chunks' : e.doc = d
      BY <2>4, <3>2, <3>3, <3>4
    <3>6. \A e \in Documents, s \in Stages : Works(i, e, s) => Has(e, s)'
      <4> SUFFICES ASSUME NEW e \in Documents, NEW s \in Stages, Works(i, e, s)
                   PROVE  Has(e, s)'
        OBVIOUS
      <4>1. e = d /\ s = "chunk"
        BY <2>1, <3>2 DEF Works, Doc
      <4> QED
        BY <3>5, <4>1 DEF Has, ChunksOf
    <3> QED
      BY <1>c, <2>1, <2>3, <2>4, <3>6
  <2>5. CASE FinishAs(i, "failed")
    BY <1>f, <2>1, <2>3, <2>5
  <2> QED
    BY <1>4, <2>4, <2>5 DEF InsertChunks
<1>5. CASE ReadChunks(i)
  <2>1. /\ runs[i].pc \in PipelineCalls /\ runs[i].stage = "embed"
        /\ UNCHANGED <<jobs, chunks, analyses, overrun>>
    BY <1>5 DEF ReadChunks, At, PipelineCalls, pipelineTables, history, ShapeInv, PlaceInv, Placed
  <2>2. ASSUME NEW batch \in First({c \in ChunksOf(Doc(i)) : ~c.embedded}, EmbedLimit),
               runs' = [runs EXCEPT ![i].pc = "embed", ![i].batch = batch]
        PROVE  RowsInv'
    <3> DEFINE r == [runs[i] EXCEPT !.pc = "embed", !.batch = batch]
    <3>1. batch \in SUBSET Chunk
      BY <1>0, <2>2 DEF First, ChunksOf, TypeOK
    <3>2. r.pc = "embed" /\ r.doc = Doc(i) /\ r.stage = runs[i].stage
      BY <1>0 DEF Run, Doc
    <3>3. Moved(i, r)
      BY <1>0, <2>2, <3>1, BatchMoves DEF Calls, PipelineCalls
    <3> HIDE DEF r
    <3>4. r.pc \in PipelineCalls \ {"finish"} /\ r.pc # "insert"
      BY <3>2 DEF PipelineCalls
    <3> QED
      BY <1>p, <2>1, <3>2, <3>3, <3>4, RowsGoOn
  <2>3. \A d \in Documents, s \in Stages : Works(i, d, s) => Has(d, s)'
    BY <2>1 DEF Works, Has
  <2> QED
    BY <1>5, <1>c, <1>f, <1>p, <2>1, <2>2, <2>3 DEF ReadChunks
<1>6. CASE Embed(i)
  <2>1. /\ runs[i].pc \in PipelineCalls /\ runs[i].stage = "embed"
        /\ UNCHANGED <<jobs, analyses, overrun>>
    BY <1>6 DEF Embed, At, PipelineCalls, ocrTables, history, ShapeInv, PlaceInv, Placed
  <2>2. \A c \in chunks : \E e \in chunks' : e.doc = c.doc
    <3>1. CASE UNCHANGED chunks
      BY <3>1
    <3>2. ASSUME NEW c,
                 chunks' = IF c \in chunks THEN (chunks \ {c}) \cup {[c EXCEPT !.embedded = TRUE]}
                                           ELSE chunks
          PROVE  \A b \in chunks : \E e \in chunks' : e.doc = b.doc
      <4>1. c \in chunks => [c EXCEPT !.embedded = TRUE].doc = c.doc
        BY <1>0 DEF TypeOK, Chunk
      <4> QED
        BY <3>2, <4>1
    <3> QED
      BY <1>6, <3>1, <3>2 DEF Embed
  <2>3. \A d \in Documents, s \in Stages : Has(d, s) => Has(d, s)'
    <3> SUFFICES ASSUME NEW d \in Documents, NEW s \in Stages, Has(d, s)
                 PROVE  Has(d, s)'
      OBVIOUS
    <3>1. CASE s = "chunk"
      <4>1. PICK c \in chunks : c.doc = d
        BY <3>1 DEF Has, ChunksOf
      <4>2. PICK e \in chunks' : e.doc = d
        BY <2>2, <4>1
      <4> QED
        BY <3>1, <4>2 DEF Has, ChunksOf
    <3>2. CASE s # "chunk"
      BY <2>1, <3>2 DEF Has
    <3> QED
      BY <3>1, <3>2
  <2>4. ASSUME NEW c, runs' = [runs EXCEPT ![i].batch = @ \ {c}]
        PROVE  RowsInv'
    <3> DEFINE r == [runs[i] EXCEPT !.batch = runs[i].batch \ {c}]
    <3>1. r.pc = "embed" /\ r.doc = Doc(i) /\ r.stage = runs[i].stage
      BY <1>0, <1>6 DEF Run, Doc, Embed, At
    <3>2. Moved(i, r)
      BY <1>0, <2>4, ShrinkMoves
    <3> HIDE DEF r
    <3>3. r.pc \in PipelineCalls \ {"finish"} /\ r.pc # "insert"
      BY <3>1 DEF PipelineCalls
    <3> QED
      BY <2>1, <2>3, <3>1, <3>2, <3>3, RowsGoOn
  <2>5. \A d \in Documents, s \in Stages : Works(i, d, s) => Has(d, s)'
    BY <2>1 DEF Works, Has
  <2> QED
    BY <1>6, <1>c, <1>f, <2>1, <2>3, <2>4, <2>5 DEF Embed
<1>7. CASE ReadContext(i)
  <2>1. runs[i].pc \in PipelineCalls /\ UNCHANGED <<jobs, chunks, analyses, overrun>>
    BY <1>7 DEF ReadContext, At, PipelineCalls, pipelineTables, history
  <2>2. ASSUME NEW batch \in First(ChunksOf(Doc(i)), AnalyzeLimit),
               runs' = [runs EXCEPT ![i].pc = "analyze", ![i].batch = batch]
        PROVE  RowsInv'
    <3> DEFINE r == [runs[i] EXCEPT !.pc = "analyze", !.batch = batch]
    <3>1. batch \in SUBSET Chunk
      BY <1>0, <2>2 DEF First, ChunksOf, TypeOK
    <3>2. r.pc = "analyze" /\ r.doc = Doc(i) /\ r.stage = runs[i].stage
      BY <1>0 DEF Run, Doc
    <3>3. Moved(i, r)
      BY <1>0, <2>2, <3>1, BatchMoves DEF Calls, PipelineCalls
    <3> HIDE DEF r
    <3>4. r.pc \in PipelineCalls \ {"finish"} /\ r.pc # "insert"
      BY <3>2 DEF PipelineCalls
    <3> QED
      BY <1>p, <2>1, <3>2, <3>3, <3>4, RowsGoOn
  <2> QED
    BY <1>7, <1>f, <1>p, <2>1, <2>2 DEF ReadContext
<1>8. CASE Analyze(i)
  <2>1. /\ runs[i].pc \in PipelineCalls /\ runs[i].stage = "analyze"
        /\ UNCHANGED <<jobs, chunks, overrun>> /\ analyses \subseteq analyses'
    BY <1>8 DEF Analyze, At, PipelineCalls, ocrTables, history, ShapeInv, PlaceInv, Placed
  <2>2. \A d \in Documents, s \in Stages : Has(d, s) => Has(d, s)'
    BY <2>1 DEF Has, ChunksOf
  <2>3. CASE /\ analyses' = analyses \cup {[doc |-> Doc(i), sources |-> runs[i].batch]}
             /\ FinishAs(i, "completed")
    <3>1. \A d \in Documents, s \in Stages : Works(i, d, s) => Has(d, s)'
      <4> SUFFICES ASSUME NEW d \in Documents, NEW s \in Stages, Works(i, d, s)
                   PROVE  Has(d, s)'
        OBVIOUS
      <4>1. s = "analyze" /\ Doc(i) = d
        BY <2>1 DEF Works, Doc
      <4>2. \E a \in analyses' : a.doc = d
        <5> DEFINE a == [doc |-> d, sources |-> runs[i].batch]
        <5>1. a \in analyses'
          BY <2>3, <4>1
        <5>2. a.doc = d
          OBVIOUS
        <5> HIDE DEF a
        <5> QED
          BY <5>1, <5>2
      <4> QED
        BY <4>1, <4>2 DEF Has
    <3> QED
      BY <1>c, <2>1, <2>2, <2>3, <3>1
  <2> QED
    BY <1>8, <1>f, <2>1, <2>2, <2>3 DEF Analyze
<1>9. CASE Finish(i)
  BY <1>9, RowsFinish
<1> QED
  BY <1>1, <1>2, <1>3, <1>4, <1>5, <1>6, <1>7, <1>8, <1>9 DEF PipelineStep

LEMMA RowsDie ==
    ASSUME ShapeInv, RowsInv, NEW i \in Invocations, Die(i)
    PROVE  RowsInv'
<1>1. /\ TypeOK /\ ~At(i, "idle") /\ UNCHANGED <<jobs, chunks, analyses, overrun>>
      /\ \A k \in Invocations : Placed(runs[k])
  BY DEF ShapeInv, PlaceInv, Die, pipelineTables
<1>2. Moved(i, Idle) /\ Idle.pc = "idle"
  BY <1>1, ResetMoves DEF Die, Idle
<1>3. \A d \in Documents, s \in Stages : Has(d, s) => Has(d, s)'
  BY <1>1 DEF Has, ChunksOf
<1>4. runs \in [Invocations -> Run]
  BY <1>1 DEF TypeOK
<1> QED
  BY <1>1, <1>2, <1>3, <1>4, RowsKept DEF PipelineCalls

\* A job is given to an invocation nobody competes with, or its document is
\* remembered as overrun.
LEMMA RowsClaim ==
    ASSUME ShapeInv, RowsInv, NEW i \in Invocations, NEW d \in Documents, NEW s \in Stages,
           Claim(i, d, s)
    PROVE  RowsInv'
<1>0. /\ TypeOK /\ \A k \in Invocations : Placed(runs[k])
      /\ At(i, "idle") /\ UNCHANGED <<chunks, analyses>>
      /\ overrun \subseteq overrun'
  BY DEF ShapeInv, PlaceInv, Claim, pipelineTables
<1> DEFINE r == [Idle EXCEPT !.pc = IF s = "ocr" THEN "document" ELSE "check",
                             !.doc = d, !.stage = s, !.attempt = attempts'[d]]
<1>1. /\ r.pc \in {"document", "check"} /\ r.doc = d /\ r.stage = s
  BY DEF Idle
<1>2. Moved(i, r)
  BY <1>0, ClaimMoves
<1> HIDE DEF r
<1>3. d \notin overrun' => \A k \in Invocations : ~Works(k, d, s)
  BY DEF Claim
<1>4. \A e \in Documents, t \in Stages :
        jobs'[e][t] = IF e = d /\ t = s THEN "processing" ELSE jobs[e][t]
  <2> SUFFICES ASSUME NEW e \in Documents, NEW t \in Stages
               PROVE  jobs'[e][t] = IF e = d /\ t = s THEN "processing" ELSE jobs[e][t]
    OBVIOUS
  <2>1. jobs' = [jobs EXCEPT ![d][s] = "processing"]
    BY DEF Claim
  <2>2. jobs'[e] = IF e = d THEN [jobs[d] EXCEPT ![s] = "processing"] ELSE jobs[e]
    BY <1>0, <2>1 DEF TypeOK
  <2> QED
    BY <1>0, <2>2 DEF TypeOK
<1>5. Exclusive'
  BY <1>0, <1>1, <1>2, <1>3 DEF RowsInv, Exclusive, Works, Moved
<1>6. Busy'
  <2> SUFFICES ASSUME NEW k \in Invocations, runs'[k].pc \in PipelineCalls,
                      runs'[k].doc \notin overrun'
               PROVE  jobs'[runs'[k].doc][runs'[k].stage] = "processing"
    BY DEF Busy
  <2>1. CASE k = i
    BY <1>1, <1>2, <1>4, <2>1 DEF Moved
  <2>2. CASE k # i
    <3>1. runs'[k] = runs[k]
      BY <1>2, <2>2 DEF Moved
    <3>2. /\ jobs[runs[k].doc][runs[k].stage] = "processing"
          /\ runs[k].doc \in Documents /\ runs[k].stage \in Stages
      BY <1>0, <3>1 DEF RowsInv, Busy, Placed, TypeOK, Run, PipelineCalls
    <3> QED
      BY <1>4, <3>1, <3>2
  <2> QED
    BY <2>1, <2>2
<1>7. Cutting'
  BY <1>1, <1>2 DEF RowsInv, Cutting, Moved
<1>8. Ending'
  <2> SUFFICES ASSUME NEW k \in Invocations, NEW e \in Documents \ overrun', NEW t \in Stages,
                      Works(k, e, t)', runs'[k].pc = "finish", runs'[k].outcome = "completed"
               PROVE  Has(e, t)'
    BY DEF Ending
  <2>1. k # i /\ runs'[k] = runs[k]
    BY <1>1, <1>2 DEF Moved
  <2>2. Has(e, t)
    BY <1>0, <2>1 DEF RowsInv, Ending, Works
  <2> QED
    BY <1>0, <2>2 DEF Has, ChunksOf
<1>9. CompletedHasRows'
  <2> SUFFICES ASSUME NEW e \in Documents \ overrun'
               PROVE  /\ jobs'[e]["chunk"] = "completed" => ChunksOf(e)' # {}
                      /\ jobs'[e]["analyze"] = "completed" => \E a \in analyses' : a.doc = e
    BY DEF CompletedHasRows
  <2>1. /\ jobs'[e]["chunk"] = "completed" => jobs[e]["chunk"] = "completed"
        /\ jobs'[e]["analyze"] = "completed" => jobs[e]["analyze"] = "completed"
    BY <1>4 DEF Stages
  <2> QED
    BY <1>0, <2>1 DEF RowsInv, CompletedHasRows, ChunksOf
<1> QED
  BY <1>5, <1>6, <1>7, <1>8, <1>9 DEF RowsInv

LEMMA RowsStable == Spec => []RowsInv
<1>1. Init => RowsInv
  BY DEF Init, RowsInv, Exclusive, Busy, Cutting, Ending, CompletedHasRows, Works, Idle,
         PipelineCalls, Stages
<1>2. ShapeInv /\ RowsInv /\ [Next]_vars => RowsInv'
  <2> SUFFICES ASSUME ShapeInv, RowsInv, [Next]_vars PROVE RowsInv'
    OBVIOUS
  <2>1. CASE UNCHANGED vars
    BY <2>1 DEF RowsInv, Exclusive, Busy, Cutting, Ending, CompletedHasRows, Works, Has,
                ChunksOf, vars, pipelineTables, history
  <2>2. CASE Next
    <3>1. PICK i \in Invocations :
            \/ \E d \in Documents, s \in Stages : Claim(i, d, s)
            \/ OcrStep(i) \/ PipelineStep(i) \/ Die(i)
      BY <2>2 DEF Next
    <3> QED
      BY <3>1, RowsClaim, RowsOcr, RowsPipeline, RowsDie
  <2> QED
    BY <2>1, <2>2
<1> QED
  BY <1>1, <1>2, Shaped, PTL DEF Spec

\* A completed stage has left its rows, for any number of documents, runs and
\* faults, unless two invocations had one job of the document at once.
THEOREM CompletedLeavesRows == Spec => []CompletedHasRows
<1>1. RowsInv => CompletedHasRows
  BY DEF RowsInv
<1> QED
  BY <1>1, RowsStable, PTL

-----------------------------------------------------------------------------
(* The document and its OCR job agree.  An undisturbed document has one OCR *)
(* run at a time, which takes the job out of processing just before it      *)
(* writes the document.                                                     *)

Settled == {"completed", "manual_review"}
OcrBusy ==
    \A i \in Invocations, d \in Documents \ disturbed :
      Works(i, d, "ocr") =>
        jobs[d]["ocr"] = IF runs[i].pc = "release" THEN runs[i].outcome ELSE "processing"
Closing ==
    \A i \in Invocations :
      runs[i].pc \in {"settle", "release"} /\ runs[i].outcome \in Settled
        => runs[i].left \in {"completed", "failed"}
ReviewInv == overrun \subseteq disturbed /\ OcrBusy /\ Closing /\ ReviewAgrees

LEMMA Disturbs ==
    ASSUME NEW d, Fault(d) \/ NoFault
    PROVE  disturbed \subseteq disturbed'
BY DEF Fault, NoFault

\* A step that neither settles nor releases an OCR job.
LEMMA ReviewBeside ==
    ASSUME ReviewInv, NEW i \in Invocations, NEW r, Moved(i, r),
           disturbed \subseteq disturbed', UNCHANGED overrun, ~At(i, "idle"),
           \A d \in Documents : jobs'[d]["ocr"] = jobs[d]["ocr"],
           \/ runs[i].stage # "ocr" /\ (r.pc = "idle" \/ r.stage # "ocr")
           \/ /\ runs[i].pc # "release" /\ r.pc \notin {"idle", "release"}
              /\ r.stage = runs[i].stage /\ r.doc = Doc(i),
           r.pc \in {"settle", "release"} /\ r.outcome \in Settled
             => r.left \in {"completed", "failed"},
           \A d \in Documents : docs'[d] = docs[d] \/ (runs[i].stage = "ocr" /\ d = Doc(i))
    PROVE  ReviewInv'
<1>1. \A k \in Invocations, d \in Documents : Works(k, d, "ocr")' <=> Works(k, d, "ocr")
  BY DEF Works, Moved, At, Doc
<1>2. OcrBusy'
  <2> SUFFICES ASSUME NEW k \in Invocations, NEW d \in Documents \ disturbed',
                      Works(k, d, "ocr")'
               PROVE  jobs'[d]["ocr"] =
                        IF runs'[k].pc = "release" THEN runs'[k].outcome ELSE "processing"
    BY DEF OcrBusy
  <2>1. Works(k, d, "ocr") /\ d \in Documents \ disturbed
    BY <1>1
  <2>2. jobs[d]["ocr"] = IF runs[k].pc = "release" THEN runs[k].outcome ELSE "processing"
    BY <2>1 DEF ReviewInv, OcrBusy
  <2>3. runs'[k] = runs[k] \/ (runs[k].pc # "release" /\ runs'[k].pc # "release")
    BY <2>1 DEF Moved, Works
  <2> QED
    BY <2>1, <2>2, <2>3
<1>3. Closing'
  BY DEF ReviewInv, Closing, Moved
<1>4. ReviewAgrees'
  <2> SUFFICES ASSUME NEW d \in Documents \ disturbed', jobs'[d]["ocr"] \in Settled,
                      \A k \in Invocations : ~Works(k, d, "ocr")'
               PROVE  /\ docs'[d].review = (jobs'[d]["ocr"] = "manual_review")
                      /\ docs'[d].status \in {"completed", "failed"}
    BY DEF ReviewAgrees, Settled
  <2>1. \A k \in Invocations : ~Works(k, d, "ocr")
    BY <1>1
  <2>2. docs'[d] = docs[d]
    BY <2>1 DEF Works, At, Doc
  <2>3. jobs'[d]["ocr"] = jobs[d]["ocr"] /\ d \in Documents \ disturbed
    OBVIOUS
  <2> QED
    BY <2>1, <2>2, <2>3 DEF ReviewInv, ReviewAgrees, Settled
<1>5. (overrun \subseteq disturbed)'
  BY DEF ReviewInv
<1> QED
  BY <1>2, <1>3, <1>4, <1>5 DEF ReviewInv

LEMMA ReviewFail ==
    ASSUME ShapeInv, ReviewInv, NEW i \in Invocations, runs[i].pc \in OcrCalls \ {"release"},
           NEW retry \in BOOLEAN, Fail(i, retry), UNCHANGED <<jobs, docs, history>>
    PROVE  ReviewInv'
<1>1. /\ TypeOK /\ ~At(i, "idle") /\ runs[i].stage = "ocr"
      /\ UNCHANGED overrun /\ disturbed \subseteq disturbed'
  BY DEF ShapeInv, PlaceInv, Placed, At, OcrCalls, history
<1>2. ASSUME NEW outcome, NEW left,
             outcome \in Settled => left \in {"completed", "failed"},
             Moved(i, [Idle EXCEPT !.pc = "settle", !.doc = Doc(i),
                                   !.outcome = outcome, !.left = left])
      PROVE  ReviewInv'
  <2> DEFINE r == [Idle EXCEPT !.pc = "settle", !.doc = Doc(i),
                               !.outcome = outcome, !.left = left]
  <2>1. /\ r.pc = "settle" /\ r.doc = Doc(i) /\ r.stage = "ocr"
        /\ r.outcome = outcome /\ r.left = left
    BY DEF Idle
  <2>2. Moved(i, r)
    BY <1>2
  <2> HIDE DEF r
  <2> QED
    BY <1>1, <1>2, <2>1, <2>2, ReviewBeside
<1>3. "queued" \notin Settled
  BY DEF Settled
<1> QED
  BY <1>1, <1>2, <1>3, FailMoves

\* A step of the pipeline worker moves one invocation and no OCR job.
LEMMA PipelineMoves ==
    ASSUME ShapeInv, NEW i \in Invocations, PipelineStep(i)
    PROVE  /\ Moved(i, runs'[i]) /\ ~At(i, "idle") /\ runs[i].stage # "ocr"
           /\ runs'[i].pc \in PipelineCalls \cup {"idle"}
           /\ \A d \in Documents : jobs'[d]["ocr"] = jobs[d]["ocr"]
           /\ UNCHANGED <<docs, overrun>> /\ disturbed \subseteq disturbed'
<1>0. TypeOK /\ runs[i] \in Run
  BY DEF ShapeInv, TypeOK
<1>1. runs[i].pc \in PipelineCalls
  BY DEF PipelineStep, Check, ReadPages, DeleteChunks, InsertChunks, ReadChunks, Embed,
         ReadContext, Analyze, Finish, At, PipelineCalls
<1>2. ~At(i, "idle") /\ runs[i].stage # "ocr"
  BY <1>1 DEF ShapeInv, PlaceInv, Placed, At, PipelineCalls
<1>3. \A k \in Invocations \ {i} : runs'[k] = runs[k]
  BY <1>0 DEF PipelineStep, Check, ReadPages, DeleteChunks, InsertChunks, ReadChunks, Embed,
              ReadContext, Analyze, Finish, GoTo, FinishAs, TypeOK
<1>4. UNCHANGED <<docs, overrun>> /\ disturbed \subseteq disturbed'
  BY Disturbs
  DEF PipelineStep, Check, ReadPages, DeleteChunks, InsertChunks, ReadChunks, Embed,
      ReadContext, Analyze, Finish, Write, ocrTables, history
<1>5. \A d \in Documents : jobs'[d]["ocr"] = jobs[d]["ocr"]
  <2>1. CASE UNCHANGED jobs
    BY <2>1
  <2>2. CASE SetJob(i, runs[i].outcome)
    <3> SUFFICES ASSUME NEW d \in Documents PROVE jobs'[d]["ocr"] = jobs[d]["ocr"]
      OBVIOUS
    <3>1. PICK s \in Stages \ {"ocr"} : s = runs[i].stage
      BY <1>0, <1>2 DEF Run
    <3>2. jobs' = [jobs EXCEPT ![Doc(i)][s] = runs[i].outcome]
      BY <2>2, <3>1 DEF SetJob
    <3>3. jobs'[d] = jobs[d] \/ jobs'[d] = [jobs[d] EXCEPT ![s] = runs[i].outcome]
      BY <1>0, <3>2 DEF TypeOK
    <3> QED
      BY <1>0, <3>3 DEF TypeOK, Stages
  <2> QED
    BY <2>1, <2>2
    DEF PipelineStep, Check, ReadPages, DeleteChunks, InsertChunks, ReadChunks, Embed,
        ReadContext, Analyze, Finish, Write
<1>6. runs'[i].pc \in PipelineCalls \cup {"idle"}
  <2>g. ASSUME NEW pc \in PipelineCalls, GoTo(i, pc)
        PROVE  runs'[i].pc \in PipelineCalls
    BY <1>0, <2>g DEF GoTo, TypeOK, Run
  <2>f. ASSUME NEW outcome, FinishAs(i, outcome)
        PROVE  runs'[i].pc \in PipelineCalls
    BY <1>0, <2>f DEF FinishAs, TypeOK, Idle, PipelineCalls
  <2>r. ASSUME NEW pc \in PipelineCalls, NEW rows,
               runs' = [runs EXCEPT ![i].pc = pc, ![i].rows = rows]
        PROVE  runs'[i].pc \in PipelineCalls
    BY <1>0, <2>r DEF TypeOK, Run
  <2>b. ASSUME NEW pc \in PipelineCalls, NEW batch,
               runs' = [runs EXCEPT ![i].pc = pc, ![i].batch = batch]
        PROVE  runs'[i].pc \in PipelineCalls
    BY <1>0, <2>b DEF TypeOK, Run
  <2>1. CASE Check(i)
    <3>1. FirstCall(runs[i].stage) \in PipelineCalls
      BY DEF FirstCall, PipelineCalls
    <3> QED
      BY <2>1, <2>f, <2>g, <3>1 DEF Check
  <2>2. CASE ReadPages(i)
    <3>1. "delete" \in PipelineCalls
      BY DEF PipelineCalls
    <3> QED
      BY <2>2, <2>f, <2>r, <3>1 DEF ReadPages
  <2>3. CASE DeleteChunks(i)
    <3>1. "insert" \in PipelineCalls
      BY DEF PipelineCalls
    <3> QED
      BY <2>3, <2>f, <2>g, <3>1 DEF DeleteChunks
  <2>4. CASE InsertChunks(i)
    BY <2>4, <2>f DEF InsertChunks
  <2>5. CASE ReadChunks(i)
    <3>1. "embed" \in PipelineCalls
      BY DEF PipelineCalls
    <3> QED
      BY <2>5, <2>b, <2>f, <3>1 DEF ReadChunks
  <2>6. CASE Embed(i)
    <3>1. ASSUME NEW c, runs' = [runs EXCEPT ![i].batch = @ \ {c}]
          PROVE  runs'[i].pc \in PipelineCalls
      BY <1>0, <1>1, <3>1 DEF TypeOK, Run
    <3> QED
      BY <2>6, <2>f, <3>1 DEF Embed
  <2>7. CASE ReadContext(i)
    <3>1. "analyze" \in PipelineCalls
      BY DEF PipelineCalls
    <3> QED
      BY <2>7, <2>b, <2>f, <3>1 DEF ReadContext
  <2>8. CASE Analyze(i)
    BY <2>8, <2>f DEF Analyze
  <2>9. CASE Finish(i)
    BY <1>0, <2>9 DEF Finish, TypeOK, Idle
  <2> QED
    BY <2>1, <2>2, <2>3, <2>4, <2>5, <2>6, <2>7, <2>8, <2>9 DEF PipelineStep
<1> QED
  BY <1>2, <1>3, <1>4, <1>5, <1>6 DEF Moved

LEMMA ReviewPipeline ==
    ASSUME ShapeInv, ReviewInv, NEW i \in Invocations, PipelineStep(i)
    PROVE  ReviewInv'
<1>1. PICK r : r = runs'[i]
  OBVIOUS
<1>2. ShapeInv'
  BY ShapePipeline
<1>3. Placed(r)
  BY <1>1, <1>2 DEF ShapeInv, PlaceInv, Placed
<1>4. /\ Moved(i, r) /\ ~At(i, "idle") /\ runs[i].stage # "ocr"
      /\ r.pc \in PipelineCalls \cup {"idle"}
      /\ \A d \in Documents : jobs'[d]["ocr"] = jobs[d]["ocr"]
      /\ UNCHANGED <<docs, overrun>> /\ disturbed \subseteq disturbed'
  BY <1>1, PipelineMoves
<1>5. /\ r.pc = "idle" \/ r.stage # "ocr"
      /\ r.pc \notin {"settle", "release"}
  BY <1>3, <1>4 DEF Placed, PipelineCalls
<1> QED
  BY <1>4, <1>5, ReviewBeside

\* The job gets its outcome, and only the invocation that is to write the
\* document still works on it.
LEMMA ReviewSettle ==
    ASSUME ShapeInv, Exclusive, ReviewInv, NEW i \in Invocations, Settle(i)
    PROVE  ReviewInv'
<1>0. /\ TypeOK /\ runs[i] \in Run /\ runs[i].pc = "settle" /\ runs[i].stage = "ocr"
      /\ Doc(i) \in Documents /\ "ocr" \in Stages /\ UNCHANGED <<docs, overrun>>
  BY DEF ShapeInv, TypeOK, PlaceInv, Placed, At, Doc, Settle, Write, OcrCalls, Stages, ocrTables
<1>1. PICK e \in Documents : e = Doc(i)
  BY <1>0
<1>2. PICK r : /\ Moved(i, r) /\ r.pc = "release" /\ r.doc = e /\ r.stage = "ocr"
               /\ r.outcome = runs[i].outcome /\ r.left = runs[i].left
  <2> DEFINE r == [runs[i] EXCEPT !.pc = "release"]
  <2>1. /\ r.pc = "release" /\ r.doc = e /\ r.stage = "ocr"
        /\ r.outcome = runs[i].outcome /\ r.left = runs[i].left
    BY <1>0, <1>1 DEF Run, Doc
  <2>2. Moved(i, r)
    BY <1>0, GoToMoves DEF Settle, Calls, OcrCalls
  <2> HIDE DEF r
  <2> QED
    BY <2>1, <2>2
<1>3. \A k \in Invocations, d \in Documents : Works(k, d, "ocr")' <=> Works(k, d, "ocr")
  BY <1>0, <1>1, <1>2 DEF Works, Moved, Doc
<1>4. Works(i, e, "ocr")
  BY <1>0, <1>1 DEF Works, Doc
<1>5. /\ disturbed \subseteq disturbed'
      /\ \A d \in Documents : d # e => jobs'[d]["ocr"] = jobs[d]["ocr"]
      /\ e \notin disturbed' => jobs'[e]["ocr"] = runs[i].outcome
  <2>1. CASE SetJob(i, runs[i].outcome) /\ NoFault
    <3>0. PICK o : o = runs[i].outcome
      OBVIOUS
    <3>1. jobs' = [jobs EXCEPT ![e]["ocr"] = o]
      BY <1>0, <1>1, <2>1, <3>0 DEF SetJob
    <3>2. \A d \in Documents, s \in Stages :
            jobs'[d][s] = IF d = e /\ s = "ocr" THEN o ELSE jobs[d][s]
      <4> SUFFICES ASSUME NEW d \in Documents, NEW s \in Stages
                   PROVE  jobs'[d][s] = IF d = e /\ s = "ocr" THEN o ELSE jobs[d][s]
        OBVIOUS
      <4>1. jobs'[d] = IF d = e THEN [jobs[e] EXCEPT !["ocr"] = o] ELSE jobs[d]
        BY <1>0, <3>1 DEF TypeOK
      <4> QED
        BY <1>0, <4>1 DEF TypeOK
    <3> QED
      BY <1>0, <2>1, <3>0, <3>2 DEF NoFault
  <2>2. CASE UNCHANGED jobs /\ Fault(Doc(i))
    BY <1>1, <2>2 DEF Fault
  <2> QED
    BY <2>1, <2>2 DEF Settle, Write
<1>6. OcrBusy'
  <2> SUFFICES ASSUME NEW k \in Invocations, NEW d \in Documents \ disturbed',
                      Works(k, d, "ocr")'
               PROVE  jobs'[d]["ocr"] =
                        IF runs'[k].pc = "release" THEN runs'[k].outcome ELSE "processing"
    BY DEF OcrBusy
  <2>1. CASE k = i
    BY <1>1, <1>2, <1>5, <2>1 DEF Moved, Works
  <2>2. CASE k # i
    <3>1. runs'[k] = runs[k] /\ Works(k, d, "ocr") /\ d \in Documents \ disturbed
      BY <1>2, <1>3, <1>5, <2>2 DEF Moved
    <3>2. d # e
      BY <1>0, <1>4, <2>2, <3>1 DEF ReviewInv, Exclusive
    <3> QED
      BY <1>5, <3>1, <3>2 DEF ReviewInv, OcrBusy
  <2> QED
    BY <2>1, <2>2
<1>7. Closing'
  BY <1>0, <1>2 DEF ReviewInv, Closing, Moved
<1>8. ReviewAgrees'
  <2> SUFFICES ASSUME NEW d \in Documents \ disturbed', jobs'[d]["ocr"] \in Settled,
                      \A k \in Invocations : ~Works(k, d, "ocr")'
               PROVE  /\ docs'[d].review = (jobs'[d]["ocr"] = "manual_review")
                      /\ docs'[d].status \in {"completed", "failed"}
    BY DEF ReviewAgrees, Settled
  <2>1. d # e /\ \A k \in Invocations : ~Works(k, d, "ocr")
    BY <1>3, <1>4
  <2> QED
    BY <1>0, <1>5, <2>1 DEF ReviewInv, ReviewAgrees, Settled
<1>9. (overrun \subseteq disturbed)'
  BY <1>0, <1>5 DEF ReviewInv
<1> QED
  BY <1>6, <1>7, <1>8, <1>9 DEF ReviewInv

\* The document gets what the job has got.
LEMMA ReviewRelease ==
    ASSUME ShapeInv, Exclusive, ReviewInv, NEW i \in Invocations, Release(i)
    PROVE  ReviewInv'
<1>0. /\ TypeOK /\ runs[i] \in Run /\ runs[i].pc = "release" /\ runs[i].stage = "ocr"
      /\ Doc(i) \in Documents /\ "ocr" \in Stages /\ UNCHANGED <<jobs, overrun>>
  BY DEF ShapeInv, TypeOK, PlaceInv, Placed, At, Doc, Release, Write, OcrCalls, Stages
<1>1. PICK e \in Documents : e = Doc(i)
  BY <1>0
<1>2. Moved(i, Idle) /\ Idle.pc = "idle"
  BY <1>0, ResetMoves DEF Release, Idle
<1>3. Works(i, e, "ocr")
  BY <1>0, <1>1 DEF Works, Doc
<1>4. /\ disturbed \subseteq disturbed'
      /\ \A d \in Documents : d # e => docs'[d] = docs[d]
      /\ e \notin disturbed' =>
           docs'[e] = [status |-> runs[i].left, review |-> (runs[i].outcome = "manual_review")]
  <2>1. CASE SetDocument(Doc(i), runs[i].left, runs[i].outcome = "manual_review") /\ NoFault
    BY <1>0, <1>1, <2>1 DEF SetDocument, NoFault, TypeOK
  <2>2. CASE UNCHANGED docs /\ Fault(Doc(i))
    BY <1>1, <2>2 DEF Fault
  <2> QED
    BY <2>1, <2>2 DEF Release, Write
<1>5. OcrBusy'
  BY <1>0, <1>2, <1>4 DEF ReviewInv, OcrBusy, Moved, Works
<1>6. Closing'
  BY <1>2 DEF ReviewInv, Closing, Moved
<1>7. ReviewAgrees'
  <2> SUFFICES ASSUME NEW d \in Documents \ disturbed', jobs[d]["ocr"] \in Settled,
                      \A k \in Invocations : ~Works(k, d, "ocr")'
               PROVE  /\ docs'[d].review = (jobs[d]["ocr"] = "manual_review")
                      /\ docs'[d].status \in {"completed", "failed"}
    BY <1>0 DEF ReviewAgrees, Settled
  <2>1. CASE d = e
    <3>1. jobs[e]["ocr"] = runs[i].outcome
      BY <1>0, <1>3, <1>4, <2>1 DEF ReviewInv, OcrBusy
    <3>2. runs[i].left \in {"completed", "failed"}
      BY <1>0, <2>1, <3>1 DEF ReviewInv, Closing
    <3>3. docs'[e] = [status |-> runs[i].left, review |-> (runs[i].outcome = "manual_review")]
      BY <1>4, <2>1
    <3>4. /\ docs'[e].status = runs[i].left
          /\ docs'[e].review = (runs[i].outcome = "manual_review")
      BY <3>3
    <3> QED
      BY <2>1, <3>1, <3>2, <3>4
  <2>2. CASE d # e
    <3>1. \A k \in Invocations : ~Works(k, d, "ocr")
      BY <1>0, <1>1, <1>2, <2>2 DEF Works, Moved, Doc
    <3> QED
      BY <1>4, <2>2, <3>1 DEF ReviewInv, ReviewAgrees, Settled
  <2> QED
    BY <2>1, <2>2
<1>8. (overrun \subseteq disturbed)'
  BY <1>0, <1>4 DEF ReviewInv
<1> QED
  BY <1>5, <1>6, <1>7, <1>8 DEF ReviewInv

LEMMA ReviewOcr ==
    ASSUME ShapeInv, Exclusive, ReviewInv, NEW i \in Invocations, OcrStep(i)
    PROVE  ReviewInv'
<1>0. /\ TypeOK /\ runs[i] \in Run
      /\ runs[i].pc \in OcrCalls => runs[i].stage = "ocr" /\ ~At(i, "idle")
  BY DEF ShapeInv, TypeOK, PlaceInv, Placed, At, OcrCalls
<1>1. CASE ReadDocument(i)
  <2>1. /\ runs[i].pc \in OcrCalls \ {"release"} /\ UNCHANGED <<jobs, docs, history>>
        /\ UNCHANGED overrun /\ disturbed \subseteq disturbed'
    BY <1>1 DEF ReadDocument, At, OcrCalls, ocrTables, history
  <2>2. CASE GoTo(i, "begin")
    <3> DEFINE r == [runs[i] EXCEPT !.pc = "begin"]
    <3>1. r.pc = "begin" /\ r.doc = Doc(i) /\ r.stage = runs[i].stage
      BY <1>0 DEF Run, Doc
    <3>2. Moved(i, r)
      BY <1>0, <2>2, GoToMoves DEF Calls, OcrCalls
    <3> HIDE DEF r
    <3> QED
      BY <1>0, <2>1, <3>1, <3>2, ReviewBeside
  <2> QED
    BY <1>1, <2>1, <2>2, ReviewFail DEF ReadDocument
<1>2. CASE Begin(i)
  <2>1. /\ runs[i].pc \in OcrCalls \ {"release"} /\ runs[i].stage = "ocr"
        /\ UNCHANGED <<jobs, overrun>> /\ disturbed \subseteq disturbed'
    BY <1>0, <1>2, Disturbs DEF Begin, Write, At, OcrCalls
  <2>2. \A d \in Documents : docs'[d] = docs[d] \/ d = Doc(i)
    BY <1>0, <1>2 DEF Begin, Write, SetDocument, TypeOK
  <2> DEFINE r == [runs[i] EXCEPT !.pc = "recognize"]
  <2>3. r.pc = "recognize" /\ r.doc = Doc(i) /\ r.stage = runs[i].stage
    BY <1>0 DEF Run, Doc
  <2>4. Moved(i, r)
    BY <1>0, <1>2, GoToMoves DEF Begin, Calls, OcrCalls
  <2> HIDE DEF r
  <2> QED
    BY <1>0, <2>1, <2>2, <2>3, <2>4, ReviewBeside
<1>3. CASE Recognize(i)
  <2>1. /\ runs[i].pc \in OcrCalls \ {"release"} /\ UNCHANGED <<jobs, docs, history>>
        /\ UNCHANGED overrun /\ disturbed \subseteq disturbed'
    BY <1>3 DEF Recognize, At, OcrCalls, ocrTables, history
  <2>2. ASSUME NEW result \in Results,
               runs' = [runs EXCEPT ![i].pc = "persist", ![i].rows = Rows(result)]
        PROVE  ReviewInv'
    <3> DEFINE r == [runs[i] EXCEPT !.pc = "persist", !.rows = Rows(result)]
    <3>1. r.pc = "persist" /\ r.doc = Doc(i) /\ r.stage = runs[i].stage
      BY <1>0 DEF Run, Doc
    <3>2. Moved(i, r)
      BY <1>0, <2>2, RowsType, RowsMove DEF Calls, OcrCalls
    <3> HIDE DEF r
    <3> QED
      BY <1>0, <2>1, <3>1, <3>2, ReviewBeside
  <2> QED
    BY <1>3, <2>1, <2>2, ReviewFail DEF Recognize
<1>4. CASE Persist(i)
  <2>1. /\ runs[i].pc \in OcrCalls \ {"release"} /\ UNCHANGED <<jobs, docs, history>>
        /\ UNCHANGED overrun /\ disturbed \subseteq disturbed' /\ runs[i].stage = "ocr"
    BY <1>0, <1>4 DEF Persist, At, OcrCalls, history
  <2>2. ASSUME NEW outcome \in {"manual_review", "completed"}, Conclude(i, outcome, "completed")
        PROVE  ReviewInv'
    <3> DEFINE r == [Idle EXCEPT !.pc = "settle", !.doc = Doc(i),
                                 !.outcome = outcome, !.left = "completed"]
    <3>1. r.pc = "settle" /\ r.doc = Doc(i) /\ r.stage = "ocr" /\ r.left = "completed"
      BY DEF Idle
    <3>2. Moved(i, r)
      BY <1>0, <2>2, ConcludeMoves DEF Statuses, DocumentStatuses
    <3> HIDE DEF r
    <3> QED
      BY <1>0, <2>1, <3>1, <3>2, ReviewBeside
  <2>3. CASE Fail(i, FALSE)
    BY <2>1, <2>3, ReviewFail
  <2>4. CASE Conclude(i, IF Low(runs[i].rows) # {} THEN "manual_review" ELSE "completed",
                      "completed")
    BY <2>2, <2>4
  <2> QED
    BY <1>4, <2>3, <2>4 DEF Persist
<1> QED
  BY <1>1, <1>2, <1>3, <1>4, ReviewSettle, ReviewRelease DEF OcrStep

LEMMA ReviewDie ==
    ASSUME ShapeInv, ReviewInv, NEW i \in Invocations, Die(i)
    PROVE  ReviewInv'
<1>0. /\ TypeOK /\ ~At(i, "idle") /\ UNCHANGED <<jobs, docs, overrun>>
      /\ disturbed' = disturbed \cup {Doc(i)}
  BY DEF ShapeInv, Die, Fault, ocrTables
<1>1. Moved(i, Idle) /\ Idle.pc = "idle"
  BY <1>0, ResetMoves DEF Die, Idle
<1>2. OcrBusy'
  BY <1>0, <1>1 DEF ReviewInv, OcrBusy, Moved, Works
<1>3. Closing'
  BY <1>1 DEF ReviewInv, Closing, Moved
<1>4. ReviewAgrees'
  <2> SUFFICES ASSUME NEW d \in Documents \ disturbed', jobs[d]["ocr"] \in Settled,
                      \A k \in Invocations : ~Works(k, d, "ocr")'
               PROVE  /\ docs[d].review = (jobs[d]["ocr"] = "manual_review")
                      /\ docs[d].status \in {"completed", "failed"}
    BY <1>0 DEF ReviewAgrees, Settled
  <2>1. \A k \in Invocations : ~Works(k, d, "ocr")
    BY <1>0, <1>1 DEF Works, Moved, Doc
  <2> QED
    BY <1>0, <2>1 DEF ReviewInv, ReviewAgrees, Settled
<1> QED
  BY <1>0, <1>2, <1>3, <1>4 DEF ReviewInv

LEMMA ReviewClaim ==
    ASSUME ShapeInv, ReviewInv, NEW i \in Invocations, NEW d \in Documents, NEW s \in Stages,
           Claim(i, d, s)
    PROVE  ReviewInv'
<1>0. /\ TypeOK /\ At(i, "idle") /\ "ocr" \in Stages /\ UNCHANGED docs
      /\ disturbed \subseteq disturbed'
      /\ \/ overrun' = overrun /\ \A k \in Invocations : ~Works(k, d, s)
         \/ overrun' = overrun \cup {d} /\ d \in disturbed'
  BY DEF ShapeInv, Claim, Stages, Fault, NoFault
<1> DEFINE r == [Idle EXCEPT !.pc = IF s = "ocr" THEN "document" ELSE "check",
                             !.doc = d, !.stage = s, !.attempt = attempts'[d]]
<1>1. r.pc \in {"document", "check"} /\ r.doc = d /\ r.stage = s
  BY DEF Idle
<1>2. Moved(i, r)
  BY <1>0, ClaimMoves
<1> HIDE DEF r
<1>3. \A e \in Documents, t \in Stages :
        jobs'[e][t] = IF e = d /\ t = s THEN "processing" ELSE jobs[e][t]
  <2> SUFFICES ASSUME NEW e \in Documents, NEW t \in Stages
               PROVE  jobs'[e][t] = IF e = d /\ t = s THEN "processing" ELSE jobs[e][t]
    OBVIOUS
  <2>1. jobs' = [jobs EXCEPT ![d][s] = "processing"]
    BY DEF Claim
  <2>2. jobs'[e] = IF e = d THEN [jobs[d] EXCEPT ![s] = "processing"] ELSE jobs[e]
    BY <1>0, <2>1 DEF TypeOK
  <2> QED
    BY <1>0, <2>2 DEF TypeOK
<1>4. OcrBusy'
  <2> SUFFICES ASSUME NEW k \in Invocations, NEW e \in Documents \ disturbed',
                      Works(k, e, "ocr")'
               PROVE  jobs'[e]["ocr"] =
                        IF runs'[k].pc = "release" THEN runs'[k].outcome ELSE "processing"
    BY DEF OcrBusy
  <2>1. CASE k = i
    BY <1>0, <1>1, <1>2, <1>3, <2>1 DEF Moved, Works
  <2>2. CASE k # i
    <3>1. runs'[k] = runs[k] /\ Works(k, e, "ocr") /\ e \in Documents \ disturbed
      BY <1>0, <1>2, <2>2 DEF Moved, Works
    <3>2. ~(e = d /\ s = "ocr")
      BY <1>0, <3>1
    <3> QED
      BY <1>0, <1>3, <3>1, <3>2 DEF ReviewInv, OcrBusy
  <2> QED
    BY <2>1, <2>2
<1>5. Closing'
  BY <1>1, <1>2 DEF ReviewInv, Closing, Moved
<1>6. ReviewAgrees'
  <2> SUFFICES ASSUME NEW e \in Documents \ disturbed', jobs'[e]["ocr"] \in Settled,
                      \A k \in Invocations : ~Works(k, e, "ocr")'
               PROVE  /\ docs'[e].review = (jobs'[e]["ocr"] = "manual_review")
                      /\ docs'[e].status \in {"completed", "failed"}
    BY DEF ReviewAgrees, Settled
  <2>1. jobs'[e]["ocr"] = jobs[e]["ocr"]
    BY <1>0, <1>3 DEF Settled
  <2>2. \A k \in Invocations : ~Works(k, e, "ocr")
    BY <1>0, <1>2 DEF Works, Moved, At
  <2> QED
    BY <1>0, <2>1, <2>2 DEF ReviewInv, ReviewAgrees, Settled
<1>7. (overrun \subseteq disturbed)'
  BY <1>0 DEF ReviewInv
<1> QED
  BY <1>4, <1>5, <1>6, <1>7 DEF ReviewInv

\* The document asks for a review exactly if its settled OCR job does, for any
\* number of documents and invocations, until a fault reaches the document.
THEOREM ReviewFollowsOcr == Spec => []ReviewAgrees
<1>1. Init => ReviewInv
  BY DEF Init, ReviewInv, OcrBusy, Closing, ReviewAgrees, Works, Idle, Stages
<1>2. ShapeInv /\ RowsInv /\ ReviewInv /\ [Next]_vars => ReviewInv'
  <2> SUFFICES ASSUME ShapeInv, RowsInv, ReviewInv, [Next]_vars PROVE ReviewInv'
    OBVIOUS
  <2>1. CASE UNCHANGED vars
    BY <2>1 DEF ReviewInv, OcrBusy, Closing, ReviewAgrees, Works, vars, ocrTables, history
  <2>2. CASE Next
    <3>1. PICK i \in Invocations :
            \/ \E d \in Documents, s \in Stages : Claim(i, d, s)
            \/ OcrStep(i) \/ PipelineStep(i) \/ Die(i)
      BY <2>2 DEF Next
    <3> QED
      BY <3>1, ReviewClaim, ReviewOcr, ReviewPipeline, ReviewDie DEF RowsInv
  <2> QED
    BY <2>1, <2>2
<1>3. ReviewInv => ReviewAgrees
  BY DEF ReviewInv
<1> QED
  BY <1>1, <1>2, <1>3, Shaped, RowsStable, PTL DEF Spec


-----------------------------------------------------------------------------
(* Chunks get their embeddings in order.  What a run is going to embed stays *)
(* ahead of what it leaves, also when the rows are replaced: the rows of a   *)
(* later chunking are told apart by their ids.                               *)

\* A step after which invocation i embeds nothing, and no chunk is new.
LEMMA NotEmbedding ==
    ASSUME EmbedInv, NEW i \in Invocations, NEW r, Moved(i, r), r.pc # "embed",
           r.batch \subseteq chunks \cup runs[i].batch, chunks' \subseteq chunks, UNCHANGED inserts
    PROVE  EmbedInv'
<1>1. EmbeddedInOrder' /\ \A c \in chunks' : c.insert < inserts'
  BY DEF EmbedInv, EmbeddedInOrder
<1>2. ASSUME NEW k \in Invocations, NEW c \in runs'[k].batch PROVE c.insert < inserts'
  BY <1>2 DEF EmbedInv, Moved
<1>3. ASSUME NEW k \in Invocations, At(k, "embed")', NEW c \in runs'[k].batch
      PROVE  Ahead(c, runs[k].batch)'
  <2>1. k # i /\ runs'[k] = runs[k]
    BY <1>3 DEF Moved, At
  <2>2. Ahead(c, runs[k].batch)
    BY <1>3, <2>1 DEF EmbedInv, At
  <2> QED
    BY <2>1, <2>2 DEF Ahead
<1> QED
  BY <1>1, <1>2, <1>3 DEF EmbedInv

\* The ways an invocation goes on without embedding.
LEMMA MovesOn ==
    ASSUME TypeOK, EmbedInv, NEW i \in Invocations, chunks' \subseteq chunks, UNCHANGED inserts,
           \/ \E pc \in Calls \ {"embed"} : GoTo(i, pc)
           \/ \E outcome \in Statuses : FinishAs(i, outcome)
           \/ \E outcome \in Statuses, left \in DocumentStatuses : Conclude(i, outcome, left)
           \/ \E retry \in BOOLEAN : Fail(i, retry)
           \/ \E pc \in Calls \ {"embed"}, rows \in PageTable :
                runs' = [runs EXCEPT ![i].pc = pc, ![i].rows = rows]
           \/ \E pc \in Calls \ {"embed"}, batch \in SUBSET chunks :
                runs' = [runs EXCEPT ![i].pc = pc, ![i].batch = batch]
           \/ runs' = [runs EXCEPT ![i] = Idle]
    PROVE  EmbedInv'
<1>0. runs[i] \in Run /\ chunks \subseteq Chunk /\ Idle \in Run
  BY IdleType DEF TypeOK
<1>1. Idle.pc # "embed" /\ Idle.batch = {}
  BY DEF Idle
<1>2. ASSUME NEW pc \in Calls \ {"embed"}, GoTo(i, pc) PROVE EmbedInv'
  <2>1. Moved(i, [runs[i] EXCEPT !.pc = pc])
    BY <1>2, GoToMoves
  <2>2. [runs[i] EXCEPT !.pc = pc].pc # "embed" /\ [runs[i] EXCEPT !.pc = pc].batch = runs[i].batch
    BY <1>0, <1>2 DEF Run
  <2> QED
    BY <2>1, <2>2, NotEmbedding
<1>3. ASSUME NEW outcome \in Statuses, FinishAs(i, outcome) PROVE EmbedInv'
  <2> DEFINE r == [Idle EXCEPT !.pc = "finish", !.doc = Doc(i),
                               !.stage = runs[i].stage, !.outcome = outcome]
  <2>1. Moved(i, r)
    BY <1>3, FinishMoves
  <2>2. r.pc # "embed" /\ r.batch = {}
    BY DEF Idle
  <2> HIDE DEF r
  <2> QED
    BY <2>1, <2>2, NotEmbedding
<1>4. ASSUME NEW outcome \in Statuses, NEW left \in DocumentStatuses, Conclude(i, outcome, left)
      PROVE  EmbedInv'
  <2> DEFINE r == [Idle EXCEPT !.pc = "settle", !.doc = Doc(i),
                                 !.outcome = outcome, !.left = left]
  <2>1. Moved(i, r)
    BY <1>4, ConcludeMoves
  <2>2. r.pc # "embed" /\ r.batch = {}
    BY DEF Idle
  <2> HIDE DEF r
  <2> QED
    BY <2>1, <2>2, NotEmbedding
<1>5. ASSUME NEW retry \in BOOLEAN, Fail(i, retry) PROVE EmbedInv'
  BY <1>4, <1>5 DEF Fail, Statuses, DocumentStatuses
<1>6. ASSUME NEW pc \in Calls \ {"embed"}, NEW rows \in PageTable,
             runs' = [runs EXCEPT ![i].pc = pc, ![i].rows = rows]
      PROVE  EmbedInv'
  <2>1. Moved(i, [runs[i] EXCEPT !.pc = pc, !.rows = rows])
    BY <1>6, RowsMove
  <2>2. /\ [runs[i] EXCEPT !.pc = pc, !.rows = rows].pc # "embed"
        /\ [runs[i] EXCEPT !.pc = pc, !.rows = rows].batch = runs[i].batch
    BY <1>0, <1>6 DEF Run
  <2> QED
    BY <2>1, <2>2, NotEmbedding
<1>7. ASSUME NEW pc \in Calls \ {"embed"}, NEW batch \in SUBSET chunks,
             runs' = [runs EXCEPT ![i].pc = pc, ![i].batch = batch]
      PROVE  EmbedInv'
  <2>1. Moved(i, [runs[i] EXCEPT !.pc = pc, !.batch = batch])
    BY <1>0, <1>7, BatchMoves
  <2>2. /\ [runs[i] EXCEPT !.pc = pc, !.batch = batch].pc # "embed"
        /\ [runs[i] EXCEPT !.pc = pc, !.batch = batch].batch = batch
    BY <1>0, <1>7 DEF Run
  <2> QED
    BY <2>1, <2>2, NotEmbedding
<1>8. CASE runs' = [runs EXCEPT ![i] = Idle]
  <2>1. Moved(i, Idle)
    BY <1>8, ResetMoves
  <2> QED
    BY <1>1, <2>1, NotEmbedding
<1> QED
  BY <1>2, <1>3, <1>4, <1>5, <1>6, <1>7, <1>8

LEMMA EmbedOcr ==
    ASSUME TypeOK, EmbedInv, NEW i \in Invocations, OcrStep(i)
    PROVE  EmbedInv'
<1> USE DEF Calls, OcrCalls, PipelineCalls
<1>1. chunks' \subseteq chunks /\ UNCHANGED inserts
  BY DEF OcrStep, ReadDocument, Begin, Recognize, Persist, Settle, Release, pipelineTables
<1>2. CASE ReadDocument(i)
  BY <1>1, <1>2, MovesOn DEF ReadDocument
<1>3. CASE Begin(i)
  BY <1>1, <1>3, MovesOn DEF Begin
<1>4. CASE Recognize(i)
  <2>1. \A result \in Results : Rows(result) \in PageTable
    BY RowsType
  <2> QED
    BY <1>1, <1>4, <2>1, MovesOn DEF Recognize
<1>5. CASE Persist(i)
  <2>1. (IF Low(runs[i].rows) # {} THEN "manual_review" ELSE "completed") \in Statuses
        /\ "completed" \in DocumentStatuses
    BY DEF Statuses, DocumentStatuses
  <2>2. \/ Conclude(i, IF Low(runs[i].rows) # {} THEN "manual_review" ELSE "completed", "completed")
        \/ Fail(i, FALSE)
    BY <1>5 DEF Persist
  <2> QED
    BY <1>1, <2>1, <2>2, MovesOn
<1>6. CASE Settle(i)
  BY <1>1, <1>6, MovesOn DEF Settle
<1>7. CASE Release(i)
  BY <1>1, <1>7, MovesOn DEF Release
<1> QED
  BY <1>2, <1>3, <1>4, <1>5, <1>6, <1>7 DEF OcrStep

\* New rows are rows of a new chunking.
LEMMA EmbedInsert ==
    ASSUME TypeOK, EmbedInv, NEW i \in Invocations, InsertChunks(i)
    PROVE  EmbedInv'
<1>1. inserts \in Nat /\ inserts' = inserts + 1
  BY DEF InsertChunks, TypeOK
<1>2. \A c \in chunks' \ chunks : c.insert = inserts
  BY DEF InsertChunks, Cut
<1>3. \A c \in chunks' : ~(c \in chunks) \/ c.insert < inserts
  BY DEF EmbedInv
<1>4. /\ \A k \in Invocations \ {i} : runs'[k] = runs[k]
      /\ runs'[i].pc # "embed" /\ runs'[i].batch = {}
  <2>1. PICK outcome \in Statuses : FinishAs(i, outcome)
    BY DEF InsertChunks, Statuses
  <2>2. Moved(i, [Idle EXCEPT !.pc = "finish", !.doc = Doc(i),
                              !.stage = runs[i].stage, !.outcome = outcome])
    BY <2>1, FinishMoves
  <2> QED
    BY <2>2 DEF Moved, Idle
<1>5. \A c \in chunks : c.insert \in Nat /\ c.insert < inserts
  BY DEF TypeOK, Chunk, EmbedInv
<1>6. \A k \in Invocations : \A c \in runs[k].batch : c.insert \in Nat /\ c.insert < inserts
  BY DEF TypeOK, Run, Chunk, EmbedInv
<1>7. \A c \in chunks' : c.insert < inserts'
  BY <1>1, <1>2, <1>5
<1>8. EmbeddedInOrder'
  <2> SUFFICES ASSUME NEW b \in chunks', NEW c \in chunks',
                      b.doc = c.doc, b.insert = c.insert, b.page < c.page, c.embedded
               PROVE  b.embedded
    BY DEF EmbeddedInOrder
  <2>1. c \in chunks
    BY DEF InsertChunks, Cut
  <2>2. b \in chunks
    BY <1>1, <1>2, <1>5, <2>1
  <2> QED
    BY <2>1, <2>2 DEF EmbedInv, EmbeddedInOrder
<1>9. ASSUME NEW k \in Invocations, At(k, "embed")', NEW c \in runs'[k].batch
      PROVE  Ahead(c, runs[k].batch)' /\ c.insert < inserts'
  <2>1. k # i /\ runs'[k] = runs[k]
    BY <1>4, <1>9 DEF At
  <2>2. Ahead(c, runs[k].batch) /\ c.insert \in Nat /\ c.insert < inserts
    BY <1>6, <1>9, <2>1 DEF EmbedInv, At
  <2>3. \A b \in chunks' : b.insert = c.insert => b \in chunks
    BY <1>1, <1>2, <2>2
  <2> QED
    BY <1>1, <2>1, <2>2, <2>3 DEF Ahead
<1>10. \A k \in Invocations : \A c \in runs'[k].batch : c.insert < inserts'
  BY <1>1, <1>4, <1>6
<1> QED
  BY <1>7, <1>8, <1>9, <1>10 DEF EmbedInv

\* A run begins to embed the first chunks that have no embedding.
LEMMA EmbedRead ==
    ASSUME TypeOK, EmbedInv, NEW i \in Invocations, NEW batch,
           batch \in First({c \in ChunksOf(Doc(i)) : ~c.embedded}, EmbedLimit),
           runs' = [runs EXCEPT ![i].pc = "embed", ![i].batch = batch],
           UNCHANGED <<chunks, inserts>>
    PROVE  EmbedInv'
<1>1. batch \in SUBSET chunks /\ batch \in SUBSET Chunk /\ chunks \subseteq Chunk
  BY DEF First, ChunksOf, TypeOK
<1>2. Moved(i, [runs[i] EXCEPT !.pc = "embed", !.batch = batch])
  BY <1>1, BatchMoves DEF Calls, PipelineCalls
<1>3. runs'[i].batch = batch /\ \A k \in Invocations \ {i} : runs'[k] = runs[k]
  BY <1>2 DEF Moved, TypeOK, Run
<1>4. ASSUME NEW c \in batch PROVE Ahead(c, batch)
  <2> SUFFICES ASSUME NEW b \in chunks, b.doc = c.doc, b.page < c.page, ~b.embedded
               PROVE  b \in batch
    BY DEF Ahead
  <2>1. b \in {x \in ChunksOf(Doc(i)) : ~x.embedded}
    BY DEF First, ChunksOf
  <2>2. b \notin batch => c.page =< b.page
    BY <2>1 DEF First
  <2>3. b.page \in Nat /\ c.page \in Nat
    BY <1>1, PagesAssumption DEF Chunk
  <2> QED
    BY <2>2, <2>3
<1>5. \A k \in Invocations : \A c \in runs'[k].batch : c.insert < inserts'
  BY <1>1, <1>3 DEF EmbedInv
<1>6. ASSUME NEW k \in Invocations, At(k, "embed")', NEW c \in runs'[k].batch
      PROVE  Ahead(c, runs[k].batch)'
  BY <1>3, <1>4, <1>6 DEF EmbedInv, At, Ahead
<1> QED
  BY <1>5, <1>6 DEF EmbedInv, EmbeddedInOrder

\* The first chunk of a batch gets its embedding, if it is still there.
LEMMA EmbedOne ==
    ASSUME TypeOK, EmbedInv, NEW i \in Invocations, At(i, "embed"), NEW c \in runs[i].batch,
           \A b \in runs[i].batch : c.page =< b.page,
           chunks' = IF c \in chunks THEN (chunks \ {c}) \cup {[c EXCEPT !.embedded = TRUE]}
                                     ELSE chunks,
           UNCHANGED inserts,
           \A k \in Invocations \ {i} : runs'[k] = runs[k],
           \/ runs'[i].pc # "embed" /\ runs'[i].batch = {}
           \/ runs'[i].batch = runs[i].batch \ {c}
    PROVE  EmbedInv'
<1>1. PICK e : e = [c EXCEPT !.embedded = TRUE]
  OBVIOUS
<1>2. c \in Chunk /\ runs[i].batch \subseteq Chunk /\ chunks \subseteq Chunk
  BY DEF TypeOK, Run
<1>3. e \in Chunk /\ e.doc = c.doc /\ e.insert = c.insert /\ e.page = c.page /\ e.embedded
  BY <1>1, <1>2 DEF Chunk
<1>4. /\ \A b \in chunks' : b \in chunks \/ (b = e /\ c \in chunks)
      /\ \A b \in chunks' : b # c \/ c \notin chunks \/ b.embedded
      /\ chunks' \subseteq Chunk
  BY <1>1, <1>2, <1>3
<1>5. Ahead(c, runs[i].batch) /\ c.insert < inserts
  BY DEF EmbedInv
\* What a batch leaves ahead stays ahead.
<1>6. ASSUME NEW x, NEW batch, Ahead(x, batch), NEW rest, rest = batch \/ rest = batch \ {c}
      PROVE  Ahead(x, rest)'
  BY <1>3, <1>4, <1>6 DEF Ahead
<1>7. EmbeddedInOrder'
  <2> SUFFICES ASSUME NEW b \in chunks', NEW x \in chunks', b.doc = x.doc, b.insert = x.insert,
                      b.page < x.page, x.embedded
               PROVE  b.embedded
    BY DEF EmbeddedInOrder
  <2>1. CASE b \notin chunks
    BY <1>3, <1>4, <2>1
  <2>2. CASE b \in chunks /\ x \in chunks
    BY <2>2 DEF EmbedInv, EmbeddedInOrder
  <2>3. CASE b \in chunks /\ x \notin chunks
    <3>1. x = e
      BY <1>4, <2>3
    <3>2. b.embedded \/ b \in runs[i].batch
      BY <1>3, <1>5, <2>3, <3>1 DEF Ahead
    <3>3. b \notin runs[i].batch
      <4>1. b.page \in Nat /\ c.page \in Nat /\ b.page < c.page
        BY <1>2, <1>3, <2>3, <3>1, PagesAssumption DEF Chunk
      <4> QED
        BY <4>1
    <3> QED
      BY <3>2, <3>3
  <2> QED
    BY <2>1, <2>2, <2>3
<1>8. \A b \in chunks' : b.insert < inserts'
  BY <1>3, <1>4, <1>5 DEF EmbedInv
<1>9. \A k \in Invocations : \A x \in runs'[k].batch : x.insert < inserts'
  <2>1. \A k \in Invocations : runs'[k].batch \subseteq runs[k].batch
    OBVIOUS
  <2> QED
    BY <2>1 DEF EmbedInv
<1>10. ASSUME NEW k \in Invocations, At(k, "embed")', NEW x \in runs'[k].batch
       PROVE  Ahead(x, runs[k].batch)'
  <2>1. CASE k # i
    <3>1. Ahead(x, runs[k].batch) /\ runs'[k].batch = runs[k].batch
      BY <1>10, <2>1 DEF EmbedInv, At
    <3> QED
      BY <1>6, <3>1 DEF Ahead
  <2>2. CASE k = i
    <3>1. Ahead(x, runs[i].batch) /\ runs'[i].batch = runs[i].batch \ {c}
      BY <1>10, <2>2 DEF EmbedInv, At
    <3> QED
      BY <1>6, <2>2, <3>1 DEF Ahead
  <2> QED
    BY <2>1, <2>2
<1> QED
  BY <1>7, <1>8, <1>9, <1>10 DEF EmbedInv

LEMMA EmbedPipeline ==
    ASSUME ShapeInv, EmbedInv, NEW i \in Invocations, PipelineStep(i)
    PROVE  EmbedInv'
<1> USE DEF Calls, OcrCalls, PipelineCalls
<1>0. TypeOK /\ {"completed", "failed", "manual_review"} \subseteq Statuses
  BY DEF ShapeInv, Statuses
<1>1. CASE Check(i)
  <2>1. FirstCall(runs[i].stage) \in Calls \ {"embed"}
    BY DEF FirstCall
  <2> QED
    BY <1>0, <1>1, <2>1, MovesOn DEF Check, pipelineTables
<1>2. CASE ReadPages(i)
  <2>1. pages[Doc(i)] \in PageTable
    BY <1>0, <1>2 DEF ReadPages, At, ShapeInv, PlaceInv, Placed, Doc, TypeOK
  <2> QED
    BY <1>0, <1>2, <2>1, MovesOn DEF ReadPages, pipelineTables
<1>3. CASE DeleteChunks(i)
  <2>1. chunks' \subseteq chunks /\ UNCHANGED inserts
    BY <1>3 DEF DeleteChunks, Write
  <2> QED
    BY <1>0, <1>3, <2>1, MovesOn DEF DeleteChunks
<1>4. CASE InsertChunks(i)
  BY <1>0, <1>4, EmbedInsert
<1>5. CASE ReadChunks(i)
  BY <1>0, <1>5, EmbedRead, MovesOn DEF ReadChunks, pipelineTables
<1>6. CASE Embed(i)
  <2>1. CASE FinishAs(i, "failed") /\ UNCHANGED chunks
    BY <1>0, <1>6, <2>1, MovesOn DEF Embed
  <2>2. ASSUME NEW c \in runs[i].batch,
               \A b \in runs[i].batch : c.page =< b.page,
               chunks' = IF c \in chunks THEN (chunks \ {c}) \cup {[c EXCEPT !.embedded = TRUE]}
                                         ELSE chunks,
               FinishAs(i, "completed") \/ runs' = [runs EXCEPT ![i].batch = @ \ {c}]
        PROVE  EmbedInv'
    <3>1. At(i, "embed") /\ UNCHANGED inserts
      BY <1>6 DEF Embed
    <3>2. CASE FinishAs(i, "completed")
      <4>1. Moved(i, [Idle EXCEPT !.pc = "finish", !.doc = Doc(i),
                                  !.stage = runs[i].stage, !.outcome = "completed"])
        BY <1>0, <3>2, FinishMoves
      <4>2. /\ \A k \in Invocations \ {i} : runs'[k] = runs[k]
            /\ runs'[i].pc # "embed" /\ runs'[i].batch = {}
        BY <4>1 DEF Moved, Idle
      <4> QED
        BY <1>0, <2>2, <3>1, <4>2, EmbedOne
    <3>3. CASE runs' = [runs EXCEPT ![i].batch = @ \ {c}]
      <4>1. Moved(i, [runs[i] EXCEPT !.batch = runs[i].batch \ {c}])
        BY <1>0, <3>3, ShrinkMoves
      <4>2. /\ \A k \in Invocations \ {i} : runs'[k] = runs[k]
            /\ runs'[i].batch = runs[i].batch \ {c}
        BY <1>0, <4>1 DEF Moved, TypeOK, Run
      <4> QED
        BY <1>0, <2>2, <3>1, <4>2, EmbedOne
    <3> QED
      BY <2>2, <3>2, <3>3
  <2> QED
    BY <1>6, <2>1, <2>2 DEF Embed
<1>7. CASE ReadContext(i)
  <2>1. \A batch \in First(ChunksOf(Doc(i)), AnalyzeLimit) : batch \in SUBSET chunks
    BY DEF First, ChunksOf
  <2> QED
    BY <1>0, <1>7, <2>1, MovesOn DEF ReadContext, pipelineTables
<1>8. CASE Analyze(i)
  BY <1>0, <1>8, MovesOn DEF Analyze
<1>9. CASE Finish(i)
  BY <1>0, <1>9, MovesOn DEF Finish, pipelineTables
<1> QED
  BY <1>1, <1>2, <1>3, <1>4, <1>5, <1>6, <1>7, <1>8, <1>9 DEF PipelineStep

\* No chunk is passed over: whatever the limit of the stage, the failures and
\* the runs beside it leave without an embedding comes after what has one.
THEOREM NoneIsPassedOver == Spec => []EmbeddedInOrder
<1>1. Init => EmbedInv
  BY DEF Init, EmbedInv, EmbeddedInOrder, Idle, At
<1>2. ShapeInv /\ EmbedInv /\ [Next]_vars => EmbedInv'
  <2> SUFFICES ASSUME ShapeInv, EmbedInv, [Next]_vars PROVE EmbedInv'
    OBVIOUS
  <2>0. TypeOK
    BY DEF ShapeInv
  <2>1. CASE UNCHANGED vars
    BY <2>1 DEF EmbedInv, EmbeddedInOrder, Ahead, At, vars, pipelineTables
  <2>2. ASSUME NEW i \in Invocations, NEW d \in Documents, NEW s \in Stages, Claim(i, d, s)
        PROVE  EmbedInv'
    <3> DEFINE r == [Idle EXCEPT !.pc = IF s = "ocr" THEN "document" ELSE "check",
                                 !.doc = d, !.stage = s, !.attempt = attempts'[d]]
    <3>1. Moved(i, r) /\ UNCHANGED <<chunks, inserts>>
      BY <2>0, <2>2, ClaimMoves DEF Claim, pipelineTables
    <3>2. r.pc # "embed" /\ r.batch = {}
      BY DEF Idle
    <3> HIDE DEF r
    <3> QED
      BY <3>1, <3>2, NotEmbedding
  <2>3. ASSUME NEW i \in Invocations, Die(i) PROVE EmbedInv'
    BY <2>0, <2>3, MovesOn DEF Die, pipelineTables
  <2> QED
    BY <2>0, <2>1, <2>2, <2>3, EmbedOcr, EmbedPipeline DEF Next
<1>3. EmbedInv => EmbeddedInOrder
  BY DEF EmbedInv
<1> QED
  BY <1>1, <1>2, <1>3, Shaped, PTL DEF Spec
=============================================================================
