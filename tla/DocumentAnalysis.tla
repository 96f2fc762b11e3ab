--------------------------- MODULE DocumentAnalysis ---------------------------
(***************************************************************************)
(* The analysis endpoints: POST /v1/analyze for a text, which runs in a     *)
(* thread of its own, and POST /v1/documents/analyze for an uploaded file,  *)
(* an async handler that runs DocumentWorkflow.process on the event loop:   *)
(* until it returns, nothing else on that loop runs.  The matter catalogue  *)
(* grows meanwhile.  Every call to it may raise; what answers the analysis, *)
(* a model or the heuristic, is ModelRouting's subject.                     *)
(***************************************************************************)
EXTENDS MatterCatalog

CONSTANTS
    Threads,
    Loop,        \* the event loop
    EmptyId,     \* a matter_id that is given and empty
    CallsMayFail

ASSUME LoopAssumption == Loop \notin Threads /\ CallsMayFail \in BOOLEAN
ASSUME EmptyAssumption == EmptyId \notin Matters \cup {NoMatter}

VARIABLE analysis   \* the request each thread and the loop works on

analysisVars == <<analysis, matters>>

Actors == Threads \cup {Loop}
GivenIds == Matters \cup {NoMatter, EmptyId}

\* given: matter_id of the request; type: the matter_type the analysis is made
\* with, that of the request at first; matter: the one the answer will name;
\* listed: history, the catalogue as it was when the document was matched.
Analysis ==
    [pc : {"idle", "extract", "check", "find", "load", "analyze", "verify"}, text : Texts,
     given : GivenIds, type : MatterTypes, listed : SUBSET Matters, matter : Matters \cup {NoMatter},
     status : {"none", "ok", "bad_request", "not_found", "error"}]

NewRequest(pc, t, m, y) ==
    [pc |-> pc, text |-> t, given |-> m, type |-> y, listed |-> {}, matter |-> NoMatter,
     status |-> "none"]

NoRequest ==
    NewRequest("idle", CHOOSE t \in Texts : TRUE, NoMatter, CHOOSE y \in MatterTypes : TRUE)

AnalysisTypeOK == analysis \in [Actors -> Analysis]

AnalysisInit ==
    /\ matters = {}
    /\ analysis = [a \in Actors |-> NoRequest]

Work(a, r) ==
    /\ analysis' = [analysis EXCEPT ![a] = r]
    /\ UNCHANGED matters
Go(a, pc) == Work(a, [analysis[a] EXCEPT !.pc = pc])
Refuse(a, status) == Work(a, [NoRequest EXCEPT !.status = status])
Raises(a) == CallsMayFail /\ Refuse(a, "error")

-----------------------------------------------------------------------------
\* Both endpoints.

\* What is in the text plays no part in the analysis of a text, nor does the type
\* of its matter.
RequestText(a, m) ==
    /\ analysis[a].pc = "idle"
    /\ Work(a, NewRequest("analyze", NoRequest.text, m, NoRequest.type))

RequestDocument(t, m, y) ==
    /\ analysis[Loop].pc = "idle"
    /\ Work(Loop, NewRequest("extract", t, m, y))

\* NativeDocumentParser turns whatever goes wrong into its own error, except
\* that nothing can go wrong with a plain text.
Parsed(format) ==
    CASE format = "plain" -> {"text", "blank"}
      [] format \in {"pdf", "docx"} -> {"text", "blank", "error"}
      [] OTHER -> {"error"}

\* DocumentExtractor: the size, the format, the parser, and whether a text is left.
Extracted(tooLarge, parsed) == ~tooLarge /\ parsed = "text"

\* The file, then the name of the task.
Extract ==
    /\ analysis[Loop].pc = "extract"
    /\ \E tooLarge, knownTask \in BOOLEAN, format \in {"plain", "pdf", "docx", "other"} :
          \E parsed \in Parsed(format) :
             IF Extracted(tooLarge, parsed) /\ knownTask
             THEN Go(Loop, IF analysis[Loop].given \in Matters THEN "check" ELSE "find")
             ELSE Refuse(Loop, "bad_request")

\* The matter is read once by the endpoint and once more by the workflow.
CheckMatter ==
    /\ analysis[Loop].pc = "check"
    /\ \/ analysis[Loop].given \notin matters /\ Refuse(Loop, "not_found")
       \/ analysis[Loop].given \in matters /\ Go(Loop, "find")
       \/ Raises(Loop)

\* The workflow looks an empty id up and raises, the endpoint let it pass.
FindMatter ==
    LET r == analysis[Loop]  match == BestMatch(r.text, matters)
    IN /\ r.pc = "find"
       /\ \/ /\ r.given \in Matters
             /\ Work(Loop, [r EXCEPT !.pc = "analyze", !.matter = r.given, !.type = TypeOf[r.given]])
          \/ /\ r.given = NoMatter
             /\ Work(Loop, [r EXCEPT !.pc = IF match = NoMatter THEN "analyze" ELSE "load",
                                     !.listed = matters, !.matter = match])
          \/ r.given = EmptyId /\ Refuse(Loop, "error")
          \/ Raises(Loop)

LoadMatched ==
    /\ analysis[Loop].pc = "load"
    /\ \/ Work(Loop, [analysis[Loop] EXCEPT !.pc = "analyze",
                                            !.type = TypeOf[analysis[Loop].matter]])
       \/ Raises(Loop)

\* RoutedLegalAnalyzer always answers.  The text endpoint looks for its matter
\* only afterwards.
Analyze(a) ==
    /\ analysis[a].pc = "analyze"
    /\ IF a # Loop /\ analysis[a].given \in Matters THEN Go(a, "verify")
       ELSE Work(a, [analysis[a] EXCEPT !.pc = "idle", !.status = "ok"])

\* Mutant: a matter that is not there is waited for.
VerifyMatterHopefully(a) ==
    /\ analysis[a].pc = "verify" /\ analysis[a].given \in matters
    /\ Work(a, [analysis[a] EXCEPT !.pc = "idle", !.status = "ok", !.matter = analysis[a].given])

VerifyMatter(a) ==
    /\ analysis[a].pc = "verify"
    /\ \/ analysis[a].given \notin matters /\ Refuse(a, "not_found")
       \/ /\ analysis[a].given \in matters
          /\ Work(a, [analysis[a] EXCEPT !.pc = "idle", !.status = "ok",
                                         !.matter = analysis[a].given])
       \/ Raises(a)

AnalysisStep(a) ==
    \/ a = Loop /\ (Extract \/ CheckMatter \/ FindMatter \/ LoadMatched)
    \/ a \in Threads /\ VerifyMatter(a)
    \/ Analyze(a)

AnalysisNext ==
    \/ \E a \in Actors : AnalysisStep(a)
    \/ \E a \in Threads, m \in GivenIds : RequestText(a, m)
    \/ \E t \in Texts, m \in GivenIds, y \in MatterTypes : RequestDocument(t, m, y)
    \/ \E m \in Matters : CreateMatter(m) /\ UNCHANGED analysis

AnalysisSpec == AnalysisInit /\ [][AnalysisNext]_analysisVars

-----------------------------------------------------------------------------
\* Properties.

\* A document that is said to belong to a matter was analysed as one of that
\* matter's type, and if nobody named the matter, its case number is in the
\* document and no other matter known at that moment scored as much
\* (MatterMatcher: ambiguous or weak matches return None).
AnalysisFitsMatter ==
    LET r == analysis[Loop]
    IN r.status = "ok" /\ r.matter # NoMatter =>
           /\ r.matter \in matters /\ r.type = TypeOf[r.matter]
           /\ r.given \in Matters => r.matter = r.given
           /\ r.given \notin Matters => r.matter \in r.listed /\ StrongIn(r.text, r.listed, r.matter)

\* Every request to analyse is answered.
AnalysesEnd == \A a \in Actors : analysis[a].pc # "idle" ~> analysis[a].pc = "idle"

-----------------------------------------------------------------------------
\* What makes AnalysisFitsMatter inductive.

\* The matter found for the document, by its id or by what the text says.
Fits(r) ==
    r.matter # NoMatter =>
        /\ r.matter \in matters
        /\ r.given \in Matters => r.matter = r.given
        /\ r.given \notin Matters => r.matter \in r.listed /\ StrongIn(r.text, r.listed, r.matter)

RequestInv(r) ==
    /\ r.pc # "idle" => r.status = "none"
    /\ r.pc \in {"extract", "check"} => r.matter = NoMatter
    /\ r.pc = "find" => r.matter = NoMatter /\ (r.given \in Matters => r.given \in matters)
    /\ r.pc = "load" => r.matter # NoMatter
    /\ r.pc \in {"load", "analyze"} \/ r.status = "ok" => Fits(r)
    /\ r.matter # NoMatter /\ (r.pc = "analyze" \/ r.status = "ok") => r.type = TypeOf[r.matter]
    /\ r.pc # "verify"

DocumentInv == RequestInv(analysis[Loop])
=============================================================================
