--------------------------- MODULE ApiServerProofs ----------------------------
(***************************************************************************)
(* Proofs about the API process, for every catalogue, text, comment and     *)
(* number of threads: documents and questions reach the right matter,       *)
(* answers stay inside it, and only harmless comments are answered, a       *)
(* bounded number of times.  They rest on ServerInv, whose parts concern     *)
(* one component each; an action of one leaves the others alone.            *)
(***************************************************************************)
EXTENDS ApiServer, FiniteSetTheorems, TLAPS

-----------------------------------------------------------------------------
\* The two matchers.

LEMMA MentionTyped ==
    ASSUME NEW t \in Texts, NEW m \in Matters
    PROVE  /\ Mention[t][m].number \in BOOLEAN
           /\ Mention[t][m].words \in Nat
           /\ Mention[t][m].clientTokens \in Nat
           /\ Mention[t][m].titleTokens \in Nat
<1>1. Mention[t][m] \in MentionType
  BY MentionAssumption
<1> QED
  BY <1>1 DEF MentionType

LEMMA ScoresTyped ==
    ASSUME NEW t \in Texts, NEW m \in Matters
    PROVE  ReferenceScore(t)[m] \in Nat /\ DocumentScore(t)[m] \in Nat
<1>1. ReferenceScore(t)[m] \in Nat
  BY MentionTyped DEF ReferenceScore, PartScore, Capped
<1>2. DocumentScore(t)[m] \in Nat
  BY MentionTyped DEF DocumentScore, Capped
<1> QED
  BY <1>1, <1>2

\* Who is referred to alone is ahead of every other matter.
LEMMA RouteIsClear ==
    ASSUME NEW t \in Texts, NEW S \in SUBSET Matters, Route(t, S) # NoMatter
    PROVE  /\ Route(t, S) \in S
           /\ \A k \in S \ {Route(t, S)} : ReferenceScore(t)[k] < ReferenceScore(t)[Route(t, S)]
<1>1. Cardinality(Referred(t, S)) = 1
  BY DEF Route
<1>2. Referred(t, S) \subseteq S
  BY DEF Referred, Best
<1>3. IsFiniteSet(Referred(t, S))
  BY <1>2, MatterAssumption, FS_Subset
<1>4. PICK m : Referred(t, S) = {m}
  BY <1>1, <1>3, FS_Singleton
<1>5. Route(t, S) = m
  BY <1>1, <1>4 DEF Route
<1>6. m \in S /\ ReferenceScore(t)[m] >= MinReference
      /\ \A k \in S : ReferenceScore(t)[k] <= ReferenceScore(t)[m]
  BY <1>4 DEF Referred, Best
<1>7. ASSUME NEW k \in S \ {m}
      PROVE  ReferenceScore(t)[k] < ReferenceScore(t)[m]
  <2>1. ReferenceScore(t)[k] \in Nat /\ ReferenceScore(t)[m] \in Nat
    BY <1>6, ScoresTyped
  <2>2. k \notin Referred(t, S)
    BY <1>4
  <2>3. ReferenceScore(t)[k] # ReferenceScore(t)[m]
    BY <1>6, <2>1, <2>2 DEF Referred, Best
  <2> QED
    BY <1>6, <2>1, <2>3
<1> QED
  BY <1>5, <1>6, <1>7

\* No number of title words and party names makes up for the case number.
LEMMA MatchIsStrong ==
    ASSUME NEW t \in Texts, NEW S \in SUBSET Matters, BestMatch(t, S) # NoMatter
    PROVE  BestMatch(t, S) \in S /\ StrongIn(t, S, BestMatch(t, S))
<1>1. PICK m \in Matches(t, S) : BestMatch(t, S) = m
  BY DEF BestMatch
<1>2. m \in S /\ DocumentScore(t)[m] >= 75
      /\ \A k \in S \ {m} :
            DocumentScore(t)[k] > 0 => DocumentScore(t)[m] >= DocumentScore(t)[k] + 11
  BY DEF Matches, Best, MinScore, Margin
<1>3. \A k \in S \ {m} : DocumentScore(t)[k] < DocumentScore(t)[m]
  BY <1>2, ScoresTyped
<1>4. Mention[t][m].number
  BY <1>2, MentionTyped DEF DocumentScore, Capped
<1> QED
  BY <1>1, <1>2, <1>3, <1>4 DEF StrongIn

-----------------------------------------------------------------------------
\* Questions about a matter.

LEMMA NoQuestionTyped ==
    /\ NoQuestion \in Research /\ QuestionInv(NoQuestion)
    /\ \A s \in {"failed", "needs_matter", "unavailable"} :
          [NoQuestion EXCEPT !.status = s] \in Research
             /\ QuestionInv([NoQuestion EXCEPT !.status = s])
<1> DEFINE t0 == CHOOSE t \in Texts : TRUE
<1>1. t0 \in Texts
  BY NonEmptyAssumption
<1> HIDE DEF t0
<1>2. NoQuestion = [pc |-> "idle", text |-> t0, routed |-> TRUE, matter |-> NoMatter,
                    listed |-> {}, rows |-> {}, recalled |-> {}, cited |-> {},
                    status |-> "none"]
  BY DEF NoQuestion, NewQuestion, t0
<1>3. NoQuestion \in Research
  BY <1>1, <1>2 DEF Research
<1>4. QuestionInv(NoQuestion)
  BY <1>2 DEF QuestionInv
<1>5. ASSUME NEW s \in {"failed", "needs_matter", "unavailable"}
      PROVE  /\ [NoQuestion EXCEPT !.status = s] \in Research
             /\ QuestionInv([NoQuestion EXCEPT !.status = s])
  <2>1. [NoQuestion EXCEPT !.status = s] \in Research
    BY <1>3, <1>5 DEF Research
  <2>2. QuestionInv([NoQuestion EXCEPT !.status = s])
    BY <1>2, <1>5 DEF QuestionInv
  <2> QED
    BY <2>1, <2>2
<1> QED
  BY <1>3, <1>4, <1>5

\* A question that is refused or fails tells nothing about a matter.
LEMMA RefusedFine ==
    ASSUME NEW a \in Researchers, NEW s \in {"failed", "needs_matter", "unavailable"},
           Refused(a, s)
    PROVE  \E r \in Research : QuestionInv(r) /\ Continue(a, r)
BY NoQuestionTyped DEF Refused

\* Each thread moves its own question, to one that is as it should be.
LEMMA QuestionMoves ==
    ASSUME ResearchTypeOK, ResearchInv, CatalogTypeOK, NEW a \in Researchers,
           NEW r \in Research, QuestionInv(r), Continue(a, r)
    PROVE  ResearchTypeOK' /\ ResearchInv'
BY DEF ResearchTypeOK, ResearchInv, Continue

LEMMA AskedFine ==
    ASSUME ResearchTypeOK, NEW a \in Researchers,
           (\E t \in Texts : AskCommand(a, t)) \/ (\E m \in Matters : AskEndpoint(a, m))
    PROVE  \E r \in Research : QuestionInv(r) /\ Continue(a, r)
<1>1. ASSUME NEW t \in Texts, AskCommand(a, t)
      PROVE  \E r \in Research : QuestionInv(r) /\ Continue(a, r)
  <2>1. NewQuestion(t, "route", NoMatter) \in Research
    BY DEF NewQuestion, Research
  <2>2. QuestionInv(NewQuestion(t, "route", NoMatter))
    BY DEF NewQuestion, QuestionInv
  <2> QED
    BY <1>1, <2>1, <2>2 DEF AskCommand
<1>2. ASSUME NEW m \in Matters, AskEndpoint(a, m)
      PROVE  \E r \in Research : QuestionInv(r) /\ Continue(a, r)
  <2>1. NoQuestion.text \in Texts
    BY NoQuestionTyped DEF Research
  <2>2. PICK t \in Texts : t = NoQuestion.text
    BY <2>1
  <2>3. m # NoMatter
    BY MatterAssumption
  <2>4. NewQuestion(t, "embed", m) \in Research
    BY <2>3 DEF NewQuestion, Research
  <2>5. QuestionInv(NewQuestion(t, "embed", m))
    BY <2>3 DEF NewQuestion, QuestionInv, RightMatter
  <2>6. CASE Refused(a, "unavailable")
    BY <2>6, RefusedFine
  <2>7. CASE Continue(a, NewQuestion(NoQuestion.text, "embed", m))
    BY <2>2, <2>4, <2>5, <2>7
  <2> QED
    BY <1>2, <2>6, <2>7 DEF AskEndpoint
<1> QED
  BY <1>1, <1>2

LEMMA RaisesFine ==
    ASSUME NEW a \in Researchers, ProviderRaises(a)
    PROVE  \E r \in Research : QuestionInv(r) /\ Continue(a, r)
BY RefusedFine DEF ProviderRaises, Fail

\* The matter of a command is settled by the catalogue it is routed with.
LEMMA RoutedFine ==
    ASSUME ResearchTypeOK, ResearchInv, CatalogTypeOK, NEW a \in Researchers, RouteCommand(a)
    PROVE  \E r \in Research : QuestionInv(r) /\ Continue(a, r)
<1>1. PICK q \in Research : q = research[a] /\ QuestionInv(q)
  BY DEF ResearchTypeOK, ResearchInv
<1>2. PICK m : m = Route(q.text, matters)
  OBVIOUS
<1>3. CASE ProviderRaises(a)
  BY <1>3, RaisesFine
<1>4. CASE Refused(a, "needs_matter")
  BY <1>4, RefusedFine
<1>5. CASE Refused(a, "unavailable")
  BY <1>5, RefusedFine
<1>6. CASE /\ m # NoMatter
           /\ Continue(a, [q EXCEPT !.pc = "embed", !.matter = m, !.listed = matters])
  <2> DEFINE r == [q EXCEPT !.pc = "embed", !.matter = m, !.listed = matters]
  <2>1. q.text \in Texts /\ matters \in SUBSET Matters
    BY DEF Research, CatalogTypeOK
  <2>2. /\ m \in matters
        /\ \A k \in matters \ {m} : ReferenceScore(q.text)[k] < ReferenceScore(q.text)[m]
    BY <1>2, <1>6, <2>1, RouteIsClear
  <2>3. r \in Research
    BY <2>1, <2>2 DEF Research
  <2>4. r.pc = "embed" /\ r.status = q.status /\ r.matter = m /\ r.listed = matters
        /\ r.text = q.text
    BY DEF Research
  <2>5. q.status = "none"
    BY <1>1 DEF RouteCommand, QuestionInv
  <2>6. RightMatter(r)
    BY <2>2, <2>4 DEF RightMatter
  <2>7. QuestionInv(r)
    BY <2>4, <2>5, <2>6 DEF QuestionInv
  <2> QED
    BY <1>6, <2>3, <2>7
<1> QED
  BY <1>1, <1>2, <1>3, <1>4, <1>5, <1>6 DEF RouteCommand

LEMMA EmbedFine ==
    ASSUME ResearchTypeOK, ResearchInv, NEW a \in Researchers, Embed(a)
    PROVE  \E r \in Research : QuestionInv(r) /\ Continue(a, r)
<1>1. PICK q \in Research : q = research[a] /\ QuestionInv(q) /\ q.pc = "embed"
  BY DEF ResearchTypeOK, ResearchInv, Embed
<1>2. CASE ProviderRaises(a)
  BY <1>2, RaisesFine
<1>3. CASE Continue(a, [q EXCEPT !.pc = "retrieve"])
  <2>1. [q EXCEPT !.pc = "retrieve"] \in Research
    BY DEF Research
  <2>2. QuestionInv([q EXCEPT !.pc = "retrieve"])
    BY <1>1 DEF QuestionInv, RightMatter, Research
  <2> QED
    BY <1>3, <2>1, <2>2
<1> QED
  BY <1>1, <1>2, <1>3 DEF Embed

LEMMA RetrieveFine ==
    ASSUME ResearchTypeOK, ResearchInv, NEW a \in Researchers, Retrieve(a)
    PROVE  \E r \in Research : QuestionInv(r) /\ Continue(a, r)
<1>1. PICK q \in Research : q = research[a] /\ QuestionInv(q) /\ q.pc = "retrieve"
  BY DEF ResearchTypeOK, ResearchInv, Retrieve
<1>2. CASE ProviderRaises(a)
  BY <1>2, RaisesFine
<1>3. CASE Fail(a)
  BY <1>3, RefusedFine DEF Fail
<1>4. CASE Continue(a, [q EXCEPT !.pc = "idle", !.status = "insufficient"])
  <2>1. [q EXCEPT !.pc = "idle", !.status = "insufficient"] \in Research
    BY DEF Research
  <2>2. QuestionInv([q EXCEPT !.pc = "idle", !.status = "insufficient"])
    BY <1>1 DEF QuestionInv, RightMatter, Research
  <2> QED
    BY <1>4, <2>1, <2>2
<1>5. ASSUME NEW rows \in SUBSET Chunks, ~Foreign(rows, q.matter),
             Continue(a, [q EXCEPT !.pc = "recall", !.rows = rows])
      PROVE  \E r \in Research : QuestionInv(r) /\ Continue(a, r)
  <2>1. [q EXCEPT !.pc = "recall", !.rows = rows] \in Research
    BY DEF Research
  <2>2. QuestionInv([q EXCEPT !.pc = "recall", !.rows = rows])
    BY <1>1, <1>5 DEF QuestionInv, RightMatter, Research
  <2> QED
    BY <1>5, <2>1, <2>2
<1> QED
  BY <1>1, <1>2, <1>3, <1>4, <1>5 DEF Retrieve

LEMMA RecallFine ==
    ASSUME ResearchTypeOK, ResearchInv, NEW a \in Researchers, Recall(a)
    PROVE  \E r \in Research : QuestionInv(r) /\ Continue(a, r)
<1>1. PICK q \in Research : q = research[a] /\ QuestionInv(q) /\ q.pc = "recall"
  BY DEF ResearchTypeOK, ResearchInv, Recall
<1>2. CASE ProviderRaises(a)
  BY <1>2, RaisesFine
<1>3. ASSUME NEW own \in SUBSET Memories, own \subseteq MemoriesOf(q.matter),
             Continue(a, [q EXCEPT !.pc = "answer", !.recalled = own])
      PROVE  \E r \in Research : QuestionInv(r) /\ Continue(a, r)
  <2>1. [q EXCEPT !.pc = "answer", !.recalled = own] \in Research
    BY DEF Research
  <2>2. QuestionInv([q EXCEPT !.pc = "answer", !.recalled = own])
    BY <1>1, <1>3 DEF QuestionInv, RightMatter, Research
  <2> QED
    BY <1>3, <2>1, <2>2
<1>4. ASSUME NEW found \in SUBSET Memories,
             Continue(a, [q EXCEPT !.pc = "answer",
                             !.recalled = IF found \subseteq MemoriesOf(q.matter)
                                          THEN found ELSE {}])
      PROVE  \E r \in Research : QuestionInv(r) /\ Continue(a, r)
  <2>1. CASE found \subseteq MemoriesOf(q.matter)
    BY <1>3, <1>4, <2>1
  <2>2. CASE ~(found \subseteq MemoriesOf(q.matter))
    BY <1>3, <1>4, <2>2
  <2> QED
    BY <2>1, <2>2
<1> QED
  BY <1>1, <1>2, <1>4 DEF Recall

LEMMA AnswerFine ==
    ASSUME ResearchTypeOK, ResearchInv, NEW a \in Researchers, Answer(a)
    PROVE  \E r \in Research : QuestionInv(r) /\ Continue(a, r)
<1>1. PICK q \in Research : q = research[a] /\ QuestionInv(q) /\ q.pc = "answer"
  BY DEF ResearchTypeOK, ResearchInv, Answer
<1>2. CASE ProviderRaises(a)
  BY <1>2, RaisesFine
<1>3. CASE Fail(a)
  BY <1>3, RefusedFine DEF Fail
<1>4. ASSUME NEW cited \in SUBSET (Chunks \cup {Invented}), Valid(cited, q.rows),
             Continue(a, [q EXCEPT !.pc = "idle", !.cited = cited, !.status = "answered"])
      PROVE  \E r \in Research : QuestionInv(r) /\ Continue(a, r)
  <2>1. [q EXCEPT !.pc = "idle", !.cited = cited, !.status = "answered"] \in Research
    BY DEF Research
  <2>2. QuestionInv([q EXCEPT !.pc = "idle", !.cited = cited, !.status = "answered"])
    BY <1>1, <1>4 DEF QuestionInv, RightMatter, Research
  <2> QED
    BY <1>4, <2>1, <2>2
<1> QED
  BY <1>1, <1>2, <1>3, <1>4 DEF Answer

LEMMA ResearchStepFine ==
    ASSUME ResearchTypeOK, ResearchInv, CatalogTypeOK, NEW a \in Researchers, ResearchStep(a)
    PROVE  \E r \in Research : QuestionInv(r) /\ Continue(a, r)
BY RoutedFine, EmbedFine, RetrieveFine, RecallFine, AnswerFine DEF ResearchStep

-----------------------------------------------------------------------------
\* Documents and texts to analyse.

LEMMA NoRequestTyped ==
    /\ NoRequest \in Analysis /\ RequestInv(NoRequest)
    /\ NoRequest.pc = "idle" /\ NoRequest.status = "none" /\ NoRequest.matter = NoMatter
    /\ \A s \in {"bad_request", "not_found", "error"} :
          [NoRequest EXCEPT !.status = s] \in Analysis
             /\ RequestInv([NoRequest EXCEPT !.status = s])
<1> DEFINE t0 == CHOOSE t \in Texts : TRUE
           y0 == CHOOSE y \in MatterTypes : TRUE
<1>1. t0 \in Texts /\ y0 \in MatterTypes
  BY NonEmptyAssumption
<1> HIDE DEF t0, y0
<1>2. NoRequest = [pc |-> "idle", text |-> t0, given |-> NoMatter, type |-> y0, listed |-> {},
                   matter |-> NoMatter, status |-> "none"]
  BY DEF NoRequest, NewRequest, t0, y0
<1>3. NoRequest \in Analysis
  BY <1>1, <1>2 DEF Analysis, GivenIds
<1>4. RequestInv(NoRequest)
  BY <1>2 DEF RequestInv
<1>5. ASSUME NEW s \in {"bad_request", "not_found", "error"}
      PROVE  /\ [NoRequest EXCEPT !.status = s] \in Analysis
             /\ RequestInv([NoRequest EXCEPT !.status = s])
  <2>1. [NoRequest EXCEPT !.status = s] \in Analysis
    BY <1>3, <1>5 DEF Analysis
  <2>2. RequestInv([NoRequest EXCEPT !.status = s])
    BY <1>2, <1>5 DEF RequestInv
  <2> QED
    BY <2>1, <2>2
<1> QED
  BY <1>2, <1>3, <1>4, <1>5

\* A request that is refused or raises names no matter.
LEMMA RefuseFine ==
    ASSUME NEW a \in Actors, NEW s \in {"bad_request", "not_found", "error"}, Refuse(a, s)
    PROVE  \E r \in Analysis : (a = Loop => RequestInv(r)) /\ Work(a, r)
BY NoRequestTyped DEF Refuse

LEMMA CallRaises ==
    ASSUME NEW a \in Actors, Raises(a)
    PROVE  \E r \in Analysis : (a = Loop => RequestInv(r)) /\ Work(a, r)
BY RefuseFine DEF Raises

LEMMA RequestMoves ==
    ASSUME AnalysisTypeOK, DocumentInv, CatalogTypeOK, NEW a \in Actors, NEW r \in Analysis,
           a = Loop => RequestInv(r), Work(a, r)
    PROVE  AnalysisTypeOK' /\ DocumentInv'
<1>1. analysis' = [analysis EXCEPT ![a] = r] /\ matters' = matters
  BY DEF Work
<1>2. AnalysisTypeOK'
  BY <1>1 DEF AnalysisTypeOK
<1>3. PICK q : q = analysis'[Loop]
  OBVIOUS
<1>4. RequestInv(q)
  BY <1>1, <1>3 DEF AnalysisTypeOK, DocumentInv, Actors
<1> QED
  BY <1>1, <1>2, <1>3, <1>4 DEF DocumentInv, RequestInv, Fits

\* What holds of a request holds of it in a larger catalogue.
LEMMA CatalogGrows ==
    ASSUME AnalysisTypeOK, DocumentInv, CatalogTypeOK, NEW m \in Matters, CreateMatter(m),
           UNCHANGED analysis
    PROVE  AnalysisTypeOK' /\ DocumentInv' /\ CatalogTypeOK'
<1>1. matters \subseteq matters' /\ matters' \subseteq Matters
  BY DEF CreateMatter, CatalogTypeOK
<1> QED
  BY <1>1 DEF AnalysisTypeOK, DocumentInv, RequestInv, Fits, CatalogTypeOK

LEMMA RequestedFine ==
    ASSUME NEW t \in Texts, NEW m \in GivenIds, NEW y \in MatterTypes, NEW a \in Actors,
           \/ a \in Threads /\ RequestText(a, m)
           \/ a = Loop /\ RequestDocument(t, m, y)
    PROVE  \E r \in Analysis : (a = Loop => RequestInv(r)) /\ Work(a, r)
<1>1. CASE a \in Threads /\ RequestText(a, m)
  <2>1. PICK u, z : u = NoRequest.text /\ z = NoRequest.type
    OBVIOUS
  <2>2. u \in Texts /\ z \in MatterTypes
    BY <2>1, NoRequestTyped DEF Analysis
  <2>3. NewRequest("analyze", u, m, z) \in Analysis
    BY <2>2 DEF NewRequest, Analysis
  <2>4. a # Loop
    BY <1>1, LoopAssumption
  <2> QED
    BY <1>1, <2>1, <2>3, <2>4 DEF RequestText
<1>2. CASE a = Loop /\ RequestDocument(t, m, y)
  <2>1. NewRequest("extract", t, m, y) \in Analysis
    BY DEF NewRequest, Analysis
  <2>2. RequestInv(NewRequest("extract", t, m, y))
    BY DEF NewRequest, RequestInv
  <2> QED
    BY <1>2, <2>1, <2>2 DEF RequestDocument
<1> QED
  BY <1>1, <1>2

LEMMA ExtractFine ==
    ASSUME AnalysisTypeOK, DocumentInv, Extract
    PROVE  \E r \in Analysis : RequestInv(r) /\ Work(Loop, r)
<1>1. PICK q \in Analysis : q = analysis[Loop] /\ RequestInv(q) /\ q.pc = "extract"
  BY DEF AnalysisTypeOK, DocumentInv, Extract, Actors
<1>2. CASE Refuse(Loop, "bad_request")
  BY <1>2, RefuseFine DEF Actors
<1>3. CASE Work(Loop, [q EXCEPT !.pc = "check"])
  <2>1. [q EXCEPT !.pc = "check"] \in Analysis
    BY DEF Analysis
  <2>2. RequestInv([q EXCEPT !.pc = "check"])
    BY <1>1 DEF RequestInv, Fits, Analysis
  <2> QED
    BY <1>3, <2>1, <2>2
<1>4. CASE q.given \notin Matters /\ Work(Loop, [q EXCEPT !.pc = "find"])
  <2>1. [q EXCEPT !.pc = "find"] \in Analysis
    BY DEF Analysis
  <2>2. RequestInv([q EXCEPT !.pc = "find"])
    BY <1>1, <1>4 DEF RequestInv, Fits, Analysis
  <2> QED
    BY <1>4, <2>1, <2>2
<1> QED
  BY <1>1, <1>2, <1>3, <1>4 DEF Extract, Go

LEMMA CheckMatterFine ==
    ASSUME AnalysisTypeOK, DocumentInv, CheckMatter
    PROVE  \E r \in Analysis : RequestInv(r) /\ Work(Loop, r)
<1>1. PICK q \in Analysis : q = analysis[Loop] /\ RequestInv(q) /\ q.pc = "check"
  BY DEF AnalysisTypeOK, DocumentInv, CheckMatter, Actors
<1>2. CASE Refuse(Loop, "not_found")
  BY <1>2, RefuseFine DEF Actors
<1>3. CASE Raises(Loop)
  BY <1>3, CallRaises DEF Actors
<1>4. CASE q.given \in matters /\ Work(Loop, [q EXCEPT !.pc = "find"])
  <2>1. [q EXCEPT !.pc = "find"] \in Analysis
    BY DEF Analysis
  <2>2. RequestInv([q EXCEPT !.pc = "find"])
    BY <1>1, <1>4 DEF RequestInv, Fits, Analysis
  <2> QED
    BY <1>4, <2>1, <2>2
<1> QED
  BY <1>1, <1>2, <1>3, <1>4 DEF CheckMatter, Go

\* The matter is the one that was named and found, or the best match.
LEMMA FindMatterFine ==
    ASSUME AnalysisTypeOK, DocumentInv, CatalogTypeOK, FindMatter
    PROVE  \E r \in Analysis : RequestInv(r) /\ Work(Loop, r)
<1>1. PICK q \in Analysis : q = analysis[Loop] /\ RequestInv(q) /\ q.pc = "find"
  BY DEF AnalysisTypeOK, DocumentInv, FindMatter, Actors
<1>2. PICK m : m = BestMatch(q.text, matters)
  OBVIOUS
<1>3. CASE Raises(Loop)
  BY <1>3, CallRaises DEF Actors
<1>4. CASE Refuse(Loop, "error")
  BY <1>4, RefuseFine DEF Actors
<1>5. CASE /\ q.given \in Matters
           /\ Work(Loop, [q EXCEPT !.pc = "analyze", !.matter = q.given,
                                   !.type = TypeOf[q.given]])
  <2> DEFINE r == [q EXCEPT !.pc = "analyze", !.matter = q.given, !.type = TypeOf[q.given]]
  <2>1. r \in Analysis
    BY <1>5, TypeAssumption DEF Analysis
  <2>2. /\ r.pc = "analyze" /\ r.status = q.status /\ r.matter = q.given /\ r.given = q.given
        /\ r.type = TypeOf[q.given]
    BY DEF Analysis
  <2>3. q.given \in matters /\ q.status = "none"
    BY <1>1, <1>5 DEF RequestInv
  <2>4. RequestInv(r)
    BY <1>5, <2>2, <2>3 DEF RequestInv, Fits
  <2> QED
    BY <1>5, <2>1, <2>4
<1>6. ASSUME NEW pc \in {"analyze", "load"}, q.given = NoMatter,
             pc = "analyze" <=> m = NoMatter,
             Work(Loop, [q EXCEPT !.pc = pc, !.listed = matters, !.matter = m])
      PROVE  \E r \in Analysis : RequestInv(r) /\ Work(Loop, r)
  <2> DEFINE r == [q EXCEPT !.pc = pc, !.listed = matters, !.matter = m]
  <2>1. q.text \in Texts /\ matters \in SUBSET Matters
    BY DEF Analysis, CatalogTypeOK
  <2>2. m # NoMatter => m \in matters /\ StrongIn(q.text, matters, m)
    BY <1>2, <2>1, MatchIsStrong
  <2>3. r \in Analysis
    BY <1>6, <2>1, <2>2 DEF Analysis
  <2>4. /\ r.pc = pc /\ r.status = q.status /\ r.matter = m /\ r.given = q.given
        /\ r.listed = matters /\ r.text = q.text
    BY DEF Analysis
  <2>5. q.status = "none" /\ q.given \notin Matters
    BY <1>1, <1>6, MatterAssumption DEF RequestInv
  <2>6. Fits(r)
    BY <2>2, <2>4, <2>5 DEF Fits
  <2>7. RequestInv(r)
    BY <1>6, <2>4, <2>5, <2>6 DEF RequestInv
  <2> QED
    BY <1>6, <2>3, <2>7
<1>7. CASE /\ q.given = NoMatter
           /\ Work(Loop, [q EXCEPT !.pc = IF m = NoMatter THEN "analyze" ELSE "load",
                                   !.listed = matters, !.matter = m])
  <2>1. CASE m = NoMatter
    BY <1>6, <1>7, <2>1
  <2>2. CASE m # NoMatter
    BY <1>6, <1>7, <2>2
  <2> QED
    BY <2>1, <2>2
<1> QED
  BY <1>1, <1>2, <1>3, <1>4, <1>5, <1>7 DEF FindMatter

LEMMA LoadMatchedFine ==
    ASSUME AnalysisTypeOK, DocumentInv, LoadMatched
    PROVE  \E r \in Analysis : RequestInv(r) /\ Work(Loop, r)
<1>1. PICK q \in Analysis : q = analysis[Loop] /\ RequestInv(q) /\ q.pc = "load"
  BY DEF AnalysisTypeOK, DocumentInv, LoadMatched, Actors
<1>2. CASE Raises(Loop)
  BY <1>2, CallRaises DEF Actors
<1>3. CASE Work(Loop, [q EXCEPT !.pc = "analyze", !.type = TypeOf[q.matter]])
  <2> DEFINE r == [q EXCEPT !.pc = "analyze", !.type = TypeOf[q.matter]]
  <2>1. q.matter \in Matters
    BY <1>1 DEF RequestInv, Analysis
  <2>2. r \in Analysis
    BY <2>1, TypeAssumption DEF Analysis
  <2>3. /\ r.pc = "analyze" /\ r.status = q.status /\ r.matter = q.matter /\ r.given = q.given
        /\ r.listed = q.listed /\ r.text = q.text /\ r.type = TypeOf[q.matter]
    BY DEF Analysis
  <2>4. Fits(r)
    BY <1>1, <2>3 DEF RequestInv, Fits
  <2>5. RequestInv(r)
    BY <1>1, <2>3, <2>4 DEF RequestInv
  <2> QED
    BY <1>3, <2>2, <2>5
<1> QED
  BY <1>1, <1>2, <1>3 DEF LoadMatched

LEMMA AnalyzeFine ==
    ASSUME AnalysisTypeOK, DocumentInv, NEW a \in Actors, Analyze(a)
    PROVE  \E r \in Analysis : (a = Loop => RequestInv(r)) /\ Work(a, r)
<1>1. PICK q \in Analysis : q = analysis[a] /\ (a = Loop => RequestInv(q)) /\ q.pc = "analyze"
  BY DEF AnalysisTypeOK, DocumentInv, Analyze
<1>2. CASE a # Loop /\ Work(a, [q EXCEPT !.pc = "verify"])
  <2>1. [q EXCEPT !.pc = "verify"] \in Analysis
    BY DEF Analysis
  <2> QED
    BY <1>2, <2>1
<1>3. CASE Work(a, [q EXCEPT !.pc = "idle", !.status = "ok"])
  <2> DEFINE r == [q EXCEPT !.pc = "idle", !.status = "ok"]
  <2>1. r \in Analysis
    BY DEF Analysis
  <2>2. a = Loop => RequestInv(r)
    BY <1>1 DEF RequestInv, Fits, Analysis
  <2> QED
    BY <1>3, <2>1, <2>2
<1> QED
  BY <1>1, <1>2, <1>3 DEF Analyze, Go

LEMMA VerifyMatterFine ==
    ASSUME AnalysisTypeOK, CatalogTypeOK, NEW a \in Threads, VerifyMatter(a)
    PROVE  \E r \in Analysis : (a = Loop => RequestInv(r)) /\ Work(a, r)
<1>0. a \in Actors /\ a # Loop
  BY LoopAssumption DEF Actors
<1>1. PICK q \in Analysis : q = analysis[a]
  BY <1>0 DEF AnalysisTypeOK
<1>2. CASE Refuse(a, "not_found")
  BY <1>0, <1>2, RefuseFine
<1>3. CASE Raises(a)
  BY <1>0, <1>3, CallRaises
<1>4. CASE /\ q.given \in matters
           /\ Work(a, [q EXCEPT !.pc = "idle", !.status = "ok", !.matter = q.given])
  <2>1. [q EXCEPT !.pc = "idle", !.status = "ok", !.matter = q.given] \in Analysis
    BY <1>4 DEF Analysis, CatalogTypeOK
  <2> QED
    BY <1>0, <1>4, <2>1
<1> QED
  BY <1>1, <1>2, <1>3, <1>4 DEF VerifyMatter

LEMMA AnalysisStepFine ==
    ASSUME AnalysisTypeOK, DocumentInv, CatalogTypeOK, NEW a \in Actors, AnalysisStep(a)
    PROVE  \E r \in Analysis : (a = Loop => RequestInv(r)) /\ Work(a, r)
<1>1. CASE a = Loop /\ (Extract \/ CheckMatter \/ FindMatter \/ LoadMatched)
  BY <1>1, ExtractFine, CheckMatterFine, FindMatterFine, LoadMatchedFine
<1>2. CASE a \in Threads /\ VerifyMatter(a)
  BY <1>2, VerifyMatterFine
<1>3. CASE Analyze(a)
  BY <1>3, AnalyzeFine
<1> QED
  BY <1>1, <1>2, <1>3 DEF AnalysisStep

-----------------------------------------------------------------------------
\* Comments and replies.

LEMMA PollerTyped ==
    ASSUME CommentsTypeOK, PollerInv
    PROVE  /\ Len(inbox) \in Nat /\ DOMAIN inbox = 1 .. Len(inbox)
           /\ DOMAIN replies = 1 .. Len(inbox)
           /\ \A i \in 1 .. Len(inbox) : inbox[i] \in Comments /\ replies[i] \in Nat
           /\ acked \in Nat /\ restarts \in Nat /\ poller.last \in Nat /\ poller.offset \in Nat
           /\ Current \in Nat /\ Current >= 1 /\ MaxComments \in Nat /\ MaxRestarts \in Nat
           /\ Confirmed \in Nat /\ Confirmed = Current - 1
<1>1. Len(inbox) \in Nat /\ DOMAIN inbox = 1 .. Len(inbox)
  BY DEF CommentsTypeOK
<1>2. poller.offset \in Nat /\ poller.last \in Nat
  BY TelegramBounds DEF CommentsTypeOK, Poller
<1>3. acked \in Nat /\ restarts \in Nat
  BY <1>1, TelegramBounds DEF CommentsTypeOK
<1>4. DOMAIN replies = 1 .. Len(inbox) /\ \A i \in 1 .. Len(inbox) : replies[i] \in Nat
  BY <1>1 DEF CommentsTypeOK
<1>5. \A i \in 1 .. Len(inbox) : inbox[i] \in Comments
  BY <1>1 DEF CommentsTypeOK
<1>6. Current \in Nat /\ Current >= 1 /\ Confirmed = Current - 1 /\ Confirmed \in Nat
  BY <1>2, <1>3 DEF Current, Confirmed
<1> QED
  BY <1>1, <1>2, <1>3, <1>4, <1>5, <1>6, TelegramBounds

\* The poller as a record, and what Current is of it.
LEMMA PollerFields ==
    ASSUME NEW p \in Poller
    PROVE  /\ p.pc \in {"idle", "send", "dead"} /\ p.sent \in BOOLEAN
           /\ p.offset \in 0 .. MaxComments + 1 /\ p.last \in Nat
BY DEF Poller

LEMMA NewPollerTyped ==
    ASSUME NEW n \in Nat
    PROVE  /\ NewPoller(n) \in Poller
           /\ NewPoller(n).pc = "idle" /\ NewPoller(n).offset = 0 /\ NewPoller(n).last = n
           /\ NewPoller(n).sent = FALSE
<1>1. 0 \in 0 .. MaxComments + 1
  BY TelegramBounds
<1> QED
  BY <1>1 DEF NewPoller, Poller

LEMMA DeadPollerTyped ==
    ASSUME NEW n \in Nat, NEW p, p = [pc |-> "dead", sent |-> FALSE, offset |-> 0, last |-> n]
    PROVE  p \in Poller /\ p.pc = "dead" /\ p.offset = 0 /\ p.last = n /\ p.sent = FALSE
<1>1. 0 \in 0 .. MaxComments + 1
  BY TelegramBounds
<1> QED
  BY <1>1 DEF Poller

LEMMA WriteCommentFine ==
    ASSUME CommentsTypeOK, PollerInv, NEW c \in Comments, WriteComment(c)
    PROVE  CommentsTypeOK' /\ PollerInv'
<1>1. PICK n \in Nat, r \in Nat, k \in Nat : n = Len(inbox) /\ r = restarts /\ k = Current
  BY PollerTyped
<1>2. /\ inbox' \in Seq(Comments) /\ Len(inbox') = n + 1 /\ n < MaxComments
      /\ \A i \in 1 .. n : inbox'[i] = inbox[i]
      /\ inbox \in Seq(Comments)
  BY <1>1, PollerTyped DEF WriteComment, CommentsTypeOK
<1>3. replies \in Seq(Nat) /\ Len(replies) = n
  BY <1>1, PollerTyped DEF CommentsTypeOK
<1>4. /\ replies' \in Seq(Nat) /\ Len(replies') = n + 1
      /\ (\A i \in 1 .. n : replies'[i] = replies[i]) /\ replies'[n + 1] = 0
  BY <1>3 DEF WriteComment
<1>5. acked' = acked /\ poller' = poller /\ restarts' = restarts /\ Current' = Current
  BY DEF WriteComment, Current
<1>6. replies' \in [DOMAIN inbox' -> Nat]
  BY <1>2, <1>4
<1>7. CommentsTypeOK'
  <2>1. acked' \in 0 .. Len(inbox') /\ poller'.last <= Len(inbox')
    BY <1>1, <1>2, <1>5, PollerTyped DEF CommentsTypeOK
  <2> QED
    BY <1>2, <1>5, <1>6, <2>1 DEF CommentsTypeOK
<1>8. PollerInv'
  <2>1. Len(inbox') <= MaxComments'
    BY <1>1, <1>2, PollerTyped
  <2>2. acked' < Current' /\ Current' <= poller'.last + 1
    BY <1>5 DEF PollerInv
  <2>3. poller'.pc = "send" => Current' <= poller'.last /\ Replies(inbox'[Current'])
    <3>1. poller.last <= n
      BY <1>1 DEF CommentsTypeOK
    <3> QED
      BY <1>1, <1>2, <1>5, <3>1, PollerTyped DEF PollerInv
  <2>4. poller'.sent => poller'.pc = "send"
    BY <1>5 DEF PollerInv
  <2>5. ASSUME NEW i \in 1 .. n + 1
        PROVE  /\ replies'[i] > 0 => Replies(inbox'[i])
               /\ replies'[i] <= restarts'
                     + (IF poller'.pc # "dead" /\ MayAnswer(i)' THEN 0 ELSE 1)
    <3>1. CASE i = n + 1
      BY <1>1, <1>4, <1>5, <3>1
    <3>2. CASE i \in 1 .. n
      <4>1. i \in DOMAIN inbox /\ replies'[i] = replies[i] /\ inbox'[i] = inbox[i]
        BY <1>1, <1>2, <1>4, <3>2, PollerTyped
      <4>2. MayAnswer(i)' <=> MayAnswer(i)
        BY <1>5 DEF MayAnswer
      <4> QED
        BY <1>5, <4>1, <4>2 DEF PollerInv
    <3> QED
      BY <3>1, <3>2
  <2>6. DOMAIN inbox' = 1 .. n + 1
    BY <1>2
  <2> QED
    BY <2>1, <2>2, <2>3, <2>4, <2>5, <2>6 DEF PollerInv
<1> QED
  BY <1>7, <1>8

\* Any step that leaves messages and replies alone, and after which no message
\* that could not be answered can be.
LEMMA PollerMoves ==
    ASSUME CommentsTypeOK, PollerInv, NEW p \in Poller, poller' = p,
           UNCHANGED <<inbox, replies>>, restarts' \in 0 .. MaxRestarts, restarts <= restarts',
           acked' \in 0 .. Len(inbox), p.last <= Len(inbox),
           acked' < Current', Current' <= p.last + 1,
           p.pc = "send" => Current' <= p.last /\ Replies(inbox[Current']),
           p.sent => p.pc = "send",
           \/ restarts < restarts'
           \/ p.pc = "dead"
           \/ poller.pc # "dead" /\ \A i \in DOMAIN inbox : MayAnswer(i)' => MayAnswer(i)
    PROVE  CommentsTypeOK' /\ PollerInv'
<1>1. PICK r \in Nat, s \in Nat : r = restarts /\ s = restarts'
  BY PollerTyped
<1>2. CommentsTypeOK'
  BY DEF CommentsTypeOK
<1>3. ASSUME NEW i \in DOMAIN inbox
      PROVE  /\ replies'[i] > 0 => Replies(inbox'[i])
             /\ replies'[i] <= restarts'
                   + (IF poller'.pc # "dead" /\ MayAnswer(i)' THEN 0 ELSE 1)
  <2>1. PICK q \in Nat : q = replies[i] /\ q = replies'[i]
    BY PollerTyped
  <2>2. q > 0 => Replies(inbox[i])
    BY <2>1 DEF PollerInv
  <2>3. q <= r + (IF poller.pc # "dead" /\ MayAnswer(i) THEN 0 ELSE 1)
    BY <1>1, <2>1 DEF PollerInv
  <2>4. q <= s + (IF p.pc # "dead" /\ MayAnswer(i)' THEN 0 ELSE 1)
    <3>1. CASE r < s
      BY <1>1, <2>1, <2>3, <3>1
    <3>2. CASE p.pc = "dead"
      BY <1>1, <2>1, <2>3, <3>2
    <3>3. CASE poller.pc # "dead" /\ (MayAnswer(i)' => MayAnswer(i))
      BY <1>1, <2>1, <2>3, <3>3
    <3> QED
      BY <1>1, <3>1, <3>2, <3>3
  <2> QED
    BY <1>1, <2>1, <2>2, <2>4
<1>4. PollerInv'
  BY <1>3 DEF PollerInv
<1> QED
  BY <1>2, <1>4

LEMMA FetchFine ==
    ASSUME CommentsTypeOK, PollerInv, Fetch
    PROVE  CommentsTypeOK' /\ PollerInv'
<1>1. PICK p \in Poller : p = poller /\ p.pc = "idle"
  BY DEF CommentsTypeOK, Fetch
<1>2. PICK n \in Nat, k \in Nat : n = Len(inbox) /\ k = Current
  BY PollerTyped
<1> DEFINE q == [p EXCEPT !.last = n]
<1>3. q \in Poller /\ q.pc = "idle" /\ q.last = n /\ q.sent = p.sent /\ q.offset = p.offset
  BY <1>1 DEF Poller
<1>4. poller' = q /\ acked' = k - 1 /\ UNCHANGED <<inbox, replies, restarts>>
  BY <1>1, <1>2, PollerTyped DEF Fetch
<1>5. k > p.last /\ k <= p.last + 1 /\ p.last <= n /\ p.last \in Nat /\ k >= 1
  BY <1>1, <1>2, PollerTyped DEF Fetch, PollerInv, CommentsTypeOK
<1>6. Current' = k
  BY <1>1, <1>2, <1>3, <1>4, PollerTyped DEF Current
<1>7. \A i \in DOMAIN inbox : MayAnswer(i)' => MayAnswer(i)
  BY <1>1, <1>2, <1>3, <1>4, <1>6 DEF MayAnswer
<1>8. ~p.sent
  BY <1>1 DEF PollerInv
<1>9. acked' \in 0 .. Len(inbox) /\ q.last <= Len(inbox)
  BY <1>2, <1>3, <1>4, <1>5
<1>10. restarts' \in 0 .. MaxRestarts /\ restarts <= restarts'
  BY <1>4, PollerTyped DEF CommentsTypeOK
<1>11. acked' < Current' /\ Current' <= q.last + 1
  BY <1>3, <1>4, <1>5, <1>6
<1>12. poller.pc # "dead" /\ ~q.sent /\ q.pc # "send"
  BY <1>1, <1>3, <1>8
<1> HIDE DEF q
<1> QED
  BY <1>3, <1>4, <1>7, <1>9, <1>10, <1>11, <1>12, PollerMoves

LEMMA FetchRaisedFine ==
    ASSUME CommentsTypeOK, PollerInv, FetchRaised
    PROVE  CommentsTypeOK' /\ PollerInv'
<1>0. acked' \in Nat
  BY PollerTyped DEF FetchRaised
<1>1. PICK n, k, a : n = Len(inbox) /\ k = Current /\ a = acked'
  OBVIOUS
<1>11. n \in Nat /\ k \in Nat /\ a \in Nat
  BY <1>0, <1>1, PollerTyped
<1>2. a <= k - 1 /\ k <= n + 1 /\ k >= 1
  BY <1>1, <1>11, PollerTyped DEF FetchRaised, PollerInv, CommentsTypeOK
<1> DEFINE q == [pc |-> "dead", sent |-> FALSE, offset |-> 0, last |-> a]
<1>3. q \in Poller /\ q.pc = "dead" /\ q.offset = 0 /\ q.last = a /\ q.sent = FALSE
  BY <1>11, DeadPollerTyped
<1>4. poller' = q /\ UNCHANGED <<inbox, replies, restarts>>
  BY <1>1 DEF FetchRaised, NewPoller
<1> HIDE DEF q
<1>5. Current' = a + 1
  BY <1>1, <1>3, <1>4 DEF Current
<1>6. acked' \in 0 .. Len(inbox) /\ q.last <= Len(inbox)
  BY <1>1, <1>11, <1>2, <1>3
<1>7. restarts' \in 0 .. MaxRestarts /\ restarts <= restarts'
  BY <1>4, PollerTyped DEF CommentsTypeOK
<1>8. acked' < Current'
  <2>1. acked' = a
    BY <1>1
  <2>2. a < a + 1
    BY <1>11
  <2> QED
    BY <1>5, <2>1, <2>2
<1>9. Current' <= q.last + 1
  BY <1>11, <1>3, <1>5
<1> QED
  BY <1>8, <1>9, <1>3, <1>4, <1>5, <1>6, <1>7, PollerMoves

LEMMA MoveOnFine ==
    ASSUME CommentsTypeOK, PollerInv, MoveOn, poller.pc # "dead", Current <= poller.last,
           UNCHANGED <<inbox, acked, replies, restarts>>
    PROVE  CommentsTypeOK' /\ PollerInv'
<1>1. PICK p \in Poller : p = poller
  BY DEF CommentsTypeOK
<1>2. PICK n \in Nat, k \in Nat : n = Len(inbox) /\ k = Current
  BY PollerTyped
<1>3. k <= p.last /\ p.last <= n /\ n <= MaxComments /\ p.last \in Nat
  BY <1>1, <1>2, PollerTyped DEF CommentsTypeOK, PollerInv
<1>4. k + 1 \in 0 .. MaxComments + 1
  BY <1>3, TelegramBounds
<1> DEFINE q == [p EXCEPT !.pc = "idle", !.sent = FALSE, !.offset = k + 1]
<1>5. q \in Poller /\ q.pc = "idle" /\ q.last = p.last /\ q.sent = FALSE /\ q.offset = k + 1
  BY <1>4 DEF Poller
<1>6. poller' = q
  BY <1>1, <1>2 DEF MoveOn
<1>7. Current' = k + 1
  BY <1>5, <1>6 DEF Current
<1>8. \A i \in DOMAIN inbox : MayAnswer(i)' => MayAnswer(i)
  <2>1. DOMAIN inbox \subseteq Nat
    BY PollerTyped
  <2> QED
    BY <1>2, <1>7, <2>1 DEF MayAnswer
<1>9. restarts' \in 0 .. MaxRestarts /\ restarts <= restarts'
  BY PollerTyped DEF CommentsTypeOK
<1>10. acked' \in 0 .. Len(inbox) /\ acked' < Current'
  BY <1>2, <1>7, PollerTyped DEF CommentsTypeOK, PollerInv
<1>11. q.last <= Len(inbox) /\ Current' <= q.last + 1 /\ q.pc # "send" /\ ~q.sent
  BY <1>2, <1>3, <1>5, <1>7
<1> HIDE DEF q
<1> QED
  BY <1>5, <1>6, <1>8, <1>9, <1>10, <1>11, PollerMoves

LEMMA HandleCommentFine ==
    ASSUME CommentsTypeOK, PollerInv, HandleComment
    PROVE  CommentsTypeOK' /\ PollerInv'
<1>1. PICK p \in Poller : p = poller /\ p.pc = "idle"
  BY DEF CommentsTypeOK, HandleComment
<1>2. CASE ~Replies(inbox[Current])
  BY <1>1, <1>2, MoveOnFine DEF HandleComment
<1>3. CASE Replies(inbox[Current])
  <2> DEFINE q == [p EXCEPT !.pc = "send"]
  <2>1. q \in Poller /\ q.pc = "send" /\ q.last = p.last /\ q.sent = p.sent
        /\ q.offset = p.offset
    BY DEF Poller
  <2>2. poller' = q /\ UNCHANGED <<inbox, acked, replies, restarts>>
    BY <1>1, <1>3 DEF HandleComment
  <2>3. Current' = Current
    BY <1>1, <2>1, <2>2 DEF Current
  <2>4. \A i \in DOMAIN inbox : MayAnswer(i)' => MayAnswer(i)
    BY <1>1, <2>1, <2>2, <2>3 DEF MayAnswer
  <2>5. restarts' \in 0 .. MaxRestarts /\ restarts <= restarts'
    BY <2>2, PollerTyped DEF CommentsTypeOK
  <2>6. acked' \in 0 .. Len(inbox) /\ acked' < Current'
    BY <2>2, <2>3 DEF CommentsTypeOK, PollerInv
  <2>7. Current' <= q.last /\ Current' <= q.last + 1 /\ q.last <= Len(inbox)
    BY <1>1, <2>1, <2>3, PollerTyped DEF HandleComment, CommentsTypeOK
  <2> QED
    BY <1>1, <1>3, <2>1, <2>2, <2>3, <2>4, <2>5, <2>6, <2>7, PollerMoves
<1> QED
  BY <1>2, <1>3

LEMMA SendEndsFine ==
    ASSUME CommentsTypeOK, PollerInv, SendEnds
    PROVE  CommentsTypeOK' /\ PollerInv'
BY MoveOnFine DEF SendEnds, PollerInv

LEMMA PollerStepFine ==
    ASSUME CommentsTypeOK, PollerInv, PollerStep
    PROVE  CommentsTypeOK' /\ PollerInv'
BY FetchFine, FetchRaisedFine, HandleCommentFine, SendEndsFine DEF PollerStep

\* The message the poller waits for has one reply more, and it is a message that
\* may have one.
LEMMA PostReplyFine ==
    ASSUME CommentsTypeOK, PollerInv, PostReply
    PROVE  CommentsTypeOK' /\ PollerInv'
<1>1. PICK p \in Poller : p = poller /\ p.pc = "send" /\ ~p.sent
  BY DEF CommentsTypeOK, PostReply
<1>2. PICK n \in Nat, k \in Nat, r \in Nat : n = Len(inbox) /\ k = Current /\ r = restarts
  BY PollerTyped
<1>3. /\ k \in 1 .. n /\ Replies(inbox[k])
      /\ DOMAIN inbox = 1 .. n /\ DOMAIN replies = 1 .. n
  BY <1>1, <1>2, PollerTyped DEF PollerInv, CommentsTypeOK
<1> DEFINE q == [p EXCEPT !.sent = TRUE]
<1>4. q \in Poller /\ q.pc = "send" /\ q.last = p.last /\ q.offset = p.offset
  BY <1>1 DEF Poller
<1>5. q.sent
  BY <1>1 DEF Poller
<1>6. poller' = q /\ UNCHANGED <<inbox, acked, restarts>>
  BY <1>1 DEF PostReply
<1>7. replies' = [replies EXCEPT ![k] = replies[k] + 1]
  BY <1>2 DEF PostReply
<1>8. replies' \in [DOMAIN inbox' -> Nat]
  BY <1>3, <1>6, <1>7 DEF CommentsTypeOK
<1>9. Current' = k
  BY <1>1, <1>2, <1>4, <1>6 DEF Current
<1>10. CommentsTypeOK'
  BY <1>1, <1>4, <1>6, <1>8 DEF CommentsTypeOK
<1>11. ASSUME NEW i \in 1 .. n
       PROVE  /\ replies'[i] > 0 => Replies(inbox'[i])
              /\ replies'[i] <= restarts'
                    + (IF poller'.pc # "dead" /\ MayAnswer(i)' THEN 0 ELSE 1)
  <2>1. CASE i = k
    <3>1. replies[k] <= r /\ replies[k] \in Nat
      BY <1>1, <1>2, <1>3, PollerTyped DEF PollerInv, MayAnswer
    <3>2. replies'[k] = replies[k] + 1
      BY <1>3, <1>7
    <3>3. ~MayAnswer(i)'
      BY <1>5, <1>6, <1>9, <2>1 DEF MayAnswer
    <3>4. replies'[i] <= restarts' + 1
      BY <1>2, <1>6, <2>1, <3>1, <3>2
    <3> QED
      BY <1>3, <1>6, <2>1, <3>3, <3>4
  <2>2. CASE i # k
    <3>1. replies'[i] = replies[i]
      BY <1>3, <1>7, <2>2
    <3>2. MayAnswer(i)' <=> MayAnswer(i)
      BY <1>2, <1>9, <2>2 DEF MayAnswer
    <3> QED
      BY <1>1, <1>3, <1>4, <1>6, <3>1, <3>2 DEF PollerInv
  <2> QED
    BY <2>1, <2>2
<1>12. PollerInv'
  <2>1. DOMAIN inbox' = 1 .. n
    BY <1>3, <1>6
  <2>2. Len(inbox') <= MaxComments'
    BY <1>6 DEF PollerInv
  <2>3. acked' < Current' /\ Current' <= poller'.last + 1
    BY <1>1, <1>2, <1>4, <1>6, <1>9 DEF PollerInv
  <2>4. Current' <= poller'.last /\ Replies(inbox'[Current'])
    BY <1>1, <1>2, <1>3, <1>4, <1>6, <1>9 DEF PollerInv
  <2> QED
    BY <1>4, <1>6, <1>11, <2>1, <2>2, <2>3, <2>4 DEF PollerInv
<1> QED
  BY <1>10, <1>12

LEMMA RestartPollerFine ==
    ASSUME CommentsTypeOK, PollerInv, RestartPoller
    PROVE  CommentsTypeOK' /\ PollerInv'
<1>1. PICK n \in Nat, a \in Nat, r \in Nat : n = Len(inbox) /\ a = acked /\ r = restarts
  BY PollerTyped
<1>2. PICK q \in Poller : q = NewPoller(a) /\ q.pc = "idle" /\ q.offset = 0 /\ q.last = a
                          /\ q.sent = FALSE
  BY NewPollerTyped
<1>3. poller' = q /\ UNCHANGED <<inbox, acked, replies>> /\ restarts' = r + 1
      /\ r < MaxRestarts
  BY <1>1, <1>2 DEF RestartPoller
<1>4. Current' = a + 1
  BY <1>1, <1>2, <1>3 DEF Current
<1>5. restarts' \in 0 .. MaxRestarts /\ restarts < restarts'
  BY <1>1, <1>3, TelegramBounds
<1>6. acked' \in 0 .. Len(inbox) /\ q.last <= Len(inbox)
  BY <1>1, <1>2, <1>3, PollerTyped DEF CommentsTypeOK
<1>7. acked' < Current' /\ Current' <= q.last + 1 /\ restarts <= restarts'
  BY <1>1, <1>2, <1>3, <1>4
<1> QED
  BY <1>2, <1>3, <1>5, <1>6, <1>7, PollerMoves

-----------------------------------------------------------------------------
\* The process.

LEMMA InitFine ==
    ASSUME Init
    PROVE  ServerInv
<1>1. CatalogTypeOK /\ AnalysisTypeOK
  BY NoRequestTyped DEF Init, AnalysisInit, CatalogTypeOK, AnalysisTypeOK
<1>2. DocumentInv
  <2>1. analysis[Loop] = NoRequest
    BY DEF Init, AnalysisInit, Actors
  <2> QED
    BY <2>1, NoRequestTyped DEF DocumentInv
<1>3. ResearchTypeOK /\ ResearchInv
  BY NoQuestionTyped DEF Init, ResearchInit, ResearchTypeOK, ResearchInv
<1>4. PICK p \in Poller : p = NewPoller(0) /\ p.pc = "idle" /\ p.offset = 0 /\ p.last = 0
                          /\ p.sent = FALSE
  BY NewPollerTyped
<1>5. poller = p /\ inbox = << >> /\ replies = << >> /\ acked = 0 /\ restarts = 0
  BY <1>4 DEF Init, CommentsInit
<1>6. Len(inbox) = 0 /\ inbox \in Seq(Comments) /\ DOMAIN inbox = {} /\ Current = 1
  BY <1>4, <1>5 DEF Current
<1>7. replies \in [DOMAIN inbox -> Nat]
  BY <1>5
<1>8. CommentsTypeOK
  BY <1>4, <1>5, <1>6, <1>7, TelegramBounds DEF CommentsTypeOK
<1>9. PollerInv
  BY <1>4, <1>5, <1>6, TelegramBounds DEF PollerInv
<1>10. requests \in 0 .. MaxRequests
  BY RequestsBound DEF Init
<1> QED
  BY <1>1, <1>2, <1>3, <1>8, <1>9, <1>10 DEF ServerInv, TypeOK

\* A step that leaves a component's variables alone leaves its part alone.
LEMMA AnalysisFrame ==
    ASSUME CatalogTypeOK, AnalysisTypeOK, DocumentInv, UNCHANGED <<matters, analysis>>
    PROVE  CatalogTypeOK' /\ AnalysisTypeOK' /\ DocumentInv'
BY DEF CatalogTypeOK, AnalysisTypeOK, DocumentInv, RequestInv, Fits

LEMMA ResearchFrame ==
    ASSUME ResearchTypeOK, ResearchInv, UNCHANGED <<research, configured>>
    PROVE  ResearchTypeOK' /\ ResearchInv'
BY DEF ResearchTypeOK, ResearchInv

LEMMA CommentsFrame ==
    ASSUME CommentsTypeOK, PollerInv, UNCHANGED commentVars
    PROVE  CommentsTypeOK' /\ PollerInv'
<1>1. Current' = Current /\ \A i : MayAnswer(i)' <=> MayAnswer(i)
  BY DEF commentVars, Current, MayAnswer
<1> QED
  BY <1>1 DEF commentVars, CommentsTypeOK, PollerInv

LEMMA AnalysisMoves ==
    ASSUME ServerInv, NEW a \in Actors,
           \E r \in Analysis : (a = Loop => RequestInv(r)) /\ Work(a, r)
    PROVE  CatalogTypeOK' /\ AnalysisTypeOK' /\ DocumentInv'
BY RequestMoves DEF ServerInv, TypeOK, Work, CatalogTypeOK

LEMMA Counted ==
    ASSUME ServerInv, Accept
    PROVE  requests' \in 0 .. MaxRequests
BY RequestsBound DEF ServerInv, TypeOK, Accept

LEMMA StepFine ==
    ASSUME ServerInv, [Next]_serverVars
    PROVE  ServerInv'
<1> USE DEF ServerInv, TypeOK
<1>1. ASSUME NEW a \in Actors, AcceptAnalysis(a)
      PROVE  ServerInv'
  <2>1. \E r \in Analysis : (a = Loop => RequestInv(r)) /\ Work(a, r)
    BY <1>1, RequestedFine DEF AcceptAnalysis
  <2>2. requests' \in 0 .. MaxRequests
    BY <1>1, Counted DEF AcceptAnalysis
  <2>3. UNCHANGED <<research, configured>> /\ UNCHANGED commentVars
    BY <1>1 DEF AcceptAnalysis
  <2> QED
    BY <2>1, <2>2, <2>3, AnalysisMoves, ResearchFrame, CommentsFrame
<1>2. ASSUME NEW a \in Actors, WorkOnAnalysis(a)
      PROVE  ServerInv'
  <2>1. \E r \in Analysis : (a = Loop => RequestInv(r)) /\ Work(a, r)
    BY <1>2, AnalysisStepFine DEF WorkOnAnalysis
  <2>2. UNCHANGED <<research, configured>> /\ UNCHANGED commentVars /\ requests' = requests
    BY <1>2 DEF WorkOnAnalysis
  <2> QED
    BY <2>1, <2>2, AnalysisMoves, ResearchFrame, CommentsFrame
<1>3. ASSUME NEW a \in Researchers, \E r \in Research : QuestionInv(r) /\ Continue(a, r),
             UNCHANGED <<analysis, commentVars>>, requests' \in 0 .. MaxRequests
      PROVE  ServerInv'
  <2>1. UNCHANGED <<matters, analysis>> /\ UNCHANGED commentVars
    BY <1>3 DEF Continue
  <2>2. ResearchTypeOK' /\ ResearchInv'
    BY <1>3, QuestionMoves
  <2> QED
    BY <1>3, <2>1, <2>2, AnalysisFrame, CommentsFrame
<1>4. ASSUME NEW a \in Threads, AcceptQuestion(a)
      PROVE  ServerInv'
  <2>1. a \in Researchers
    BY ThreadAssumption
  <2>2. \E r \in Research : QuestionInv(r) /\ Continue(a, r)
    BY <1>4, <2>1, AskedFine DEF AcceptQuestion
  <2>3. requests' \in 0 .. MaxRequests /\ UNCHANGED <<analysis, commentVars>>
    BY <1>4, Counted DEF AcceptQuestion
  <2> QED
    BY <1>3, <2>1, <2>2, <2>3
<1>5. ASSUME NEW a \in Threads, WorkOnQuestion(a)
      PROVE  ServerInv'
  <2>1. a \in Researchers
    BY ThreadAssumption
  <2>2. \E r \in Research : QuestionInv(r) /\ Continue(a, r)
    BY <1>5, <2>1, ResearchStepFine DEF WorkOnQuestion
  <2>3. requests' = requests /\ UNCHANGED <<analysis, commentVars>>
    BY <1>5 DEF WorkOnQuestion
  <2> QED
    BY <1>3, <2>1, <2>2, <2>3
<1>6. ASSUME NEW m \in Matters, AddMatter(m)
      PROVE  ServerInv'
  <2>1. /\ CreateMatter(m) /\ UNCHANGED analysis /\ UNCHANGED <<research, configured>>
        /\ UNCHANGED commentVars /\ requests' = requests
    BY <1>6 DEF AddMatter
  <2> QED
    BY <2>1, CatalogGrows, ResearchFrame, CommentsFrame
<1>7. ASSUME CommentsTypeOK' /\ PollerInv', UNCHANGED <<matters, analysis, research, configured>>,
             requests' \in 0 .. MaxRequests
      PROVE  ServerInv'
  <2>1. UNCHANGED <<matters, analysis>> /\ UNCHANGED <<research, configured>>
    BY <1>7
  <2> QED
    BY <1>7, <2>1, AnalysisFrame, ResearchFrame
<1>8. CASE Poll
  <2>1. CommentsTypeOK' /\ PollerInv'
    BY <1>8, PollerStepFine DEF Poll
  <2> QED
    BY <1>7, <1>8, <2>1 DEF Poll
<1>9. CASE Write
  <2>1. CommentsTypeOK' /\ PollerInv'
    BY <1>9, WriteCommentFine DEF Write
  <2>2. requests' \in 0 .. MaxRequests
    BY <1>9, Counted DEF Write
  <2> QED
    BY <1>7, <1>9, <2>1, <2>2 DEF Write
<1>10. CASE Post
  <2>1. CommentsTypeOK' /\ PollerInv'
    BY <1>10, PostReplyFine DEF Post
  <2> QED
    BY <1>7, <1>10, <2>1 DEF Post
<1>11. CASE Restart
  <2>1. CommentsTypeOK' /\ PollerInv'
    BY <1>11, RestartPollerFine DEF Restart
  <2>2. AnalysisTypeOK' /\ analysis'[Loop] = NoRequest
    BY <1>11, NoRequestTyped DEF Restart, AnalysisTypeOK, Actors
  <2>3. DocumentInv'
    BY <2>2, NoRequestTyped DEF DocumentInv, RequestInv, Fits
  <2>4. ResearchTypeOK' /\ ResearchInv'
    BY <1>11, NoQuestionTyped, ThreadAssumption DEF Restart, ResearchTypeOK, ResearchInv
  <2>5. CatalogTypeOK' /\ requests' \in 0 .. MaxRequests
    BY <1>11 DEF Restart, CatalogTypeOK
  <2> QED
    BY <2>1, <2>2, <2>3, <2>4, <2>5
<1>12. CASE UNCHANGED serverVars
  <2>1. /\ UNCHANGED <<matters, analysis>> /\ UNCHANGED <<research, configured>>
        /\ UNCHANGED commentVars /\ requests' = requests
    BY <1>12 DEF serverVars
  <2> QED
    BY <2>1, AnalysisFrame, ResearchFrame, CommentsFrame
<1> QED
  BY <1>1, <1>2, <1>4, <1>5, <1>6, <1>8, <1>9, <1>10, <1>11, <1>12 DEF Next

\* The types of the whole process and its inductive invariant.
THEOREM ServerCorrect == Spec => []ServerInv
<1> QED
  BY InitFine, StepFine, PTL DEF Spec

\* A document said to belong to a matter was analysed as one of that matter's
\* type, and was given to it by name or by its case number, with no other matter
\* of the catalogue as near (DocumentWorkflow.process, MatterMatcher.best_match).
THEOREM DocumentsFitTheirMatter == Spec => []AnalysisFitsMatter
<1>1. ServerInv => AnalysisFitsMatter
  BY DEF ServerInv, DocumentInv, RequestInv, Fits, AnalysisFitsMatter
<1> QED
  BY <1>1, ServerCorrect, PTL

\* An answer about a matter cites chunks of this matter that were retrieved for
\* it, at least one and no other, and its prompt had no chunk or memory of
\* another matter (LegalResearchService.research and its providers).
THEOREM AnswersStayGrounded == Spec => []AnswersGrounded
<1>1. ServerInv => AnswersGrounded
  BY DEF ServerInv, ResearchInv, QuestionInv, Foreign, Valid, MemoriesOf, AnswersGrounded
<1> QED
  BY <1>1, ServerCorrect, PTL

\* A question is answered only from the one matter that fits it best
\* (NaturalLanguageResearchRouter.route).
THEOREM QuestionsRoutedClearly == Spec => []RoutedClearly
<1>1. ServerInv => RoutedClearly
  BY DEF ServerInv, ResearchInv, QuestionInv, RightMatter, RoutedClearly
<1> QED
  BY <1>1, ServerCorrect, PTL

\* Only harmless comments of the group are answered, whatever is sent again
\* (classify_comment, evaluate_response, ProductionGuard).
THEOREM OnlySafeReplies == Spec => []RepliesAreSafe
<1>1. ASSUME NEW c \in Comments, Replies(c)
      PROVE  /\ ProductionSend /\ ~DryRun /\ c.group
             /\ c.markers \cap {"personal", "escalate"} = {}
  <2>1. ProductionSend /\ ~DryRun /\ c.group /\ Safe(Intent(c))
    BY <1>1 DEF Replies, GuardSends, Inbound
  <2>2. "personal" \notin c.markers
    BY <2>1 DEF Safe, Intent
  <2>3. "escalate" \notin c.markers
    BY <2>1, <2>2 DEF Safe, Intent
  <2> QED
    BY <2>1, <2>2, <2>3
<1>2. ServerInv => RepliesAreSafe
  BY <1>1, PollerTyped DEF ServerInv, TypeOK, PollerInv, RepliesAreSafe
<1> QED
  BY <1>2, ServerCorrect, PTL

\* A comment is answered once per start of the process at most, and one that
\* getUpdates has confirmed never again (TelegramUpdateReceiver, run_polling).
THEOREM RepliesStayBounded == Spec => []RepliesBounded
<1>1. ASSUME ServerInv
      PROVE  RepliesBounded
  <2>1. \A i \in DOMAIN replies : replies[i] <= restarts + 1
    <3>1. CommentsTypeOK /\ PollerInv
      BY <1>1 DEF ServerInv, TypeOK
    <3>2. DOMAIN replies = DOMAIN inbox /\ restarts \in Nat
          /\ \A i \in DOMAIN replies : replies[i] \in Nat
      BY <3>1, PollerTyped
    <3> QED
      BY <3>1, <3>2 DEF PollerInv
  <2>2. \A i \in 1 .. acked : i # Current
    BY <1>1, PollerTyped DEF ServerInv, TypeOK, PollerInv
  <2> QED
    BY <2>1, <2>2 DEF RepliesBounded
<1> QED
  BY <1>1, ServerCorrect, PTL
=============================================================================
