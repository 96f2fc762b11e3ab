---------------------------- MODULE LegalResearch -----------------------------
(***************************************************************************)
(* Questions about the materials of a matter: POST /v1/matters/{id}/research*)
(* and the research commands of POST /v1/command, both in a thread of their *)
(* own.  A question is embedded, the chunks nearest to it are retrieved from*)
(* the database, memories are recalled, a model answers from both, and what *)
(* it cites is checked.  The database, the embedding and the model are      *)
(* external: each may raise, the rows may be wrong, the model may cite      *)
(* anything.                                                               *)
(***************************************************************************)
EXTENDS MatterCatalog

CONSTANTS
    Researchers,    \* the threads
    Chunks,
    ChunkMatter,
    Memories,
    MemoryMatter,   \* NoMatter for a memory about no matter in particular
    Invented,       \* a citation token of no chunk
    ProvidersMayFail

ASSUME ChunkAssumption == ChunkMatter \in [Chunks -> Matters] /\ Invented \notin Chunks
ASSUME MemoryAssumption == MemoryMatter \in [Memories -> Matters \cup {NoMatter}]
ASSUME FailureAssumption == ProvidersMayFail \in BOOLEAN

VARIABLES
    research,    \* the question each thread works on
    configured   \* build_legal_research_service_from_env gave a service

researchVars == <<research, configured, matters>>

\* listed: history, the catalogue when the question was routed; rows: the
\* retrieved chunks; recalled: the memories in the prompt; cited: the tokens of
\* the answer.
Research ==
    [pc : {"idle", "route", "embed", "retrieve", "recall", "answer"}, text : Texts,
     routed : BOOLEAN, matter : Matters \cup {NoMatter}, listed : SUBSET Matters,
     rows : SUBSET Chunks, recalled : SUBSET Memories, cited : SUBSET (Chunks \cup {Invented}),
     status : {"none", "answered", "insufficient", "needs_matter", "unavailable", "failed"}]

ResearchTypeOK == research \in [Researchers -> Research] /\ configured \in BOOLEAN

NewQuestion(t, pc, m) ==
    [pc |-> pc, text |-> t, routed |-> m = NoMatter, matter |-> m, listed |-> {}, rows |-> {},
     recalled |-> {}, cited |-> {}, status |-> "none"]

NoQuestion == NewQuestion(CHOOSE t \in Texts : TRUE, "idle", NoMatter)

ResearchInit ==
    /\ matters = {}
    /\ configured \in BOOLEAN
    /\ research = [a \in Researchers |-> NoQuestion]

Continue(a, r) ==
    /\ research' = [research EXCEPT ![a] = r]
    /\ UNCHANGED <<configured, matters>>
Refused(a, status) == Continue(a, [NoQuestion EXCEPT !.status = status])
Fail(a) == Refused(a, "failed")
ProviderRaises(a) == ProvidersMayFail /\ Fail(a)

-----------------------------------------------------------------------------
\* The endpoint takes its matter from the path and does not look it up, and the
\* text of the question plays no part; the command resolves a matter from it.
AskEndpoint(a, m) ==
    /\ research[a].pc = "idle"
    /\ \/ configured /\ Continue(a, NewQuestion(NoQuestion.text, "embed", m))
       \/ ~configured /\ Refused(a, "unavailable")

AskCommand(a, t) ==
    /\ research[a].pc = "idle"
    /\ Continue(a, NewQuestion(t, "route", NoMatter))

RouteCommand(a) ==
    /\ research[a].pc = "route"
    /\ LET m == Route(research[a].text, matters)
       IN \/ m = NoMatter /\ Refused(a, "needs_matter")
          \/ m # NoMatter /\ ~configured /\ Refused(a, "unavailable")
          \/ /\ m # NoMatter /\ configured
             /\ Continue(a, [research[a] EXCEPT !.pc = "embed", !.matter = m, !.listed = matters])
          \/ ProviderRaises(a)

Embed(a) ==
    /\ research[a].pc = "embed"
    /\ Continue(a, [research[a] EXCEPT !.pc = "retrieve"]) \/ ProviderRaises(a)

\* A row of another matter in the answer of match_matter_document_chunks is an
\* isolation violation and ends the research; without rows the answer is a fixed
\* sentence that needs no citation.
Foreign(rows, m) == \E k \in rows : ChunkMatter[k] # m
Retrieve(a) ==
    /\ research[a].pc = "retrieve"
    /\ \/ \E rows \in SUBSET Chunks :
             \/ Foreign(rows, research[a].matter) /\ Fail(a)
             \/ /\ rows = {}
                /\ Continue(a, [research[a] EXCEPT !.pc = "idle", !.status = "insufficient"])
             \/ /\ rows # {} /\ ~Foreign(rows, research[a].matter)
                /\ Continue(a, [research[a] EXCEPT !.pc = "recall", !.rows = rows])
       \/ ProviderRaises(a)

\* match_assistant_memories: those of the matter and those of none.
MemoriesOf(m) == {x \in Memories : MemoryMatter[x] \in {m, NoMatter}}

\* A memory of another matter, like none at all, leaves the prompt without
\* memories; an error of the client itself is not caught.
Recall(a) ==
    /\ research[a].pc = "recall"
    /\ \/ \E found \in SUBSET Memories :
             LET own == found \subseteq MemoriesOf(research[a].matter)
             IN Continue(a, [research[a] EXCEPT !.pc = "answer",
                                                !.recalled = IF own THEN found ELSE {}])
       \/ ProviderRaises(a)

\* Mutant: any citation will do.
ValidIfAny(cited, rows) == cited # {}

\* The model may cite what it was given, what a memory mentions or nothing; the
\* tokens are looked up among those of the rows before anything else is done.
Valid(cited, rows) == cited # {} /\ cited \subseteq rows
Answer(a) ==
    /\ research[a].pc = "answer"
    /\ \/ \E cited \in SUBSET (Chunks \cup {Invented}) :
             \/ ~Valid(cited, research[a].rows) /\ Fail(a)
             \/ /\ Valid(cited, research[a].rows)
                /\ Continue(a, [research[a] EXCEPT !.pc = "idle", !.cited = cited,
                                                   !.status = "answered"])
       \/ ProviderRaises(a)

ResearchStep(a) ==
    \/ RouteCommand(a) \/ Embed(a) \/ Retrieve(a) \/ Recall(a) \/ Answer(a)

ResearchNext ==
    \/ \E a \in Researchers : ResearchStep(a)
    \/ \E a \in Researchers, t \in Texts : AskCommand(a, t)
    \/ \E a \in Researchers, m \in Matters : AskEndpoint(a, m)
    \/ \E m \in Matters : CreateMatter(m) /\ UNCHANGED <<research, configured>>

ResearchSpec == ResearchInit /\ [][ResearchNext]_researchVars

-----------------------------------------------------------------------------
\* Properties.

\* Every answer about a matter cites at least one of the chunks that were
\* retrieved for it and nothing else, whatever rows the database sent and
\* whatever the model wrote; no chunk or memory of another matter was in its
\* prompt (CONSOLIDATION_SECURITY.md: Matter research rejects cross-Matter rows
\* and missing or hallucinated citation tokens).
AnswersGrounded ==
    \A a \in Researchers :
        LET r == research[a]
        IN r.status = "answered" =>
               /\ r.cited # {} /\ r.cited \subseteq r.rows
               /\ \A k \in r.rows : ChunkMatter[k] = r.matter
               /\ \A x \in r.recalled : MemoryMatter[x] \in {r.matter, NoMatter}

\* A question that named no matter is answered only from the one matter of the
\* catalogue that it fits best, and not at all while two fit it equally.
RoutedClearly ==
    \A a \in Researchers :
        LET r == research[a]
        IN r.routed /\ r.status \in {"answered", "insufficient"} =>
               /\ r.matter \in r.listed
               /\ \A k \in r.listed \ {r.matter} :
                     ReferenceScore(r.text)[k] < ReferenceScore(r.text)[r.matter]

\* Every question is answered.
ResearchEnds == \A a \in Researchers : research[a].pc # "idle" ~> research[a].pc = "idle"

-----------------------------------------------------------------------------
\* What makes AnswersGrounded and RoutedClearly inductive.

RightMatter(r) ==
    r.routed => /\ r.matter \in r.listed
                /\ \A k \in r.listed \ {r.matter} :
                      ReferenceScore(r.text)[k] < ReferenceScore(r.text)[r.matter]

QuestionInv(r) ==
    /\ r.pc # "idle" => r.status = "none"
    /\ r.pc \in {"embed", "retrieve", "recall", "answer"} => RightMatter(r)
    /\ r.pc \in {"recall", "answer"} => ~Foreign(r.rows, r.matter)
    /\ r.pc = "answer" => r.recalled \subseteq MemoriesOf(r.matter)
    /\ r.status \in {"answered", "insufficient"} => RightMatter(r)
    /\ r.status = "answered" =>
          /\ Valid(r.cited, r.rows) /\ ~Foreign(r.rows, r.matter)
          /\ r.recalled \subseteq MemoriesOf(r.matter)

ResearchInv == \A a \in Researchers : QuestionInv(research[a])
=============================================================================
