---------------------------- MODULE MatterCatalog -----------------------------
(***************************************************************************)
(* The matters of the office and the three ways a text is taken to be about *)
(* one of them: the matcher of uploaded documents (MatterMatcher), the      *)
(* router of research questions (NaturalLanguageResearchRouter) and an      *)
(* explicit matter_id.  Matters are created and never deleted or changed.   *)
(***************************************************************************)
EXTENDS Naturals, FiniteSets

CONSTANTS
    Matters,
    NoMatter,
    MatterTypes,
    TypeOf,   \* the matter_type of each matter
    Texts,
    Mention   \* what each text says of each matter

\* number: the case number occurs in the text; words: title words that do;
\* party: a word of the client, the opponent or the court does; client, title:
\* the value as a whole does; clientTokens, titleTokens: its words, or their
\* stems, that the question has.
MentionType ==
    [number : BOOLEAN, words : Nat, party : BOOLEAN, client : BOOLEAN, clientTokens : Nat,
     title : BOOLEAN, titleTokens : Nat]

ASSUME MatterAssumption == IsFiniteSet(Matters) /\ NoMatter \notin Matters
ASSUME TypeAssumption == TypeOf \in [Matters -> MatterTypes]
ASSUME NonEmptyAssumption == Texts # {} /\ MatterTypes # {}
ASSUME MentionAssumption == Mention \in [Texts -> [Matters -> MentionType]]

VARIABLE matters

Capped(n, cap) == IF n < cap THEN n ELSE cap

\* Best first: what sorted() or the maximum of the scores has at its top.
Best(score, S) == {m \in S : \A k \in S : score[k] <= score[m]}

-----------------------------------------------------------------------------
\* MatterMatcher, in hundredths.

DocumentScore(t) ==
    [m \in Matters |->
        Capped((IF Mention[t][m].number THEN 75 ELSE 0) + Capped(3 * Mention[t][m].words, 15)
                   + (IF Mention[t][m].party THEN 10 ELSE 0), 99)]

MinScore == 75
\* The scores are floats: the difference of two scores that are 0.10 apart
\* comes out below 0.10 for every such pair a matter can get, and is refused.
Margin == 11

\* Mutant: the best of them is taken, however close the next one is.
MatchesTop(t, S) == {m \in Best(DocumentScore(t), S) : DocumentScore(t)[m] >= MinScore}

\* The matters of S that best_match can return: one, or none.
Matches(t, S) ==
    LET score == DocumentScore(t)
    IN {m \in Best(score, S) :
           /\ score[m] >= MinScore
           /\ \A k \in S \ {m} : score[k] > 0 => score[m] >= score[k] + Margin}
BestMatch(t, S) == IF Matches(t, S) = {} THEN NoMatter ELSE CHOOSE m \in Matches(t, S) : TRUE

-----------------------------------------------------------------------------
\* NaturalLanguageResearchRouter.

PartScore(whole, tokens) == IF whole THEN 50 ELSE Capped(5 * tokens, 20)
ReferenceScore(t) ==
    [m \in Matters |->
        (IF Mention[t][m].number THEN 100 ELSE 0)
            + PartScore(Mention[t][m].client, Mention[t][m].clientTokens)
            + PartScore(Mention[t][m].title, Mention[t][m].titleTokens)]

MinReference == 10
Referred(t, S) == {m \in Best(ReferenceScore(t), S) : ReferenceScore(t)[m] >= MinReference}
\* Mutant: of two that fit as well the first is taken.
RouteFirst(t, S) ==
    IF Referred(t, S) # {} THEN CHOOSE m \in Referred(t, S) : TRUE ELSE NoMatter

Route(t, S) ==
    IF Cardinality(Referred(t, S)) = 1 THEN CHOOSE m \in Referred(t, S) : TRUE ELSE NoMatter

-----------------------------------------------------------------------------
CatalogTypeOK == matters \subseteq Matters

\* POST /v1/matters: the insert may raise before or after it was executed.
CreateMatter(m) ==
    /\ m \notin matters
    /\ matters' = matters \cup {m}

\* A text is about m as far as the catalogue S goes: the case number of m is in
\* it, and no other matter has as much.
StrongIn(t, S, m) ==
    Mention[t][m].number /\ \A k \in S \ {m} : DocumentScore(t)[k] < DocumentScore(t)[m]
=============================================================================
