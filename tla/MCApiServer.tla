----------------------------- MODULE MCApiServer ------------------------------
(***************************************************************************)
(* An instance of ApiServer: two matters, one chunk of each.                *)
(***************************************************************************)
EXTENDS ApiServer

\* The matters are numbers so that their types and chunks are functions of them.
TwoMatters == {1, 2}
Types == [m \in TwoMatters |-> IF m = 1 THEN "criminal" ELSE "civil"]

Nothing ==
    [number |-> FALSE, words |-> 0, party |-> FALSE, client |-> FALSE, clientTokens |-> 0,
     title |-> FALSE, titleTokens |-> 0]
Named == [Nothing EXCEPT !.number = TRUE, !.client = TRUE, !.party = TRUE]

\* clear: about matter 1; twins: as much about the one as about the other.
Mentions ==
    [t \in {"clear", "twins"} |->
        [m \in TwoMatters |-> IF t = "clear" /\ m = 2 THEN Nothing ELSE Named]]

\* Every chunk and memory is named by its matter; memory 0 is about none.
OwnMatter == [k \in TwoMatters |-> k]
MatterOfMemory == [x \in {0, 2} |-> x]

Comment(markers, group) == [markers |-> markers, group |-> group]
Written ==
    {Comment({"question"}, TRUE), Comment({"question"}, FALSE),
     Comment({"personal", "aggressive"}, TRUE), Comment({"escalate", "aggressive"}, TRUE)}
=============================================================================
