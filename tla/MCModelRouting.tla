---------------------------- MODULE MCModelRouting ----------------------------
(***************************************************************************)
(* Instances of ModelRouting.                                              *)
(***************************************************************************)
EXTENDS ModelRouting

Ask(user, confidential, verification) ==
    [user |-> user, confidential |-> confidential, verification |-> verification,
     multimodal |-> FALSE, technical |-> FALSE, legalTask |-> TRUE, blank |-> FALSE,
     restricted |-> FALSE, requested |-> {}]

Analyses == {[Ask("analyzer", TRUE, FALSE) EXCEPT !.blank = b] : b \in BOOLEAN}

Consensus ==
    {[Ask("consensus", conf, ver) EXCEPT !.multimodal = mm, !.technical = t, !.legalTask = ~t] :
        conf, ver, mm, t \in BOOLEAN}

Restricted ==
    {[Ask("consensus", conf, TRUE) EXCEPT !.restricted = TRUE, !.requested = S] :
        conf \in BOOLEAN,
        S \in {{"ollama"}, {"ollama", "openai"}, {"deepseek", "gemini"}, {"openai", "deepseek"}}}

AllRequests == Analyses \cup Consensus \cup Restricted
PlainVerified == {Ask("consensus", FALSE, TRUE)}

Keyed == {"ollama", "openai", "gemini", "deepseek"}
Analyzers == {"ollama", "openai"}
=============================================================================
