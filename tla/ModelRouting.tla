----------------------------- MODULE ModelRouting -----------------------------
(***************************************************************************)
(* Which AI provider sees a text, and whose answer counts: ModelRouter with *)
(* its privacy policy and provider adapters, and its two users,            *)
(* RoutedLegalAnalyzer (every analysis of the API) and ModelConsensus.      *)
(*                                                                         *)
(* A run of the router is sequential, but each question to a provider takes *)
(* seconds and whether Ollama is available is asked again and again: what   *)
(* one check saw need not hold at the next.  Every check and every attempt  *)
(* has an outcome of its own here.                                         *)
(***************************************************************************)
EXTENDS Naturals

CONSTANTS
    Callers,
    Requests,
    Registered,    \* providers of this router that are configured
    Structured,    \* adapters that answer with a legal_analysis
    MaxRetries,
    Nobody

Providers == {"ollama", "openai", "gemini", "deepseek", "nano_banana"}

\* user: who asks the router; restricted: allowed_providers is given, as
\* requested; multimodal: requires_vision or requires_google_context; blank: a
\* prompt of white space; legalTask: the task is one of DocumentTask.
RequestType ==
    [user : {"analyzer", "consensus"}, confidential : BOOLEAN, verification : BOOLEAN,
     multimodal : BOOLEAN, technical : BOOLEAN, legalTask : BOOLEAN, blank : BOOLEAN,
     restricted : BOOLEAN, requested : SUBSET Providers]

ASSUME RequestAssumption == Requests \subseteq RequestType
\* What RoutedLegalAnalyzer.analyze asks for.
ASSUME AnalyzerAssumption ==
    \A r \in Requests : r.user = "analyzer" =>
        r.confidential /\ r.legalTask /\ ~r.verification /\ ~r.multimodal /\ ~r.restricted
ASSUME ProviderAssumption ==
    Registered \subseteq Providers /\ Structured \subseteq Providers /\ Nobody \notin Providers
ASSUME RetryAssumption == MaxRetries \in Nat

VARIABLES
    run,       \* the run of the router each caller waits for
    deployment \* the settings this process was started with

vars == <<run, deployment>>

-----------------------------------------------------------------------------
\* Types.

\* left: the candidates not yet given up; at: the one being asked, for the
\* attempts-th time; answers: who answered, and who verified; marked:
\* routing_fallback_from is set; sent: history, who was sent the text.
Run ==
    [pc : {"decide", "list", "complete", "verify", "return", "done"}, request : Requests,
     primary : Providers \cup {Nobody}, verifier : Providers \cup {Nobody},
     left : SUBSET Providers, sent : SUBSET Providers, at : Providers \cup {Nobody}, attempts : 0 .. MaxRetries,
     first : Providers \cup {Nobody}, second : Providers \cup {Nobody}, marked : BOOLEAN,
     result : {"none", "answered", "refused", "failed", "crashed"},
     outcome : {"none", "model", "heuristic", "unverified", "agreed", "disputed", "error"}]

NewRun(r) ==
    [pc |-> "decide", request |-> r, primary |-> Nobody, verifier |-> Nobody, left |-> {},
     sent |-> {}, at |-> Nobody, attempts |-> 0, first |-> Nobody, second |-> Nobody, marked |-> FALSE,
     result |-> "none", outcome |-> "none"]

\* cloud: CONFIDENTIAL_CLOUD_FALLBACK; local: OLLAMA_BASE_URL is a loopback
\* address.
Deployment == [cloud : BOOLEAN, local : BOOLEAN]

TypeOK == run \in [Callers -> Run] /\ deployment \in Deployment

Init ==
    /\ run \in {[c \in Callers |-> NewRun(f[c])] : f \in [Callers -> Requests]}
    /\ deployment \in Deployment

Set(c, r) ==
    /\ run' = [run EXCEPT ![c] = r]
    /\ UNCHANGED deployment

-----------------------------------------------------------------------------
\* The policy and the choice.

Policy(r) ==
    IF r.confidential
    THEN {"ollama"} \cup (IF deployment.cloud THEN {"openai"} \cap Registered ELSE {})
    ELSE {"ollama", "openai", "gemini", "deepseek"}
Forbidden(r) == r.restricted /\ ~(r.requested \subseteq Policy(r))
Allowed(r) == IF r.restricted THEN r.requested ELSE Policy(r)

\* up: what the health check of Ollama says at that moment; the cloud providers
\* are available if they have a key.
Available(k, up) == k \in Registered /\ (k = "ollama" => deployment.local /\ up)
Choices(r, up) == {k \in Allowed(r) : Available(k, up)}

FallbackRank == [ollama |-> 1, openai |-> 2, gemini |-> 3, deepseek |-> 4, nano_banana |-> 5]
VerifierRank == [openai |-> 1, deepseek |-> 2, gemini |-> 3, ollama |-> 4]
FirstOf(rank, S) ==
    IF S = {} THEN Nobody ELSE CHOOSE k \in S : \A j \in S : rank[k] <= rank[j]

Preferred(r) ==
    CASE r.multimodal -> "gemini"
      [] ~r.multimodal /\ r.confidential -> "ollama"
      [] ~r.multimodal /\ ~r.confidential /\ r.technical -> "deepseek"
      [] OTHER -> "openai"

Primary(r, up1, up2) ==
    IF Preferred(r) \in Choices(r, up1) THEN Preferred(r)
    ELSE FirstOf(FallbackRank, Choices(r, up2))
Verifier(r, primary, up) ==
    FirstOf(VerifierRank, (Choices(r, up) \ {primary}) \cap DOMAIN VerifierRank)

Raise(c, error) == Set(c, [run[c] EXCEPT !.pc = "return", !.result = error])

Decide(c) ==
    /\ run[c].pc = "decide"
    /\ \E up1, up2, up3 \in BOOLEAN :
          LET r == run[c].request
              primary == Primary(r, up1, up2)
              verifier == IF r.verification THEN Verifier(r, primary, up3) ELSE Nobody
          IN \/ Forbidden(r) /\ Raise(c, "refused")
             \/ /\ ~Forbidden(r)
                /\ primary = Nobody \/ (r.verification /\ verifier = Nobody)
                /\ Raise(c, "failed")
             \/ /\ ~Forbidden(r) /\ primary # Nobody
                /\ r.verification => verifier # Nobody
                /\ Set(c, [run[c] EXCEPT !.pc = "list", !.primary = primary,
                                         !.verifier = verifier])

\* Mutant: every available provider is a candidate.
ListCandidatesUnfiltered(c) ==
    /\ run[c].pc = "list"
    /\ \E up \in BOOLEAN :
          Set(c, [run[c] EXCEPT !.pc = "complete", !.at = run[c].primary, !.attempts = 0,
                     !.left = {run[c].primary} \cup {k \in Providers : Available(k, up)}])

\* The candidates are listed once, before the first of them is asked.
ListCandidates(c) ==
    /\ run[c].pc = "list"
    /\ \E up \in BOOLEAN :
          Set(c, [run[c] EXCEPT !.pc = "complete", !.at = run[c].primary, !.attempts = 0,
                     !.left = {run[c].primary} \cup Choices(run[c].request, up)])

-----------------------------------------------------------------------------
\* Asking a provider.

\* Ollama and OpenAI refuse a blank document before anything is sent; only
\* Ollama has an answer of another form for tasks that are not documents'.
RefusesBlank(k, r) == r.blank /\ (k = "openai" \/ (k = "ollama" /\ r.legalTask))

\* What an attempt can come to: "ok", "again" (an error that is tried again),
\* "error" (one the router catches) or "crash" (one it does not).
OllamaOutcomes(r) == IF RefusesBlank("ollama", r) THEN {"error"} ELSE {"ok", "error"}

\* Only OpenAILegalAnalyzer tries again, unless it was a ValueError.
OpenAIOutcomes(r, attempts) ==
    IF RefusesBlank("openai", r) THEN {"error"}
    ELSE {"ok", "error"} \cup (IF attempts < MaxRetries THEN {"again"} ELSE {})

\* A response of another form ends in an AttributeError.
HTTPOutcomes == {"ok", "error", "crash"}
GeminiOutcomes == {"ok", "error", "crash"}

SentTo(c) ==
    run[c].sent \cup (IF RefusesBlank(run[c].at, run[c].request) THEN {} ELSE {run[c].at})

Attempt(c, outcome) ==
    outcome \in CASE run[c].at = "ollama" -> OllamaOutcomes(run[c].request)
                  [] run[c].at = "openai" -> OpenAIOutcomes(run[c].request, run[c].attempts)
                  [] run[c].at = "gemini" -> GeminiOutcomes
                  [] OTHER -> HTTPOutcomes

TryAgain(c) ==
    /\ run[c].pc \in {"complete", "verify"}
    /\ Attempt(c, "again")
    /\ Set(c, [run[c] EXCEPT !.attempts = @ + 1, !.sent = SentTo(c)])

Crash(c) ==
    /\ run[c].pc \in {"complete", "verify"}
    /\ Attempt(c, "crash")
    /\ Set(c, [run[c] EXCEPT !.pc = "return", !.result = "crashed", !.sent = SentTo(c)])

Complete(c) ==
    /\ run[c].pc = "complete"
    /\ Attempt(c, "ok")
    /\ LET answered == [run[c] EXCEPT !.first = run[c].at, !.sent = SentTo(c),
                                      !.marked = run[c].at # run[c].primary]
       IN Set(c, IF run[c].verifier = Nobody
                 THEN [answered EXCEPT !.pc = "return", !.result = "answered"]
                 ELSE [answered EXCEPT !.pc = "verify", !.at = run[c].verifier, !.attempts = 0])

\* Mutant: the provider that failed stays among the candidates.
FallBackInPlace(c) ==
    /\ run[c].pc = "complete"
    /\ Attempt(c, "error")
    /\ Set(c, [run[c] EXCEPT !.sent = SentTo(c), !.attempts = 0])

FallBack(c) ==
    /\ run[c].pc = "complete"
    /\ Attempt(c, "error")
    /\ LET left == run[c].left \ {run[c].at}
           failed == [run[c] EXCEPT !.left = left, !.sent = SentTo(c)]
       IN Set(c, IF left = {} THEN [failed EXCEPT !.pc = "return", !.result = "failed"]
                 ELSE [failed EXCEPT !.at = FirstOf(FallbackRank, left), !.attempts = 0])

\* Mutant: an error of the verifier is passed over.
VerifyLeniently(c) ==
    /\ run[c].pc = "verify"
    /\ Attempt(c, "ok") \/ Attempt(c, "error")
    /\ Set(c, [run[c] EXCEPT !.pc = "return", !.sent = SentTo(c), !.result = "answered"])

Verify(c) ==
    /\ run[c].pc = "verify"
    /\ LET over == [run[c] EXCEPT !.pc = "return", !.sent = SentTo(c)]
       IN \/ Attempt(c, "ok") /\ Set(c, [over EXCEPT !.second = run[c].at, !.result = "answered"])
          \/ Attempt(c, "error") /\ Set(c, [over EXCEPT !.result = "failed"])

-----------------------------------------------------------------------------
\* What the callers make of it.

\* Mutant: the error of the router is not caught.
AnalysisUncaught(r) ==
    IF r.result # "answered" THEN "error"
    ELSE IF r.first \in Structured THEN "model" ELSE "heuristic"

\* LegalAnalyzer without a provider: regular expressions, which find what they
\* find and never raise.
Heuristic == "heuristic"

\* Only a RuntimeError is answered with the heuristic analysis.
Analysis(r) ==
    CASE r.result = "answered" /\ r.first \in Structured -> "model"
      [] r.result = "answered" /\ r.first \notin Structured -> Heuristic
      [] r.result = "failed" -> Heuristic
      [] OTHER -> "error"

\* The two texts may be the same or differ.
Verdicts(r) ==
    CASE r.result # "answered" -> {"error"}
      [] r.result = "answered" /\ r.verifier = Nobody -> {"unverified"}
      [] OTHER -> {"agreed", "disputed"}

Return(c) ==
    /\ run[c].pc = "return"
    /\ \E o \in IF run[c].request.user = "analyzer" THEN {Analysis(run[c])} ELSE Verdicts(run[c]) :
          Set(c, [run[c] EXCEPT !.pc = "done", !.outcome = o])

\* The caller comes with its next request.
Start(c) ==
    /\ run[c].pc = "done"
    /\ \E r \in Requests : Set(c, NewRun(r))

CallerStep(c) ==
    \/ Decide(c) \/ ListCandidates(c) \/ TryAgain(c) \/ Crash(c) \/ Complete(c) \/ FallBack(c)
    \/ Verify(c) \/ Return(c)

Next == \E c \in Callers : CallerStep(c) \/ Start(c)

Spec == Init /\ [][Next]_vars

\* Every call to a provider has a timeout, and the code between them is not
\* blocked by anything.
FairSpec == Spec /\ \A c \in Callers : WF_vars(CallerStep(c))

-----------------------------------------------------------------------------
\* Properties.

\* A confidential text leaves the machine only if the deployment opted in to
\* the cloud, never to a provider the caller excluded, and Ollama is the local
\* one: whatever was unavailable, failed, was retried or verified
\* (CONSOLIDATION_SECURITY.md: confidential analysis routes to local Ollama).
SentIsPermitted ==
    \A c \in Callers : \A k \in run[c].sent :
        /\ run[c].request.confidential => k = "ollama" \/ (k = "openai" /\ deployment.cloud)
        /\ run[c].request.restricted => k \in run[c].request.requested
        /\ k = "ollama" => deployment.local

\* Verification fails closed: an answer that was to be verified has two, and
\* the model that fell back onto its own verifier carries the mark that tells
\* (CONSOLIDATION_SECURITY.md: fallback is observable in the metadata).
VerificationIsHonest ==
    \A c \in Callers :
        run[c].pc = "done" /\ run[c].request.verification /\ run[c].outcome # "error" =>
            /\ run[c].first # Nobody /\ run[c].second # Nobody
            /\ run[c].first = run[c].second => run[c].marked /\ run[c].first # run[c].primary

\* An analysis of the API is always answered, by a model or by the heuristic:
\* none of the errors that RoutedLegalAnalyzer does not catch gets to it.
AnalysisAnswered ==
    \A c \in Callers :
        run[c].request.user = "analyzer" => run[c].outcome \in {"none", "model", "heuristic"}

\* The two answers of a verified run are by two providers
\* (test_verification_uses_independent_provider).
IndependentVerification ==
    \A c \in Callers :
        run[c].pc = "done" /\ run[c].outcome \in {"agreed", "disputed"} =>
            run[c].first # run[c].second

\* Every run ends, however many candidates and attempts fail.
EveryRunEnds == \A c \in Callers : run[c].pc = "decide" ~> run[c].pc = "done"

-----------------------------------------------------------------------------
(* The inductive strengthening the proofs rest on. *)
May(r, k) == k \in Allowed(r) /\ ~Forbidden(r) /\ (k = "ollama" => deployment.local)
Candidates(r) == r.sent \cup r.left \cup ({r.primary, r.verifier, r.at} \ {Nobody})
RunInv(r) ==
    /\ \A k \in Candidates(r) : May(r.request, k)
    /\ r.pc \in {"list", "complete", "verify"} =>
          /\ r.primary # Nobody
          /\ r.request.verification => r.verifier # Nobody
    /\ r.verifier # Nobody => r.verifier # r.primary
    /\ r.pc \in {"complete", "verify"} => r.at # Nobody
    /\ r.pc = "complete" => r.at \in r.left
    /\ r.pc = "verify" \/ r.result = "answered" => r.first # Nobody /\ r.marked = (r.first # r.primary)
    /\ r.pc = "verify" => r.at = r.verifier
    /\ r.result = "answered" /\ r.request.verification => r.verifier # Nobody /\ r.second = r.verifier
    /\ r.request.user = "analyzer" =>
          r.result \notin {"refused", "crashed"} /\ r.outcome \in {"none", "model", "heuristic"}
    /\ r.pc = "done" /\ r.request.user = "consensus" /\ r.outcome # "error" => r.result = "answered"
    /\ r.pc # "return" /\ r.pc # "done" => r.result = "none"
    /\ r.pc = "return" => r.result # "none"
RoutingInv == TypeOK /\ \A c \in Callers : RunInv(run[c])
=============================================================================
