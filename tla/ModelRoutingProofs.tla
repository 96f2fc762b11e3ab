--------------------------- MODULE ModelRoutingProofs ---------------------------
(***************************************************************************)
(* Theorems about ModelRouting, for any callers, requests, configured       *)
(* providers and number of retries.  One invariant, RunInv, holds of every  *)
(* run by itself: runs share nothing but the deployment, which is constant. *)
(***************************************************************************)
EXTENDS ModelRouting, TLAPS

-----------------------------------------------------------------------------
(* Choosing a provider *)

\* Of some candidates, the fallback chooses one of them.
LEMMA FallbackChooses ==
    ASSUME NEW S \in SUBSET Providers, S # {}
    PROVE  FirstOf(FallbackRank, S) \in S
<1>1. \E k \in S : \A j \in S : FallbackRank[k] <= FallbackRank[j]
  <2>1. CASE "ollama" \in S
    BY <2>1 DEF Providers, FallbackRank
  <2>2. CASE "ollama" \notin S /\ "openai" \in S
    BY <2>2 DEF Providers, FallbackRank
  <2>3. CASE "ollama" \notin S /\ "openai" \notin S /\ "gemini" \in S
    BY <2>3 DEF Providers, FallbackRank
  <2>4. CASE "ollama" \notin S /\ "openai" \notin S /\ "gemini" \notin S /\ "deepseek" \in S
    BY <2>4 DEF Providers, FallbackRank
  <2>5. CASE S = {"nano_banana"}
    BY <2>5 DEF Providers, FallbackRank
  <2> QED
    BY <2>1, <2>2, <2>3, <2>4, <2>5 DEF Providers
<1> QED
  BY <1>1 DEF FirstOf

LEMMA VerifierChooses ==
    ASSUME NEW S \in SUBSET DOMAIN VerifierRank, S # {}
    PROVE  FirstOf(VerifierRank, S) \in S
<1>0. DOMAIN VerifierRank = {"openai", "deepseek", "gemini", "ollama"}
  BY DEF VerifierRank
<1>1. \E k \in S : \A j \in S : VerifierRank[k] <= VerifierRank[j]
  <2>1. CASE "openai" \in S
    BY <1>0, <2>1 DEF VerifierRank
  <2>2. CASE "openai" \notin S /\ "deepseek" \in S
    BY <1>0, <2>2 DEF VerifierRank
  <2>3. CASE "openai" \notin S /\ "deepseek" \notin S /\ "gemini" \in S
    BY <1>0, <2>3 DEF VerifierRank
  <2>4. CASE S = {"ollama"}
    BY <1>0, <2>4 DEF VerifierRank
  <2> QED
    BY <1>0, <2>1, <2>2, <2>3, <2>4
<1> QED
  BY <1>1 DEF FirstOf

\* What is available and allowed may see the text.
LEMMA ChoicesMay ==
    ASSUME NEW r \in RequestType, NEW up \in BOOLEAN
    PROVE  /\ Choices(r, up) \subseteq Providers
           /\ ~Forbidden(r) => \A k \in Choices(r, up) : May(r, k)
BY ProviderAssumption DEF Choices, Available, May

\* The primary that is chosen may see the text, and the verifier is another one.
LEMMA Chosen ==
    ASSUME NEW r \in RequestType, NEW up1 \in BOOLEAN, NEW up2 \in BOOLEAN, NEW up3 \in BOOLEAN,
           ~Forbidden(r), Primary(r, up1, up2) # Nobody
    PROVE  /\ Primary(r, up1, up2) \in Providers /\ May(r, Primary(r, up1, up2))
           /\ LET v == Verifier(r, Primary(r, up1, up2), up3)
              IN v # Nobody => v \in Providers /\ May(r, v) /\ v # Primary(r, up1, up2)
<1>1. Primary(r, up1, up2) \in Choices(r, up1) \cup Choices(r, up2)
  <2>1. CASE Preferred(r) \in Choices(r, up1)
    BY <2>1 DEF Primary
  <2>2. CASE Preferred(r) \notin Choices(r, up1)
    <3>1. Primary(r, up1, up2) = FirstOf(FallbackRank, Choices(r, up2))
      BY <2>2 DEF Primary
    <3>2. Choices(r, up2) # {}
      BY <3>1 DEF FirstOf
    <3> QED
      BY <3>1, <3>2, ChoicesMay, FallbackChooses
  <2> QED
    BY <2>1, <2>2
<1> DEFINE p == Primary(r, up1, up2)
           S == (Choices(r, up3) \ {p}) \cap DOMAIN VerifierRank
<1>2. Verifier(r, p, up3) # Nobody => Verifier(r, p, up3) \in S
  <2>1. Verifier(r, p, up3) = FirstOf(VerifierRank, S)
    BY DEF Verifier
  <2>2. S \in SUBSET DOMAIN VerifierRank
    OBVIOUS
  <2>3. Verifier(r, p, up3) # Nobody => S # {}
    BY <2>1 DEF FirstOf
  <2> HIDE DEF S
  <2> QED
    BY <2>1, <2>2, <2>3, VerifierChooses
<1> QED
  BY <1>1, <1>2, ChoicesMay

\* Only Ollama and OpenAI may see what an analysis asks about.
LEMMA AnalyzerAsks ==
    ASSUME NEW r \in Requests, r.user = "analyzer"
    PROVE  /\ ~Forbidden(r) /\ ~r.verification
           /\ \A k : May(r, k) => k \in {"ollama", "openai"}
BY AnalyzerAssumption DEF Forbidden, May, Allowed, Policy

-----------------------------------------------------------------------------
(* One run at a time *)

LEMMA RunMoves ==
    ASSUME RoutingInv, NEW c \in Callers, NEW r \in Run, Set(c, r), RunInv(r)
    PROVE  RoutingInv'
<1>1. run' \in [Callers -> Run] /\ run'[c] = r /\ \A d \in Callers : d # c => run'[d] = run[d]
  BY DEF Set, RoutingInv, TypeOK
<1>2. deployment' = deployment
  BY DEF Set
<1>3. \A s : RunInv(s) => RunInv(s)'
  BY <1>2 DEF RunInv, Candidates, May, Allowed, Forbidden, Policy
<1>4. \A d \in Callers : RunInv(run'[d])
  BY <1>1 DEF RoutingInv
<1>5. \A d \in Callers : RunInv(run[d])'
  BY <1>3, <1>4
<1> QED
  BY <1>1, <1>2, <1>5 DEF RoutingInv, TypeOK

LEMMA NewRunInv ==
    ASSUME NEW r \in Requests
    PROVE  NewRun(r) \in Run /\ RunInv(NewRun(r))
BY RetryAssumption, AnalyzerAssumption DEF NewRun, Run, RunInv, Candidates
\* What is known of the run a caller works on.
LEMMA RunFacts ==
    ASSUME RoutingInv, NEW c \in Callers
    PROVE  /\ run[c] \in Run /\ RunInv(run[c])
           /\ run[c].request \in Requests /\ run[c].request \in RequestType
           /\ Nobody \notin Providers /\ MaxRetries \in Nat
BY RequestAssumption, ProviderAssumption, RetryAssumption DEF RoutingInv, TypeOK, Run

\* The run ends with an error.
LEMMA Raised ==
    ASSUME RoutingInv, NEW c \in Callers, NEW error \in {"refused", "failed"},
           Raise(c, error), run[c].pc = "decide",
           error = "refused" => run[c].request.user # "analyzer"
    PROVE  RoutingInv'
<1> DEFINE o == run[c]
           r == [o EXCEPT !.pc = "return", !.result = error]
<1>0. o \in Run /\ RunInv(o)
  BY RunFacts
<1>1. Set(c, r)
  BY DEF Raise
<1>2. /\ r \in Run /\ r.pc = "return" /\ r.result = error /\ r.request = o.request
      /\ r.primary = o.primary /\ r.verifier = o.verifier /\ r.left = o.left /\ r.sent = o.sent
      /\ r.at = o.at /\ r.first = o.first /\ r.second = o.second /\ r.marked = o.marked
      /\ r.outcome = o.outcome
  BY <1>0 DEF Run
<1> HIDE DEF r
<1>3. RunInv(r)
  BY <1>0, <1>2 DEF RunInv, Candidates
<1> QED
  BY <1>1, <1>2, <1>3, RunMoves

LEMMA DecideKeeps ==
    ASSUME RoutingInv, NEW c \in Callers, Decide(c)
    PROVE  RoutingInv'
<1> DEFINE o == run[c]
           q == o.request
<1>0. /\ o \in Run /\ RunInv(o) /\ q \in Requests /\ q \in RequestType
      /\ Nobody \notin Providers /\ o.pc = "decide"
  BY RunFacts DEF Decide
<1>1. PICK up1 \in BOOLEAN, up2 \in BOOLEAN, up3 \in BOOLEAN :
        LET primary == Primary(q, up1, up2)
            verifier == IF q.verification THEN Verifier(q, primary, up3) ELSE Nobody
        IN \/ Forbidden(q) /\ Raise(c, "refused")
           \/ Raise(c, "failed")
           \/ /\ ~Forbidden(q) /\ primary # Nobody
              /\ q.verification => verifier # Nobody
              /\ Set(c, [o EXCEPT !.pc = "list", !.primary = primary, !.verifier = verifier])
  BY DEF Decide
<1>2. CASE Forbidden(q) /\ Raise(c, "refused")
  <2>1. q.user # "analyzer"
    BY <1>0, <1>2, AnalyzerAsks
  <2> QED
    BY <1>0, <1>2, <2>1, Raised
<1>3. CASE Raise(c, "failed")
  BY <1>0, <1>3, Raised
<1> DEFINE primary == Primary(q, up1, up2)
           verifier == IF q.verification THEN Verifier(q, primary, up3) ELSE Nobody
           r == [o EXCEPT !.pc = "list", !.primary = primary, !.verifier = verifier]
<1>4. CASE /\ ~Forbidden(q) /\ primary # Nobody
           /\ q.verification => verifier # Nobody
           /\ Set(c, r)
  <2>1. /\ primary \in Providers /\ May(q, primary)
        /\ verifier # Nobody => verifier \in Providers /\ May(q, verifier) /\ verifier # primary
    BY <1>0, <1>4, Chosen
  <2> HIDE DEF primary, verifier
  <2>2. /\ r \in Run /\ r.pc = "list" /\ r.request = q /\ r.primary = primary /\ r.verifier = verifier
        /\ r.left = o.left /\ r.sent = o.sent /\ r.at = o.at /\ r.first = o.first
        /\ r.second = o.second /\ r.marked = o.marked /\ r.result = o.result /\ r.outcome = o.outcome
    BY <1>0, <2>1 DEF Run
  <2> HIDE DEF r
  <2>3. RunInv(r)
    BY <1>0, <1>4, <2>1, <2>2 DEF RunInv, Candidates
  <2> QED
    BY <1>4, <2>2, <2>3, RunMoves
<1> QED
  BY <1>1, <1>2, <1>3, <1>4

LEMMA ListKeeps ==
    ASSUME RoutingInv, NEW c \in Callers, ListCandidates(c)
    PROVE  RoutingInv'
<1> DEFINE o == run[c]
           q == o.request
<1>0. /\ o \in Run /\ RunInv(o) /\ q \in Requests /\ q \in RequestType
      /\ Nobody \notin Providers /\ o.pc = "list" /\ MaxRetries \in Nat
  BY RunFacts DEF ListCandidates
<1>1. PICK up \in BOOLEAN :
        Set(c, [o EXCEPT !.pc = "complete", !.at = o.primary, !.attempts = 0,
                         !.left = {o.primary} \cup Choices(q, up)])
  BY DEF ListCandidates
<1> DEFINE choices == Choices(q, up)
           r == [o EXCEPT !.pc = "complete", !.at = o.primary, !.attempts = 0,
                          !.left = {o.primary} \cup choices]
<1>2. o.primary \in Providers /\ May(q, o.primary)
  BY <1>0 DEF RunInv, Candidates, Run
<1>3. ~Forbidden(q) /\ choices \subseteq Providers /\ \A k \in choices : May(q, k)
  BY <1>0, <1>2, ChoicesMay DEF May
<1>4. Set(c, r)
  BY <1>1
<1> HIDE DEF choices
<1>5. /\ r \in Run /\ r.pc = "complete" /\ r.request = q /\ r.primary = o.primary
      /\ r.verifier = o.verifier /\ r.left = {o.primary} \cup choices /\ r.sent = o.sent
      /\ r.at = o.primary /\ r.first = o.first
      /\ r.second = o.second /\ r.marked = o.marked /\ r.result = o.result /\ r.outcome = o.outcome
  <2>1. 0 \in 0 .. MaxRetries /\ {o.primary} \cup choices \in SUBSET Providers
    BY <1>0, <1>2, <1>3
  <2> QED
    BY <1>0, <1>2, <2>1 DEF Run
<1> HIDE DEF r
<1>6. RunInv(r)
  BY <1>0, <1>2, <1>3, <1>5 DEF RunInv, Candidates
<1> QED
  BY <1>4, <1>5, <1>6, RunMoves

-----------------------------------------------------------------------------
(* Asking a provider *)

\* Who is asked may see the text, and for an analysis it does not crash.
LEMMA Asking ==
    ASSUME RoutingInv, NEW c \in Callers, run[c].pc \in {"complete", "verify"}
    PROVE  /\ run[c].at \in Providers /\ May(run[c].request, run[c].at)
           /\ SentTo(c) \subseteq Providers
           /\ SentTo(c) \subseteq run[c].sent \cup {run[c].at}
           /\ Attempt(c, "again") => run[c].attempts < MaxRetries
           /\ run[c].request.user = "analyzer" => ~Attempt(c, "crash")
<1>0. /\ run[c] \in Run /\ RunInv(run[c]) /\ run[c].request \in Requests
      /\ Nobody \notin Providers
  BY RunFacts
<1>1. run[c].at \in Providers /\ May(run[c].request, run[c].at)
  BY <1>0 DEF RunInv, Candidates, Run
<1>2. SentTo(c) \subseteq Providers /\ SentTo(c) \subseteq run[c].sent \cup {run[c].at}
  BY <1>0, <1>1 DEF SentTo, Run
<1>3. Attempt(c, "again") => run[c].attempts < MaxRetries
  BY DEF Attempt, OllamaOutcomes, OpenAIOutcomes, GeminiOutcomes, HTTPOutcomes
<1>4. run[c].request.user = "analyzer" => ~Attempt(c, "crash")
  <2>1. run[c].request.user = "analyzer" => run[c].at \in {"ollama", "openai"}
    BY <1>0, <1>1, AnalyzerAsks
  <2> QED
    BY <2>1 DEF Attempt, OllamaOutcomes, OpenAIOutcomes
<1> QED
  BY <1>1, <1>2, <1>3, <1>4

LEMMA TryAgainKeeps ==
    ASSUME RoutingInv, NEW c \in Callers, TryAgain(c)
    PROVE  RoutingInv'
<1> DEFINE o == run[c]
<1>0. /\ o \in Run /\ RunInv(o) /\ MaxRetries \in Nat /\ o.pc \in {"complete", "verify"}
      /\ Attempt(c, "again")
  BY RunFacts DEF TryAgain
<1>1. /\ o.at \in Providers /\ May(o.request, o.at) /\ o.attempts < MaxRetries
      /\ SentTo(c) \subseteq Providers /\ SentTo(c) \subseteq o.sent \cup {o.at}
  BY <1>0, Asking
<1>2. PICK sent \in SUBSET Providers :
        sent \subseteq o.sent \cup {o.at} /\ Set(c, [o EXCEPT !.attempts = @ + 1, !.sent = sent])
  BY <1>1 DEF TryAgain
<1> DEFINE r == [o EXCEPT !.attempts = @ + 1, !.sent = sent]
<1>3. /\ r \in Run /\ r.pc = o.pc /\ r.request = o.request /\ r.primary = o.primary
      /\ r.verifier = o.verifier /\ r.left = o.left /\ r.sent = sent /\ r.at = o.at /\ r.first = o.first
      /\ r.second = o.second /\ r.marked = o.marked /\ r.result = o.result /\ r.outcome = o.outcome
  <2>1. o.attempts + 1 \in 0 .. MaxRetries
    BY <1>0, <1>1 DEF Run
  <2> QED
    BY <1>0, <2>1 DEF Run
<1> HIDE DEF r
<1>4. RunInv(r)
  BY <1>0, <1>1, <1>2, <1>3 DEF RunInv, Candidates
<1> QED
  BY <1>2, <1>3, <1>4, RunMoves DEF r

LEMMA CrashKeeps ==
    ASSUME RoutingInv, NEW c \in Callers, Crash(c)
    PROVE  RoutingInv'
<1> DEFINE o == run[c]
<1>0. o \in Run /\ RunInv(o) /\ o.pc \in {"complete", "verify"} /\ Attempt(c, "crash")
  BY RunFacts DEF Crash
<1>1. /\ o.at \in Providers /\ May(o.request, o.at) /\ o.request.user # "analyzer"
      /\ SentTo(c) \subseteq Providers /\ SentTo(c) \subseteq o.sent \cup {o.at}
  BY <1>0, Asking
<1>2. PICK sent \in SUBSET Providers :
        /\ sent \subseteq o.sent \cup {o.at}
        /\ Set(c, [o EXCEPT !.pc = "return", !.result = "crashed", !.sent = sent])
  BY <1>1 DEF Crash
<1> DEFINE r == [o EXCEPT !.pc = "return", !.result = "crashed", !.sent = sent]
<1>3. /\ r \in Run /\ r.pc = "return" /\ r.request = o.request /\ r.primary = o.primary
      /\ r.verifier = o.verifier /\ r.left = o.left /\ r.sent = sent /\ r.at = o.at /\ r.first = o.first
      /\ r.second = o.second /\ r.marked = o.marked /\ r.result = "crashed" /\ r.outcome = o.outcome
  BY <1>0, <1>1 DEF Run
<1> HIDE DEF r
<1>4. RunInv(r)
  BY <1>0, <1>1, <1>2, <1>3 DEF RunInv, Candidates
<1> QED
  BY <1>2, <1>3, <1>4, RunMoves DEF r

LEMMA CompleteKeeps ==
    ASSUME RoutingInv, NEW c \in Callers, Complete(c)
    PROVE  RoutingInv'
<1> DEFINE o == run[c]
<1>0. /\ o \in Run /\ RunInv(o) /\ o.pc = "complete" /\ Nobody \notin Providers /\ MaxRetries \in Nat
      /\ o.request \in Requests
  BY RunFacts DEF Complete
<1>1. /\ o.at \in Providers /\ May(o.request, o.at)
      /\ SentTo(c) \subseteq Providers /\ SentTo(c) \subseteq o.sent \cup {o.at}
  BY <1>0, Asking
<1>2. PICK sent \in SUBSET Providers : sent = SentTo(c)
  BY <1>1
<1> DEFINE answered == [o EXCEPT !.first = o.at, !.sent = sent, !.marked = o.at # o.primary]
<1>3. Set(c, IF o.verifier = Nobody
             THEN [answered EXCEPT !.pc = "return", !.result = "answered"]
             ELSE [answered EXCEPT !.pc = "verify", !.at = o.verifier, !.attempts = 0])
  BY <1>2 DEF Complete
<1>4. /\ answered \in Run /\ answered.request = o.request /\ answered.primary = o.primary
      /\ answered.verifier = o.verifier /\ answered.left = o.left /\ answered.sent = sent
      /\ answered.at = o.at /\ answered.first = o.at /\ answered.marked = (o.at # o.primary)
      /\ answered.result = o.result /\ answered.outcome = o.outcome
  BY <1>0, <1>1 DEF Run
<1> HIDE DEF answered
<1>5. CASE o.verifier = Nobody
  <2> DEFINE r == [answered EXCEPT !.pc = "return", !.result = "answered"]
  <2>1. /\ r \in Run /\ r.pc = "return" /\ r.request = o.request /\ r.primary = o.primary
        /\ r.verifier = o.verifier /\ r.left = o.left /\ r.sent = sent /\ r.at = o.at
        /\ r.first = o.at /\ r.marked = answered.marked /\ r.result = "answered"
        /\ r.outcome = o.outcome
    <3>1. answered \in Run
      BY <1>4
    <3>2. r \in Run
      BY <3>1 DEF Run
    <3>3. /\ r.pc = "return" /\ r.result = "answered"
          /\ r.request = answered.request /\ r.primary = answered.primary
          /\ r.verifier = answered.verifier /\ r.left = answered.left /\ r.sent = answered.sent
          /\ r.at = answered.at /\ r.first = answered.first /\ r.outcome = answered.outcome
      BY <3>1 DEF Run
    <3>4. r.marked = answered.marked
      BY <3>1 DEF Run
    <3> QED
      BY <1>4, <3>2, <3>3, <3>4
  <2>2. Set(c, r)
    BY <1>3, <1>5
  <2> HIDE DEF r
  <2>3. ~o.request.verification
    BY <1>0, <1>5 DEF RunInv
  <2>4. RunInv(r)
    BY <1>0, <1>1, <1>2, <1>4, <2>1, <2>3 DEF RunInv, Candidates
  <2> QED
    BY <2>1, <2>2, <2>4, RunMoves
<1>6. CASE o.verifier # Nobody
  <2> DEFINE r == [answered EXCEPT !.pc = "verify", !.at = o.verifier, !.attempts = 0]
  <2>1. 0 \in 0 .. MaxRetries /\ o.verifier \in Providers
    BY <1>0, <1>6 DEF Run
  <2>2. /\ r \in Run /\ r.pc = "verify" /\ r.request = o.request /\ r.primary = o.primary
        /\ r.verifier = o.verifier /\ r.left = o.left /\ r.sent = sent /\ r.at = o.verifier
        /\ r.first = o.at /\ r.marked = (o.at # o.primary) /\ r.result = o.result
        /\ r.outcome = o.outcome
    BY <1>4, <2>1 DEF Run
  <2>3. Set(c, r)
    BY <1>3, <1>6
  <2> HIDE DEF r
  <2>4. RunInv(r)
    BY <1>0, <1>1, <1>2, <1>6, <2>2 DEF RunInv, Candidates
  <2> QED
    BY <2>2, <2>3, <2>4, RunMoves
<1> QED
  BY <1>5, <1>6

LEMMA FallBackKeeps ==
    ASSUME RoutingInv, NEW c \in Callers, FallBack(c)
    PROVE  RoutingInv'
<1> DEFINE o == run[c]
<1>0. /\ o \in Run /\ RunInv(o) /\ o.pc = "complete" /\ Nobody \notin Providers /\ MaxRetries \in Nat
  BY RunFacts DEF FallBack
<1>1. /\ o.at \in Providers /\ May(o.request, o.at)
      /\ SentTo(c) \subseteq Providers /\ SentTo(c) \subseteq o.sent \cup {o.at}
  BY <1>0, Asking
<1>2. PICK sent \in SUBSET Providers : sent = SentTo(c)
  BY <1>1
<1>3. PICK left \in SUBSET Providers : left = o.left \ {o.at}
  BY <1>0 DEF Run
<1> DEFINE failed == [o EXCEPT !.left = left, !.sent = sent]
<1>4. Set(c, IF left = {} THEN [failed EXCEPT !.pc = "return", !.result = "failed"]
             ELSE [failed EXCEPT !.at = FirstOf(FallbackRank, left), !.attempts = 0])
  BY <1>2, <1>3 DEF FallBack
<1>5. /\ failed \in Run /\ failed.pc = "complete" /\ failed.request = o.request
      /\ failed.primary = o.primary /\ failed.verifier = o.verifier /\ failed.left = left
      /\ failed.sent = sent /\ failed.at = o.at /\ failed.first = o.first
      /\ failed.second = o.second /\ failed.marked = o.marked
      /\ failed.result = o.result /\ failed.outcome = o.outcome
  BY <1>0, <1>1 DEF Run
<1> HIDE DEF failed
<1>6. CASE left = {}
  <2> DEFINE r == [failed EXCEPT !.pc = "return", !.result = "failed"]
  <2>1. /\ r \in Run /\ r.pc = "return" /\ r.request = o.request /\ r.primary = o.primary
        /\ r.verifier = o.verifier /\ r.left = left /\ r.sent = sent /\ r.at = o.at
        /\ r.first = o.first /\ r.second = o.second /\ r.marked = o.marked /\ r.result = "failed"
        /\ r.outcome = o.outcome
    BY <1>5 DEF Run
  <2>2. Set(c, r)
    BY <1>4, <1>6
  <2> HIDE DEF r
  <2>3. RunInv(r)
    BY <1>0, <1>1, <1>2, <1>3, <2>1 DEF RunInv, Candidates
  <2> QED
    BY <2>1, <2>2, <2>3, RunMoves
<1>7. CASE left # {}
  <2>0. PICK next \in left : next = FirstOf(FallbackRank, left)
    BY <1>7, FallbackChooses
  <2> DEFINE r == [failed EXCEPT !.at = next, !.attempts = 0]
  <2>1. 0 \in 0 .. MaxRetries
    BY <1>0
  <2>2. /\ r \in Run /\ r.pc = "complete" /\ r.request = o.request /\ r.primary = o.primary
        /\ r.verifier = o.verifier /\ r.left = left /\ r.sent = sent /\ r.at = next
        /\ r.first = o.first /\ r.second = o.second /\ r.marked = o.marked /\ r.result = o.result
        /\ r.outcome = o.outcome
    BY <1>5, <2>1 DEF Run
  <2>3. Set(c, r)
    BY <1>4, <1>7, <2>0
  <2> HIDE DEF r
  <2>4. next # Nobody /\ next \in o.left
    BY <1>0, <1>3
  <2>5. RunInv(r)
    BY <1>0, <1>1, <1>2, <1>3, <2>2, <2>4 DEF RunInv, Candidates
  <2> QED
    BY <2>2, <2>3, <2>5, RunMoves
<1> QED
  BY <1>6, <1>7

LEMMA VerifyKeeps ==
    ASSUME RoutingInv, NEW c \in Callers, Verify(c)
    PROVE  RoutingInv'
<1> DEFINE o == run[c]
<1>0. o \in Run /\ RunInv(o) /\ o.pc = "verify" /\ Nobody \notin Providers
  BY RunFacts DEF Verify
<1>1. /\ o.at \in Providers /\ May(o.request, o.at)
      /\ SentTo(c) \subseteq Providers /\ SentTo(c) \subseteq o.sent \cup {o.at}
  BY <1>0, Asking
<1>2. PICK sent \in SUBSET Providers : sent = SentTo(c)
  BY <1>1
<1> DEFINE over == [o EXCEPT !.pc = "return", !.sent = sent]
<1>3. \/ Set(c, [over EXCEPT !.second = o.at, !.result = "answered"])
      \/ Set(c, [over EXCEPT !.result = "failed"])
  BY <1>2 DEF Verify
<1>4. /\ over \in Run /\ over.pc = "return" /\ over.request = o.request
      /\ over.primary = o.primary /\ over.verifier = o.verifier /\ over.left = o.left
      /\ over.sent = sent /\ over.at = o.at /\ over.first = o.first
      /\ over.second = o.second /\ over.marked = o.marked
      /\ over.result = o.result /\ over.outcome = o.outcome
  BY <1>0, <1>1 DEF Run
<1> HIDE DEF over
<1>5. CASE Set(c, [over EXCEPT !.second = o.at, !.result = "answered"])
  <2> DEFINE r == [over EXCEPT !.second = o.at, !.result = "answered"]
  <2>1. /\ r \in Run /\ r.pc = "return" /\ r.request = o.request /\ r.primary = o.primary
        /\ r.verifier = o.verifier /\ r.left = o.left /\ r.sent = sent /\ r.at = o.at
        /\ r.first = o.first /\ r.second = o.at /\ r.marked = o.marked /\ r.result = "answered"
        /\ r.outcome = o.outcome
    BY <1>1, <1>4 DEF Run
  <2> HIDE DEF r
  <2>3. RunInv(r)
    BY <1>0, <1>1, <1>2, <2>1 DEF RunInv, Candidates
  <2> QED
    BY <1>5, <2>1, <2>3, RunMoves DEF r
<1>6. CASE Set(c, [over EXCEPT !.result = "failed"])
  <2> DEFINE r == [over EXCEPT !.result = "failed"]
  <2>1. /\ r \in Run /\ r.pc = "return" /\ r.request = o.request /\ r.primary = o.primary
        /\ r.verifier = o.verifier /\ r.left = o.left /\ r.sent = sent /\ r.at = o.at
        /\ r.first = o.first /\ r.second = o.second /\ r.marked = o.marked /\ r.result = "failed"
        /\ r.outcome = o.outcome
    BY <1>4 DEF Run
  <2> HIDE DEF r
  <2>3. RunInv(r)
    BY <1>0, <1>1, <1>2, <2>1 DEF RunInv, Candidates
  <2> QED
    BY <1>6, <2>1, <2>3, RunMoves DEF r
<1> QED
  BY <1>3, <1>5, <1>6

-----------------------------------------------------------------------------
(* The end of a run, and the theorems *)

LEMMA ReturnKeeps ==
    ASSUME RoutingInv, NEW c \in Callers, Return(c)
    PROVE  RoutingInv'
<1> DEFINE o == run[c]
<1>0. o \in Run /\ RunInv(o) /\ o.pc = "return" /\ o.request \in RequestType
  BY RunFacts DEF Return
<1>1. PICK outcome :
        /\ outcome \in IF o.request.user = "analyzer" THEN {Analysis(o)} ELSE Verdicts(o)
        /\ Set(c, [o EXCEPT !.pc = "done", !.outcome = outcome])
  BY DEF Return
<1>2. /\ outcome \in {"model", "heuristic", "unverified", "agreed", "disputed", "error"}
      /\ o.request.user = "analyzer" => outcome \in {"model", "heuristic"}
      /\ o.request.user = "consensus" /\ outcome # "error" => o.result = "answered"
  <2>1. CASE o.request.user = "analyzer"
    <3>1. o.result \in {"answered", "failed"}
      BY <1>0, <2>1 DEF RunInv, Run
    <3> QED
      BY <1>1, <2>1, <3>1 DEF Analysis, Heuristic
  <2>2. CASE o.request.user = "consensus"
    <3>1. outcome \in Verdicts(o)
      BY <1>1, <2>2
    <3>2. CASE o.result = "answered"
      BY <2>2, <3>1, <3>2 DEF Verdicts
    <3>3. CASE o.result # "answered"
      BY <2>2, <3>1, <3>3 DEF Verdicts
    <3> QED
      BY <3>2, <3>3
  <2> QED
    BY <1>0, <2>1, <2>2 DEF RequestType
<1> DEFINE r == [o EXCEPT !.pc = "done", !.outcome = outcome]
<1>3. /\ r \in Run /\ r.pc = "done" /\ r.request = o.request /\ r.primary = o.primary
      /\ r.verifier = o.verifier /\ r.left = o.left /\ r.sent = o.sent /\ r.at = o.at
      /\ r.first = o.first /\ r.second = o.second /\ r.marked = o.marked /\ r.result = o.result
      /\ r.outcome = outcome
  <2>1. o \in Run /\ outcome \in {"model", "heuristic", "unverified", "agreed", "disputed", "error"}
    BY <1>0, <1>2
  <2> QED
    <3>1. r \in Run
      BY <2>1 DEF Run
    <3>2. /\ r.pc = "done" /\ r.request = o.request /\ r.primary = o.primary
          /\ r.verifier = o.verifier /\ r.left = o.left /\ r.sent = o.sent /\ r.at = o.at
          /\ r.first = o.first /\ r.second = o.second /\ r.result = o.result
          /\ r.outcome = outcome
      BY <2>1 DEF Run
    <3>3. r.marked = o.marked
      BY <2>1 DEF Run
    <3> QED
      BY <3>1, <3>2, <3>3
<1> HIDE DEF r
<1>4. RunInv(r)
  BY <1>0, <1>2, <1>3 DEF RunInv, Candidates
<1> QED
  BY <1>1, <1>3, <1>4, RunMoves DEF r

LEMMA RoutingStarts == Init => RoutingInv
<1> SUFFICES ASSUME Init PROVE RoutingInv
  OBVIOUS
<1>1. PICK f \in [Callers -> Requests] : run = [c \in Callers |-> NewRun(f[c])]
  BY DEF Init
<1>2. \A c \in Callers : run[c] \in Run /\ RunInv(run[c])
  BY <1>1, NewRunInv
<1> QED
  BY <1>1, <1>2 DEF Init, RoutingInv, TypeOK

LEMMA RoutingKeeps == RoutingInv /\ [Next]_vars => RoutingInv'
<1> SUFFICES ASSUME RoutingInv, [Next]_vars PROVE RoutingInv'
  OBVIOUS
<1>1. ASSUME NEW c \in Callers, CallerStep(c) PROVE RoutingInv'
  BY <1>1, DecideKeeps, ListKeeps, TryAgainKeeps, CrashKeeps, CompleteKeeps, FallBackKeeps,
     VerifyKeeps, ReturnKeeps DEF CallerStep
<1>2. ASSUME NEW c \in Callers, Start(c) PROVE RoutingInv'
  <2>1. PICK q \in Requests : Set(c, NewRun(q))
    BY <1>2 DEF Start
  <2> QED
    BY <2>1, NewRunInv, RunMoves
<1>3. CASE UNCHANGED vars
  BY <1>3 DEF vars, RoutingInv, TypeOK, RunInv, Candidates, May, Allowed, Forbidden, Policy
<1> QED
  BY <1>1, <1>2, <1>3 DEF Next

\* Everything keeps its type: a provider is asked at most MaxRetries + 1 times
\* (OpenAILegalAnalyzer.analyze).
THEOREM TypeCorrect == Spec => []TypeOK
<1>1. RoutingInv => TypeOK
  BY DEF RoutingInv
<1> QED
  BY <1>1, RoutingStarts, RoutingKeeps, PTL DEF Spec

\* No provider sees a text that the privacy policy, the caller or the address
\* of Ollama keeps from it (ProviderPrivacyPolicy.validate, ModelRouter).
THEOREM OnlyPermitted == Spec => []SentIsPermitted
<1>1. RoutingInv => SentIsPermitted
  <2> SUFFICES ASSUME RoutingInv, NEW c \in Callers, NEW k \in run[c].sent
               PROVE  /\ run[c].request.confidential => k = "ollama" \/ (k = "openai" /\ deployment.cloud)
                      /\ run[c].request.restricted => k \in run[c].request.requested
                      /\ k = "ollama" => deployment.local
    BY DEF SentIsPermitted
  <2>1. May(run[c].request, k)
    BY DEF RoutingInv, RunInv, Candidates
  <2>2. k \in Policy(run[c].request)
    BY <2>1 DEF May, Allowed, Forbidden
  <2> QED
    BY <2>1, <2>2 DEF May, Allowed, Policy
<1> QED
  BY <1>1, RoutingStarts, RoutingKeeps, PTL DEF Spec

\* Verification fails closed, and a provider that verified itself is marked
\* (ModelRouter.run, ModelConsensus.evaluate).
THEOREM FailsClosed == Spec => []VerificationIsHonest
<1>1. RoutingInv => VerificationIsHonest
  <2> SUFFICES ASSUME RoutingInv, NEW c \in Callers, run[c].pc = "done",
                      run[c].request.verification, run[c].outcome # "error"
               PROVE  /\ run[c].first # Nobody /\ run[c].second # Nobody
                      /\ run[c].first = run[c].second =>
                           run[c].marked /\ run[c].first # run[c].primary
    BY DEF VerificationIsHonest
  <2>1. run[c] \in Run /\ RunInv(run[c]) /\ run[c].request \in Requests /\ run[c].request \in RequestType
    BY RunFacts
  <2>2. run[c].request.user = "consensus"
    BY <2>1, AnalyzerAssumption DEF RequestType
  <2> QED
    BY <2>1, <2>2 DEF RunInv
<1> QED
  BY <1>1, RoutingStarts, RoutingKeeps, PTL DEF Spec

\* An analysis never ends in an error (RoutedLegalAnalyzer.analyze).
THEOREM AlwaysAnswered == Spec => []AnalysisAnswered
<1>1. RoutingInv => AnalysisAnswered
  BY DEF RoutingInv, RunInv, AnalysisAnswered
<1> QED
  BY <1>1, RoutingStarts, RoutingKeeps, PTL DEF Spec
=============================================================================
