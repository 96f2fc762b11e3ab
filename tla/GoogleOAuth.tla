------------------------------ MODULE GoogleOAuth ------------------------------
(***************************************************************************)
(* The Google OAuth broker (google_oauth.py): one-time states of consents,  *)
(* the exchange of a code for tokens, and the tokens of each subject, which *)
(* request threads load, refresh and save without a lock.                   *)
(*                                                                         *)
(* A consent is named by the state it was started with; tokens are named by *)
(* the consent they come from.  The states live in the process, the tokens  *)
(* in google_oauth_tokens.  The token endpoint is Google's: an exchange or  *)
(* a refresh answers, or raises.                                            *)
(***************************************************************************)
EXTENDS Naturals

CONSTANTS
    Subjects,
    Consents,        \* states the broker can sign; each has a nonce of its own
    Threads,         \* request threads of the process
    None,
    RefreshTokenMayBeMissing,  \* Google may leave it out of an exchange
    CallsMayFail,    \* requests to Google and to the store may raise
    MaxRestarts      \* bound: restarts of the process

ASSUME NoneAssumption == None \notin Subjects /\ None \notin Consents
ASSUME RestartsAssumption == MaxRestarts \in Nat
ASSUME FaultAssumption == {RefreshTokenMayBeMissing, CallsMayFail} \subseteq BOOLEAN

VARIABLES
    owner,       \* the subject each issued state was signed for
    remembered,  \* InMemoryGoogleOAuthStateStore._states
    expired,     \* states older than OAUTH_STATE_TTL_SECONDS
    row,         \* google_oauth_tokens, by subject
    thread,      \* what each thread is doing
    revoked,     \* consents the user has withdrawn at Google
    restarts,
    exchanges    \* history: code exchanges begun under each state

vars == <<owner, remembered, expired, row, thread, revoked, restarts, exchanges>>
states == <<owner, remembered, expired>>

-----------------------------------------------------------------------------
\* access and refresh: the consents the two tokens come from; fresh: the access
\* token is not about to expire.
TokenSet == [access : Consents, refresh : Consents \cup {None}, fresh : BOOLEAN]
NoTokens == [access |-> None, refresh |-> None, fresh |-> FALSE]

CallbackSteps == {"exchange", "save_grant"}
TokenSteps == {"refresh", "save_refresh"}
ThreadState ==
    [pc : {"idle"} \cup CallbackSteps \cup TokenSteps, subject : Subjects \cup {None},
     consent : Consents \cup {None}, tokens : TokenSet \cup {NoTokens}]
IdleThread == [pc |-> "idle", subject |-> None, consent |-> None, tokens |-> NoTokens]

At(t, pc) == thread[t].pc = pc
Return(t) == thread' = [thread EXCEPT ![t] = IdleThread]

Init ==
    /\ owner = [c \in Consents |-> None]
    /\ remembered = {} /\ expired = {} /\ revoked = {}
    /\ row = [u \in Subjects |-> NoTokens]
    /\ thread = [t \in Threads |-> IdleThread]
    /\ restarts = 0
    /\ exchanges = [c \in Consents |-> 0]

-----------------------------------------------------------------------------
(* authorization_url and exchange_code *)

AuthorizationUrl(u, c) ==
    /\ owner[c] = None
    /\ owner' = [owner EXCEPT ![c] = u]
    /\ remembered' = remembered \cup {c}
    /\ UNCHANGED <<expired, row, thread, revoked, restarts, exchanges>>

\* Mutant: consume reads the state without taking it out.
ConsumeKept(c) == c \in remembered /\ UNCHANGED remembered

\* consume, under the lock of the state store.
Consume(c) == c \in remembered /\ remembered' = remembered \ {c}

\* _verify_state: the signature names the subject, the state is young and has
\* not been consumed.  Any other callback is refused and changes nothing.
Callback(t, c) ==
    /\ At(t, "idle")
    /\ owner[c] # None /\ c \notin expired
    /\ Consume(c)
    /\ thread' = [thread EXCEPT ![t] =
         [pc |-> "exchange", subject |-> owner[c], consent |-> c, tokens |-> NoTokens]]
    /\ exchanges' = [exchanges EXCEPT ![c] = @ + 1]
    /\ UNCHANGED <<owner, expired, row, revoked, restarts>>

\* _token_request with the code; a raise leaves the state consumed.
Exchange(t) ==
    /\ At(t, "exchange")
    /\ \/ /\ thread[t].consent \notin revoked
          /\ \E refresh \in {thread[t].consent} \cup (IF RefreshTokenMayBeMissing THEN {None} ELSE {}) :
               thread' = [thread EXCEPT ![t].pc = "save_grant", ![t].tokens =
                 [access |-> thread[t].consent, refresh |-> refresh, fresh |-> TRUE]]
       \/ CallsMayFail /\ Return(t)
       \/ thread[t].consent \in revoked /\ Return(t)
    /\ UNCHANGED <<states, row, revoked, restarts, exchanges>>

\* upsert_google_oauth_token: a missing refresh token keeps the stored one.
Merged(old, new) == [new EXCEPT !.refresh = IF @ = None THEN old.refresh ELSE @]
Upsert(u, tokens) == row' = [row EXCEPT ![u] = Merged(@, tokens)]

\* Mutant: the callback stores the tokens under another subject.
SaveGrantAnywhere(t) ==
    /\ At(t, "save_grant")
    /\ \E u \in Subjects : Upsert(u, thread[t].tokens)
    /\ Return(t)
    /\ UNCHANGED <<states, revoked, restarts, exchanges>>

SaveGrant(t) ==
    /\ At(t, "save_grant")
    /\ Upsert(thread[t].subject, thread[t].tokens) \/ (CallsMayFail /\ UNCHANGED row)
    /\ Return(t)
    /\ UNCHANGED <<states, revoked, restarts, exchanges>>

-----------------------------------------------------------------------------
(* access_token *)

\* A subject without tokens, with a fresh access token or without a refresh
\* token is answered at once; otherwise the loaded token set is refreshed.
LoadToken(t, u) ==
    /\ At(t, "idle")
    /\ row[u].refresh # None /\ ~row[u].fresh
    /\ thread' = [thread EXCEPT ![t] =
         [pc |-> "refresh", subject |-> u, consent |-> None, tokens |-> row[u]]]
    /\ UNCHANGED <<states, row, revoked, restarts, exchanges>>

\* _refresh: new tokens of the consent the refresh token belongs to.
Refresh(t) ==
    LET consent == thread[t].tokens.refresh
    IN  /\ At(t, "refresh")
        /\ \/ /\ consent \notin revoked
              /\ thread' = [thread EXCEPT ![t].pc = "save_refresh", ![t].tokens =
                   [access |-> consent, refresh |-> consent, fresh |-> TRUE]]
           \/ (CallsMayFail \/ consent \in revoked) /\ Return(t)
        /\ UNCHANGED <<states, row, revoked, restarts, exchanges>>

SaveRefresh(t) ==
    /\ At(t, "save_refresh")
    /\ Upsert(thread[t].subject, thread[t].tokens) \/ (CallsMayFail /\ UNCHANGED row)
    /\ Return(t)
    /\ UNCHANGED <<states, revoked, restarts, exchanges>>

-----------------------------------------------------------------------------
\* Time: a state grows old, and is purged; an access token is about to expire.
StateExpires(c) ==
    /\ owner[c] # None /\ c \notin expired
    /\ expired' = expired \cup {c}
    /\ remembered' = remembered \ {c}
    /\ UNCHANGED <<owner, row, thread, revoked, restarts, exchanges>>

TokenExpires(u) ==
    /\ row[u].fresh
    /\ row' = [row EXCEPT ![u].fresh = FALSE]
    /\ UNCHANGED <<states, thread, revoked, restarts, exchanges>>

\* The user withdraws a consent at Google.
Revoke(c) ==
    /\ c \notin revoked /\ exchanges[c] > 0
    /\ revoked' = revoked \cup {c}
    /\ UNCHANGED <<states, row, thread, restarts, exchanges>>

\* The states are process-local; the token table is not.
Restart ==
    /\ restarts < MaxRestarts
    /\ restarts' = restarts + 1
    /\ remembered' = {}
    /\ thread' = [t \in Threads |-> IdleThread]
    /\ UNCHANGED <<owner, expired, row, revoked, exchanges>>

ThreadStep(t) == Exchange(t) \/ SaveGrant(t) \/ Refresh(t) \/ SaveRefresh(t)

Next ==
    \/ \E t \in Threads :
         \/ ThreadStep(t)
         \/ \E c \in Consents : Callback(t, c)
         \/ \E u \in Subjects : LoadToken(t, u)
    \/ \E c \in Consents : StateExpires(c) \/ Revoke(c) \/ \E u \in Subjects : AuthorizationUrl(u, c)
    \/ \E u \in Subjects : TokenExpires(u)
    \/ Restart

Spec == Init /\ [][Next]_vars

-----------------------------------------------------------------------------
(* Properties *)

TypeOK ==
    /\ owner \in [Consents -> Subjects \cup {None}]
    /\ remembered \subseteq Consents /\ expired \subseteq Consents /\ revoked \subseteq Consents
    /\ row \in [Subjects -> TokenSet \cup {NoTokens}]
    /\ thread \in [Threads -> ThreadState]
    /\ \A t \in Threads :
         /\ thread[t].pc \in CallbackSteps \cup TokenSteps => thread[t].subject # None
         /\ thread[t].pc \in CallbackSteps => thread[t].consent # None
         /\ thread[t].pc \in TokenSteps => thread[t].tokens # NoTokens /\ thread[t].tokens.refresh # None
         /\ At(t, "save_grant") => thread[t].tokens # NoTokens
    /\ restarts \in Nat
    /\ exchanges \in [Consents -> Nat]

\* A state is one-time: however many callbacks bring it, at the same time, late
\* or after a restart, at most one code is exchanged under it.
StateIsOneTime == \A c \in Consents : exchanges[c] <= 1

\* Tokens end up with the subject whose consent they come from.
TokensBelong ==
    \A u \in Subjects :
        /\ row[u] # NoTokens => owner[row[u].access] = u
        /\ row[u].refresh # None => owner[row[u].refresh] = u

\* A subject that can be refreshed stays so, whatever a refresh or a second
\* consent leaves out.
RefreshTokenKept ==
    [][\A u \in Subjects : row[u].refresh # None => row'[u].refresh # None]_vars

-----------------------------------------------------------------------------
(* The inductive strengthening the proofs rest on. *)
OnceInv ==
    /\ StateIsOneTime
    /\ \A c \in Consents : owner[c] = None => exchanges[c] = 0 /\ c \notin remembered
    /\ \A c \in remembered : exchanges[c] = 0
OwnTokens(u, tokens) ==
    /\ tokens # NoTokens => owner[tokens.access] = u
    /\ tokens.refresh # None => owner[tokens.refresh] = u
Belongs(t) ==
    /\ thread[t].pc \in CallbackSteps => owner[thread[t].consent] = thread[t].subject
    /\ thread[t].pc \in CallbackSteps \cup TokenSteps => OwnTokens(thread[t].subject, thread[t].tokens)
BelongInv == TokensBelong /\ \A t \in Threads : Belongs(t)
\* Tokens come from consents under which a code was exchanged.
UsedTokens(tokens) == \A c \in {tokens.access, tokens.refresh} \ {None} : exchanges[c] > 0
UsedInv ==
    /\ \A u \in Subjects : UsedTokens(row[u])
    /\ \A t \in Threads :
         /\ thread[t].pc \in CallbackSteps => exchanges[thread[t].consent] > 0
         /\ thread[t].pc \in CallbackSteps \cup TokenSteps => UsedTokens(thread[t].tokens)

-----------------------------------------------------------------------------
(* Refinement *)

StageOf(c) ==
    CASE owner[c] = None -> "unissued"
      [] owner[c] # None /\ c \in remembered -> "open"
      [] OTHER -> IF exchanges[c] > 0 THEN "used" ELSE "void"
Held(u) == [access |-> row[u].access, refresh |-> row[u].refresh]

\* The broker implements one-time consents: callbacks, late saves, refreshes of
\* a stale token set, failures and restarts never exchange a code twice or for
\* a consent given up, never store for a subject what is not its own, and never
\* lose a refresh token (GoogleOAuthBroker with the state and token stores).
Grant == INSTANCE ConsentGrant WITH
    stage <- [c \in Consents |-> StageOf(c)],
    uses <- exchanges,
    tokens <- [u \in Subjects |-> Held(u)]
ConsentSpec == Grant!Spec
=============================================================================
