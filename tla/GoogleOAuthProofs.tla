--------------------------- MODULE GoogleOAuthProofs ---------------------------
(* Theorems about GoogleOAuth, for any subjects, consents and threads. *)
EXTENDS WorkspaceReader, TLAPS

USE DEF CallbackSteps, TokenSteps

\* A thread that has returned is well typed.
LEMMA ReturnTypes ==
    ASSUME TypeOK, NEW t \in Threads, Return(t)
    PROVE  /\ thread' \in [Threads -> ThreadState]
           /\ thread'[t] = IdleThread
           /\ \A s \in Threads : s # t => thread'[s] = thread[s]
BY DEF TypeOK, Return, ThreadState, IdleThread

\* So is one that got its tokens.
LEMMA GotTypes ==
    ASSUME TypeOK, NEW t \in Threads, NEW pc \in CallbackSteps \cup TokenSteps, NEW tokens \in TokenSet,
           thread' = [thread EXCEPT ![t].pc = pc, ![t].tokens = tokens]
    PROVE  /\ thread' \in [Threads -> ThreadState]
           /\ thread'[t].pc = pc /\ thread'[t].tokens = tokens
           /\ thread'[t].subject = thread[t].subject /\ thread'[t].consent = thread[t].consent
           /\ \A s \in Threads : s # t => thread'[s] = thread[s]
<1>1. thread[t] \in ThreadState
  BY DEF TypeOK
<1>2. [thread[t] EXCEPT !.pc = pc, !.tokens = tokens] \in ThreadState
  BY <1>1 DEF ThreadState
<1>3. thread' = [thread EXCEPT ![t] = [thread[t] EXCEPT !.pc = pc, !.tokens = tokens]]
  BY DEF TypeOK
<1> QED
  BY <1>1, <1>2, <1>3 DEF TypeOK, ThreadState

LEMMA TokensDiffer == NoTokens \notin TokenSet
BY NoneAssumption DEF NoTokens, TokenSet

\* What upsert leaves in the row.
LEMMA MergedTokens ==
    ASSUME NEW old \in TokenSet \cup {NoTokens}, NEW new \in TokenSet
    PROVE  /\ Merged(old, new) \in TokenSet
           /\ Merged(old, new).access = new.access
           /\ Merged(old, new).refresh \in {old.refresh, new.refresh}
           /\ new.refresh # None \/ old.refresh # None => Merged(old, new).refresh # None
BY DEF Merged, TokenSet, NoTokens

LEMMA UpsertTypes ==
    ASSUME TypeOK, NEW u \in Subjects, NEW tokens \in TokenSet, Upsert(u, tokens)
    PROVE  /\ row' \in [Subjects -> TokenSet \cup {NoTokens}]
           /\ row'[u] = Merged(row[u], tokens)
           /\ \A v \in Subjects : v # u => row'[v] = row[v]
<1>1. row[u] \in TokenSet \cup {NoTokens}
  BY DEF TypeOK
<1>2. Merged(row[u], tokens) \in TokenSet
  BY <1>1, MergedTokens
<1> QED
  BY <1>2 DEF Upsert, TypeOK

\* A thread that is about to save has a subject and tokens to save.
LEMMA SavingTypes ==
    ASSUME TypeOK, NEW t \in Threads, thread[t].pc \in {"save_grant", "save_refresh"}
    PROVE  thread[t].subject \in Subjects /\ thread[t].tokens \in TokenSet
<1>1. thread[t] \in ThreadState
  BY DEF TypeOK
<1>2. thread[t].subject # None /\ thread[t].tokens # NoTokens
  BY DEF TypeOK, At
<1> QED
  BY <1>1, <1>2 DEF ThreadState

-----------------------------------------------------------------------------
LEMMA TypeInit == Init => TypeOK
BY DEF Init, TypeOK, ThreadState, IdleThread, At

LEMMA TypeStep == TypeOK /\ [Next]_vars => TypeOK'
<1> SUFFICES ASSUME TypeOK, [Next]_vars PROVE TypeOK'
  OBVIOUS
<1> USE DEF states
<1>1. CASE UNCHANGED vars
  BY <1>1 DEF vars, TypeOK, At
<1>2. ASSUME NEW t \in Threads, NEW c \in Consents, Callback(t, c) PROVE TypeOK'
  <2>1. owner[c] \in Subjects
    BY <1>2 DEF Callback, TypeOK
  <2>2. [pc |-> "exchange", subject |-> owner[c], consent |-> c, tokens |-> NoTokens] \in ThreadState
    BY <2>1 DEF ThreadState
  <2> QED
    BY <1>2, <2>1, <2>2, NoneAssumption DEF Callback, Consume, TypeOK, At
<1>3. ASSUME NEW t \in Threads, Exchange(t) PROVE TypeOK'
  <2>1. thread[t].consent \in Consents
    BY <1>3 DEF Exchange, TypeOK, ThreadState, At
  <2>2. CASE Return(t)
    BY <1>3, <2>2, ReturnTypes DEF Exchange, TypeOK, At, IdleThread
  <2>3. ASSUME NEW refresh \in {thread[t].consent, None},
               thread' = [thread EXCEPT ![t].pc = "save_grant", ![t].tokens =
                 [access |-> thread[t].consent, refresh |-> refresh, fresh |-> TRUE]]
        PROVE  TypeOK'
    <3> DEFINE tokens == [access |-> thread[t].consent, refresh |-> refresh, fresh |-> TRUE]
    <3>1. tokens \in TokenSet
      BY <2>1, <2>3 DEF TokenSet
    <3>2. thread[t].subject # None /\ thread[t].consent # None
      BY <1>3 DEF Exchange, At, TypeOK
    <3>3. thread' = [thread EXCEPT ![t].pc = "save_grant", ![t].tokens = tokens]
      BY <2>3
    <3> HIDE DEF tokens
    <3>4. /\ thread' \in [Threads -> ThreadState]
          /\ thread'[t].pc = "save_grant" /\ thread'[t].tokens = tokens
          /\ thread'[t].subject = thread[t].subject /\ thread'[t].consent = thread[t].consent
          /\ \A s \in Threads : s # t => thread'[s] = thread[s]
      BY <3>1, <3>3, GotTypes
    <3>5. tokens # NoTokens
      BY <3>1, TokensDiffer
    <3> QED
      BY <1>3, <3>2, <3>4, <3>5 DEF Exchange, TypeOK, At
  <2> QED
    BY <1>3, <2>2, <2>3 DEF Exchange
<1>4. ASSUME NEW t \in Threads, SaveGrant(t) PROVE TypeOK'
  <2>1. thread[t].subject \in Subjects /\ thread[t].tokens \in TokenSet
    BY <1>4, SavingTypes DEF SaveGrant, At
  <2>2. row' \in [Subjects -> TokenSet \cup {NoTokens}]
    BY <1>4, <2>1, UpsertTypes DEF SaveGrant, TypeOK
  <2>3. thread[t].consent \in Consents
    BY <1>4 DEF SaveGrant, TypeOK, ThreadState, At
  <2> QED
    BY <1>4, <2>2, <2>3, ReturnTypes DEF SaveGrant, TypeOK, At, IdleThread
<1>5. ASSUME NEW t \in Threads, NEW u \in Subjects, LoadToken(t, u) PROVE TypeOK'
  <2>1. row[u] \in TokenSet /\ row[u].refresh # None
    BY <1>5 DEF LoadToken, TypeOK, NoTokens
  <2>2. [pc |-> "refresh", subject |-> u, consent |-> None, tokens |-> row[u]] \in ThreadState
    BY <2>1 DEF ThreadState
  <2> QED
    BY <1>5, <2>1, <2>2, TokensDiffer, NoneAssumption DEF LoadToken, TypeOK, At
<1>6. ASSUME NEW t \in Threads, Refresh(t) PROVE TypeOK'
  <2> DEFINE consent == thread[t].tokens.refresh
  <2>1. thread[t] \in ThreadState /\ thread[t].subject # None
        /\ thread[t].tokens # NoTokens /\ consent # None
    BY <1>6 DEF Refresh, At, TypeOK
  <2>2. consent \in Consents
    BY <2>1 DEF ThreadState, TokenSet
  <2>3. CASE Return(t)
    BY <1>6, <2>3, ReturnTypes DEF Refresh, TypeOK, At, IdleThread
  <2>4. CASE thread' = [thread EXCEPT ![t].pc = "save_refresh", ![t].tokens =
                [access |-> consent, refresh |-> consent, fresh |-> TRUE]]
    <3> DEFINE tokens == [access |-> consent, refresh |-> consent, fresh |-> TRUE]
    <3>1. tokens \in TokenSet
      BY <2>2 DEF TokenSet
    <3>2. thread' = [thread EXCEPT ![t].pc = "save_refresh", ![t].tokens = tokens]
      BY <2>4
    <3>5. tokens.refresh # None
      BY <2>1
    <3> HIDE DEF tokens, consent
    <3>3. /\ thread' \in [Threads -> ThreadState]
          /\ thread'[t].pc = "save_refresh" /\ thread'[t].tokens = tokens
          /\ thread'[t].subject = thread[t].subject /\ thread'[t].consent = thread[t].consent
          /\ \A s \in Threads : s # t => thread'[s] = thread[s]
      BY <3>1, <3>2, GotTypes
    <3>4. tokens # NoTokens
      BY <3>1, TokensDiffer
    <3> QED
      BY <1>6, <2>1, <3>3, <3>4, <3>5 DEF Refresh, TypeOK, At
  <2> QED
    BY <1>6, <2>3, <2>4 DEF Refresh
<1>7. ASSUME NEW t \in Threads, SaveRefresh(t) PROVE TypeOK'
  <2>1. thread[t].subject \in Subjects /\ thread[t].tokens \in TokenSet
    BY <1>7, SavingTypes DEF SaveRefresh, At
  <2>2. row' \in [Subjects -> TokenSet \cup {NoTokens}]
    BY <1>7, <2>1, UpsertTypes DEF SaveRefresh, TypeOK
  <2> QED
    BY <1>7, <2>2, ReturnTypes DEF SaveRefresh, TypeOK, At, IdleThread
<1>8. ASSUME NEW u \in Subjects, NEW c \in Consents, AuthorizationUrl(u, c) PROVE TypeOK'
  BY <1>8 DEF AuthorizationUrl, TypeOK, At
<1>9. ASSUME NEW c \in Consents, StateExpires(c) \/ Revoke(c) PROVE TypeOK'
  BY <1>9 DEF StateExpires, Revoke, TypeOK, At
<1>10. ASSUME NEW u \in Subjects, TokenExpires(u) PROVE TypeOK'
  <2>1. [row[u] EXCEPT !.fresh = FALSE] \in TokenSet \cup {NoTokens}
    <3>1. CASE row[u] = NoTokens
      BY <1>10, <3>1 DEF TokenExpires, NoTokens
    <3>2. CASE row[u] \in TokenSet
      BY <3>2 DEF TokenSet
    <3> QED
      BY <3>1, <3>2 DEF TypeOK
  <2>2. row' = [row EXCEPT ![u] = [row[u] EXCEPT !.fresh = FALSE]]
    BY <1>10 DEF TokenExpires, TypeOK
  <2> QED
    BY <1>10, <2>1, <2>2 DEF TokenExpires, TypeOK, At
<1>11. CASE Restart
  <2>1. thread' \in [Threads -> ThreadState] /\ \A t \in Threads : thread'[t] = IdleThread
    BY <1>11 DEF Restart, ThreadState, IdleThread
  <2> QED
    BY <1>11, <2>1 DEF Restart, TypeOK, At, IdleThread
<1> QED
  BY <1>1, <1>2, <1>3, <1>4, <1>5, <1>6, <1>7, <1>8, <1>9, <1>10, <1>11 DEF Next, ThreadStep

\* Every variable keeps its type.
THEOREM TypeCorrect == Spec => []TypeOK
BY TypeInit, TypeStep, PTL DEF Spec

-----------------------------------------------------------------------------
(* One exchange per state *)

LEMMA OnceStep == TypeOK /\ OnceInv /\ [Next]_vars => OnceInv'
<1> SUFFICES ASSUME TypeOK, OnceInv, [Next]_vars PROVE OnceInv'
  OBVIOUS
<1> USE DEF OnceInv, StateIsOneTime, states
<1>1. CASE UNCHANGED <<owner, remembered, exchanges>>
  BY <1>1
<1>2. ASSUME NEW t \in Threads, NEW c \in Consents, Callback(t, c) PROVE OnceInv'
  BY <1>2 DEF Callback, Consume, TypeOK
<1>3. ASSUME NEW u \in Subjects, NEW c \in Consents, AuthorizationUrl(u, c) PROVE OnceInv'
  BY <1>3, NoneAssumption DEF AuthorizationUrl, TypeOK
<1>4. ASSUME NEW c \in Consents, StateExpires(c) PROVE OnceInv'
  BY <1>4 DEF StateExpires
<1>5. CASE Restart
  BY <1>5 DEF Restart
<1> QED
  BY <1>1, <1>2, <1>3, <1>4, <1>5
  DEF Next, vars, ThreadStep, Exchange, SaveGrant, LoadToken, Refresh, SaveRefresh, Revoke, TokenExpires

\* At most one code is ever exchanged under a state.
THEOREM OneTime == Spec => []StateIsOneTime
<1>1. Init => OnceInv
  BY DEF Init, OnceInv, StateIsOneTime
<1>2. OnceInv => StateIsOneTime
  BY DEF OnceInv
<1> QED
  BY <1>1, <1>2, OnceStep, TypeInit, TypeStep, PTL DEF Spec

-----------------------------------------------------------------------------
(* Refresh tokens are kept *)

\* A subject that can be refreshed stays so.
THEOREM RefreshKept == Spec => RefreshTokenKept
<1>1. TypeOK /\ [Next]_vars =>
        [\A u \in Subjects : row[u].refresh # None => row'[u].refresh # None]_vars
  <2> SUFFICES ASSUME TypeOK, Next, NEW u \in Subjects, row[u].refresh # None
               PROVE  row'[u].refresh # None
    OBVIOUS
  <2>1. CASE UNCHANGED row
    BY <2>1
  <2>2. ASSUME NEW v \in Subjects, NEW tokens \in TokenSet, Upsert(v, tokens)
        PROVE  row'[u].refresh # None
    <3>1. row[u] \in TokenSet \cup {NoTokens}
      BY DEF TypeOK
    <3> QED
      BY <2>2, <3>1, UpsertTypes, MergedTokens
  <2>3. ASSUME NEW t \in Threads, SaveGrant(t) \/ SaveRefresh(t) PROVE row'[u].refresh # None
    <3>1. thread[t].subject \in Subjects /\ thread[t].tokens \in TokenSet
      BY <2>3, SavingTypes DEF SaveGrant, SaveRefresh, At
    <3> QED
      BY <2>1, <2>2, <2>3, <3>1 DEF SaveGrant, SaveRefresh
  <2>4. ASSUME NEW v \in Subjects, TokenExpires(v) PROVE row'[u].refresh # None
    <3>1. row[u] \in TokenSet \cup {NoTokens}
      BY DEF TypeOK
    <3>2. row' = [row EXCEPT ![v] = [row[v] EXCEPT !.fresh = FALSE]]
      BY <2>4 DEF TokenExpires, TypeOK
    <3> QED
      BY <3>1, <3>2 DEF TypeOK, TokenSet, NoTokens
  <2> QED
    BY <2>1, <2>3, <2>4
    DEF Next, ThreadStep, Exchange, Callback, LoadToken, Refresh, Revoke, StateExpires,
        AuthorizationUrl, Restart, states
<1> QED
  BY <1>1, TypeInit, TypeStep, PTL DEF Spec, RefreshTokenKept

-----------------------------------------------------------------------------
(* Tokens belong to the subject that consented *)

\* Owners are set once.
LEMMA OwnersKept ==
    ASSUME TypeOK, [Next]_vars, NEW c \in Consents, owner[c] # None
    PROVE  owner'[c] = owner[c]
BY DEF Next, vars, ThreadStep, Exchange, SaveGrant, LoadToken, Refresh, SaveRefresh, Revoke,
       TokenExpires, Callback, AuthorizationUrl, StateExpires, Restart, states, TypeOK

LEMMA OwnKept ==
    ASSUME TypeOK, [Next]_vars, NEW u \in Subjects, NEW tokens \in TokenSet \cup {NoTokens},
           OwnTokens(u, tokens)
    PROVE  OwnTokens(u, tokens)'
<1>1. tokens # NoTokens => tokens.access \in Consents
  BY DEF TokenSet
<1>2. tokens.refresh # None => tokens.refresh \in Consents
  BY DEF TokenSet, NoTokens
<1> QED
  BY <1>1, <1>2, OwnersKept, NoneAssumption DEF OwnTokens

LEMMA BelongInit == Init => BelongInv
BY DEF Init, BelongInv, TokensBelong, Belongs, IdleThread, NoTokens

\* TokensBelong, in terms of what a subject owns.
LEMMA RowsOwned == TokensBelong <=> \A u \in Subjects : OwnTokens(u, row[u])
BY DEF TokensBelong, OwnTokens

LEMMA BelongStep == TypeOK /\ BelongInv /\ [Next]_vars => BelongInv'
<1> SUFFICES ASSUME TypeOK, BelongInv, [Next]_vars PROVE BelongInv'
  OBVIOUS
<1> USE DEF states
<1>0. TypeOK'
  BY TypeStep
<1>1. \A t \in Threads : thread'[t] = thread[t] => Belongs(t)'
  <2> SUFFICES ASSUME NEW t \in Threads, thread'[t] = thread[t] PROVE Belongs(t)'
    OBVIOUS
  <2>1. thread[t] \in ThreadState /\ Belongs(t)
    BY DEF TypeOK, BelongInv
  <2>2. CASE thread[t].pc \in CallbackSteps \cup TokenSteps
    <3>1. thread[t].subject \in Subjects
      BY <2>1, <2>2 DEF TypeOK, ThreadState
    <3>2. thread[t].tokens \in TokenSet \cup {NoTokens}
      BY <2>1 DEF ThreadState
    <3>3. PICK u, tokens : u = thread[t].subject /\ tokens = thread[t].tokens
      OBVIOUS
    <3>4. OwnTokens(u, tokens)'
      BY <2>1, <2>2, <3>1, <3>2, <3>3, OwnKept DEF Belongs
    <3>5. thread[t].pc \in CallbackSteps => owner'[thread[t].consent] = thread[t].subject
      <4>1. thread[t].pc \in CallbackSteps => thread[t].consent \in Consents
        BY <2>1 DEF TypeOK, ThreadState
      <4> QED
        BY <2>1, <3>1, <4>1, OwnersKept, NoneAssumption DEF Belongs
    <3>6. OwnTokens(thread[t].subject, thread[t].tokens)'
      BY <3>3, <3>4
    <3> QED
      BY <3>5, <3>6 DEF Belongs
  <2>3. CASE thread[t].pc \notin CallbackSteps \cup TokenSteps
    BY <2>3 DEF Belongs
  <2> QED
    BY <2>2, <2>3
<1>2. \A u \in Subjects : row'[u] = row[u] => OwnTokens(u, row[u])'
  <2> SUFFICES ASSUME NEW u \in Subjects, row'[u] = row[u] PROVE OwnTokens(u, row[u])'
    OBVIOUS
  <2>1. OwnTokens(u, row[u]) /\ row[u] \in TokenSet \cup {NoTokens}
    BY RowsOwned DEF BelongInv, TypeOK
  <2>2. PICK tokens : tokens = row[u]
    OBVIOUS
  <2>3. OwnTokens(u, tokens)'
    BY <2>1, <2>2, OwnKept
  <2> QED
    BY <2>2, <2>3
\* A step of a thread that leaves the rows alone, or the other way round.
<1>3. ASSUME NEW t \in Threads, UNCHANGED row, Belongs(t)',
             \A s \in Threads : s # t => thread'[s] = thread[s]
      PROVE  BelongInv'
  <2>1. \A u \in Subjects : OwnTokens(u, row[u])'
    BY <1>2, <1>3
  <2>2. TokensBelong'
    BY <2>1 DEF TokensBelong, OwnTokens
  <2> QED
    BY <1>1, <1>3, <2>2 DEF BelongInv
<1>4. CASE UNCHANGED <<row, thread>>
  <2>1. \A u \in Subjects : OwnTokens(u, row[u])'
    BY <1>2, <1>4
  <2>2. TokensBelong'
    BY <2>1 DEF TokensBelong, OwnTokens
  <2> QED
    BY <1>1, <1>4, <2>2 DEF BelongInv
<1>5. ASSUME NEW t \in Threads, thread'[t] = IdleThread PROVE Belongs(t)'
  BY <1>5 DEF Belongs, IdleThread
<1>6. ASSUME NEW t \in Threads, NEW c \in Consents, Callback(t, c) PROVE BelongInv'
  <2>1. /\ thread'[t] = [pc |-> "exchange", subject |-> owner[c], consent |-> c, tokens |-> NoTokens]
        /\ \A s \in Threads : s # t => thread'[s] = thread[s]
        /\ UNCHANGED <<owner, row>>
    BY <1>6 DEF Callback, TypeOK
  <2>2. Belongs(t)'
    BY <2>1 DEF Belongs, OwnTokens, NoTokens
  <2> QED
    BY <1>3, <2>1, <2>2
<1>7. ASSUME NEW t \in Threads, Exchange(t) \/ Refresh(t) PROVE BelongInv'
  <2>1. UNCHANGED <<owner, row>> /\ thread[t] \in ThreadState /\ Belongs(t)
    BY <1>7 DEF Exchange, Refresh, TypeOK, BelongInv
  <2>2. CASE Return(t)
    BY <1>3, <1>5, <2>1, <2>2, ReturnTypes
  <2>3. ASSUME NEW pc \in {"save_grant", "save_refresh"}, NEW tokens \in TokenSet,
               thread' = [thread EXCEPT ![t].pc = pc, ![t].tokens = tokens],
               owner[tokens.access] = thread[t].subject,
               tokens.refresh # None => owner[tokens.refresh] = thread[t].subject,
               pc = "save_grant" => owner[thread[t].consent] = thread[t].subject
        PROVE  BelongInv'
    <3>1. /\ thread' \in [Threads -> ThreadState]
          /\ thread'[t].pc = pc /\ thread'[t].tokens = tokens
          /\ thread'[t].subject = thread[t].subject /\ thread'[t].consent = thread[t].consent
          /\ \A s \in Threads : s # t => thread'[s] = thread[s]
      <4>1. pc \in CallbackSteps \cup TokenSteps
        OBVIOUS
      <4>2. thread' = [thread EXCEPT ![t].pc = pc, ![t].tokens = tokens]
        BY <2>3
      <4> QED
        BY <4>1, <4>2, GotTypes
    <3>2. Belongs(t)'
      BY <2>1, <2>3, <3>1 DEF Belongs, OwnTokens
    <3> QED
      BY <1>3, <2>1, <3>1, <3>2
  <2>4. ASSUME Exchange(t), NEW refresh \in {thread[t].consent, None},
               thread' = [thread EXCEPT ![t].pc = "save_grant", ![t].tokens =
                 [access |-> thread[t].consent, refresh |-> refresh, fresh |-> TRUE]]
        PROVE  BelongInv'
    <3> DEFINE tokens == [access |-> thread[t].consent, refresh |-> refresh, fresh |-> TRUE]
    <3>1. thread[t].consent \in Consents /\ owner[thread[t].consent] = thread[t].subject
      BY <2>1, <2>4 DEF Exchange, At, Belongs, TypeOK, ThreadState
    <3>2. tokens \in TokenSet /\ tokens.access = thread[t].consent /\ tokens.refresh = refresh
      BY <2>4, <3>1 DEF TokenSet
    <3>3. thread' = [thread EXCEPT ![t].pc = "save_grant", ![t].tokens = tokens]
      BY <2>4
    <3> HIDE DEF tokens
    <3> QED
      BY <2>3, <2>4, <3>1, <3>2, <3>3
  <2>5. ASSUME Refresh(t),
               thread' = [thread EXCEPT ![t].pc = "save_refresh", ![t].tokens =
                 [access |-> thread[t].tokens.refresh, refresh |-> thread[t].tokens.refresh, fresh |-> TRUE]]
        PROVE  BelongInv'
    <3> DEFINE consent == thread[t].tokens.refresh
               tokens == [access |-> consent, refresh |-> consent, fresh |-> TRUE]
    <3>1. thread[t].tokens # NoTokens /\ consent # None
      BY <2>5 DEF Refresh, At, TypeOK
    <3>2. consent \in Consents
      BY <2>1, <3>1 DEF ThreadState, TokenSet
    <3>3. owner[consent] = thread[t].subject
      BY <2>1, <2>5, <3>1 DEF Refresh, At, Belongs, OwnTokens
    <3>4. tokens \in TokenSet /\ tokens.access = consent /\ tokens.refresh = consent
      BY <3>2 DEF TokenSet
    <3>5. thread' = [thread EXCEPT ![t].pc = "save_refresh", ![t].tokens = tokens]
      BY <2>5
    <3> HIDE DEF tokens, consent
    <3> QED
      BY <2>3, <3>3, <3>4, <3>5
  <2> QED
    BY <1>7, <2>2, <2>4, <2>5 DEF Exchange, Refresh
<1>8. ASSUME NEW t \in Threads, NEW u \in Subjects, LoadToken(t, u) PROVE BelongInv'
  <2>1. /\ thread'[t] = [pc |-> "refresh", subject |-> u, consent |-> None, tokens |-> row[u]]
        /\ \A s \in Threads : s # t => thread'[s] = thread[s]
        /\ UNCHANGED <<owner, row>>
    BY <1>8 DEF LoadToken, TypeOK
  <2>2. OwnTokens(u, row[u])
    BY RowsOwned DEF BelongInv
  <2>3. Belongs(t)'
    BY <2>1, <2>2 DEF Belongs, OwnTokens
  <2> QED
    BY <1>3, <2>1, <2>3
<1>9. ASSUME NEW t \in Threads, SaveGrant(t) \/ SaveRefresh(t) PROVE BelongInv'
  <2>1. /\ thread[t].subject \in Subjects /\ thread[t].tokens \in TokenSet
        /\ OwnTokens(thread[t].subject, thread[t].tokens)
    BY <1>9, SavingTypes DEF SaveGrant, SaveRefresh, At, BelongInv, Belongs
  <2>2. Return(t) /\ UNCHANGED owner
    BY <1>9 DEF SaveGrant, SaveRefresh
  <2>3. thread'[t] = IdleThread /\ \A s \in Threads : s # t => thread'[s] = thread[s]
    BY <2>2, ReturnTypes
  <2>4. CASE UNCHANGED row
    BY <1>3, <1>5, <2>3, <2>4
  <2>5. CASE Upsert(thread[t].subject, thread[t].tokens)
    <3> DEFINE u == thread[t].subject
               tokens == thread[t].tokens
    <3>1. row[u] \in TokenSet \cup {NoTokens} /\ OwnTokens(u, row[u])
      BY <2>1, RowsOwned DEF TypeOK, BelongInv
    <3>2. row'[u] = Merged(row[u], tokens) /\ \A v \in Subjects : v # u => row'[v] = row[v]
      BY <2>1, <2>5, UpsertTypes
    <3>3. /\ Merged(row[u], tokens).access = tokens.access
          /\ Merged(row[u], tokens).refresh \in {row[u].refresh, tokens.refresh}
      BY <2>1, <3>1, MergedTokens
    <3>4. OwnTokens(u, Merged(row[u], tokens))
      BY <2>1, <3>1, <3>3, TokensDiffer DEF OwnTokens
    <3>5. \A v \in Subjects : OwnTokens(v, row[v])'
      <4> SUFFICES ASSUME NEW v \in Subjects PROVE OwnTokens(v, row[v])'
        OBVIOUS
      <4>1. CASE v = u
        BY <2>2, <3>2, <3>4, <4>1 DEF OwnTokens
      <4>2. CASE v # u
        BY <1>2, <3>2, <4>2
      <4> QED
        BY <4>1, <4>2
    <3>6. TokensBelong'
      BY <3>5 DEF TokensBelong, OwnTokens
    <3>7. \A s \in Threads : Belongs(s)'
      BY <1>1, <1>5, <2>3
    <3> QED
      BY <3>6, <3>7 DEF BelongInv
  <2> QED
    BY <1>9, <2>4, <2>5 DEF SaveGrant, SaveRefresh
<1>10. ASSUME NEW u \in Subjects, TokenExpires(u) PROVE BelongInv'
  <2>1. row' = [row EXCEPT ![u] = [row[u] EXCEPT !.fresh = FALSE]] /\ UNCHANGED <<owner, thread>>
    BY <1>10 DEF TokenExpires, TypeOK
  <2>2. row[u] \in TokenSet /\ OwnTokens(u, row[u])
    BY <1>10, RowsOwned DEF TokenExpires, TypeOK, BelongInv, NoTokens
  <2>3. row'[u].access = row[u].access /\ row'[u].refresh = row[u].refresh
    BY <2>1, <2>2 DEF TypeOK, TokenSet
  <2>4. OwnTokens(u, row[u])'
    BY <2>1, <2>2, <2>3, TokensDiffer DEF OwnTokens
  <2>5. \A v \in Subjects : v # u => row'[v] = row[v]
    BY <2>1 DEF TypeOK
  <2>6. \A v \in Subjects : OwnTokens(v, row[v])'
    BY <1>2, <2>4, <2>5
  <2>7. TokensBelong'
    BY <2>6 DEF TokensBelong, OwnTokens
  <2> QED
    BY <1>1, <2>1, <2>7 DEF BelongInv
<1>11. CASE Restart
  <2>1. UNCHANGED row /\ \A t \in Threads : thread'[t] = IdleThread
    BY <1>11 DEF Restart
  <2>2. \A u \in Subjects : OwnTokens(u, row[u])'
    BY <1>2, <2>1
  <2>3. TokensBelong'
    BY <2>2 DEF TokensBelong, OwnTokens
  <2> QED
    BY <1>5, <2>1, <2>3 DEF BelongInv
<1> QED
  BY <1>4, <1>6, <1>7, <1>8, <1>9, <1>10, <1>11
  DEF Next, vars, ThreadStep, AuthorizationUrl, StateExpires, Revoke

\* The tokens of a subject come from consents that were started for it.
THEOREM TokensStayApart == Spec => []TokensBelong
<1>1. BelongInv => TokensBelong
  BY DEF BelongInv
<1> QED
  BY <1>1, BelongInit, BelongStep, TypeInit, TypeStep, PTL DEF Spec

-----------------------------------------------------------------------------
(* The reader: its steps are steps of the broker, and what it answers is the   *)
(* subject's own.                                                             *)

LEMMA ResolvedSubject ==
    ASSUME NEW u \in Subjects
    PROVE  Resolve(u) \in Subjects /\ Resolve(u) # None
BY SubjectAssumption, NoneAssumption DEF Resolve

\* The broker cannot tell a reader from any other caller of access_token.
LEMMA ReaderStepsBroker == ReaderInv /\ [ReaderNext]_readerVars => [Next]_vars
<1> SUFFICES ASSUME ReaderInv, [ReaderNext]_readerVars PROVE [Next]_vars
  OBVIOUS
<1>1. CASE UNCHANGED readerVars
  BY <1>1 DEF readerVars
<1>2. ASSUME NEW t \in Threads, ReaderStep(t) PROVE [Next]_vars
  <2>1. CASE BeginRefresh(t)
    <3>1. reading[t].subject \in Subjects
      BY <2>1 DEF BeginRefresh, ReaderInv, ReadsFor
    <3> QED
      BY <2>1, <3>1 DEF BeginRefresh, Next
  <2>2. CASE RefreshForReader(t) \/ SaveForReader(t)
    BY <2>2 DEF RefreshForReader, SaveForReader, Next, ThreadStep
  <2>3. CASE TokenAtHand(t) \/ GetList(t) \/ GetMessage(t) \/ GetFails(t)
    BY <2>3 DEF TokenAtHand, GetList, GetMessage, GetFails
  <2> QED
    BY <1>2, <2>1, <2>2, <2>3 DEF ReaderStep
<1>3. CASE BrokerStep
  BY <1>3, ResolvedSubject DEF BrokerStep, Next, ThreadStep
<1>4. CASE RestartAll
  BY <1>4 DEF RestartAll, Next
<1>5. ASSUME NEW t \in Threads, NEW u \in Subjects, NEW markers, ReadCommand(t, u, markers)
      PROVE  [Next]_vars
  BY <1>5 DEF ReadCommand
<1> QED
  BY <1>1, <1>2, <1>3, <1>4, <1>5 DEF ReaderNext

\* What a thread reads stays right while other threads work.
LEMMA OtherReader ==
    ASSUME TypeOK, [Next]_vars, ReaderTypeOK, NEW t \in Threads, ReadsFor(t),
           reading'[t] = reading[t],
           reading[t].pc = "refresh" => thread'[t] = thread[t]
    PROVE  ReadsFor(t)'
<1> DEFINE r == reading[t]
<1>1. r \in Reading
  BY DEF ReaderTypeOK
<1>2. \A c \in r.under : c \in Consents /\ owner[c] # None /\ owner'[c] = owner[c]
  BY <1>1, OwnersKept, NoneAssumption DEF ReadsFor, Reading
<1>3. r.pc = "get" => owner[r.token] # None /\ owner'[r.token] = owner[r.token]
  BY OwnersKept, NoneAssumption DEF ReadsFor
<1> QED
  BY <1>2, <1>3 DEF ReadsFor

\* The invariant, when one thread goes on.
LEMMA OneReader ==
    ASSUME TypeOK, [Next]_vars, ReaderInv, NEW t \in Threads, NEW r \in Reading,
           Step(t, r), commands' \in 0 .. MaxCommands,
           \A s \in Threads : s # t => thread'[s] = thread[s],
           reading'[t] = r => ReadsFor(t)'
    PROVE  ReaderInv'
<1>1. /\ reading' \in [Threads -> Reading] /\ reading'[t] = r
      /\ \A s \in Threads : s # t => reading'[s] = reading[s]
  BY DEF Step, ReaderInv, ReaderTypeOK
<1>2. \A s \in Threads : s # t => ReadsFor(s)'
  BY <1>1, OtherReader DEF ReaderInv
<1> QED
  BY <1>1, <1>2 DEF ReaderInv, ReaderTypeOK

\* A command that has ended, unsuccessfully, claims nothing.
LEMMA Ended ==
    ASSUME TypeOK, [Next]_vars, ReaderInv, NEW t \in Threads,
           NEW status \in {"auth_required", "failed"}, End(t, status),
           commands' \in 0 .. MaxCommands,
           \A s \in Threads : s # t => thread'[s] = thread[s]
    PROVE  ReaderInv'
<1> DEFINE r == [NotReading EXCEPT !.status = status]
<1>0. NotReading \in Reading /\ NotReading.pc = "idle" /\ NotReading.under = {}
  BY ReaderBounds DEF NotReading, Reading
<1>1. r \in Reading /\ r.pc = "idle" /\ r.under = {} /\ r.status = status
  BY <1>0 DEF Reading
<1>2. Step(t, r)
  BY DEF End
<1> HIDE DEF r
<1>3. reading'[t] = r => ReadsFor(t)'
  BY <1>1 DEF ReadsFor
<1> QED
  BY <1>1, <1>2, <1>3, OneReader

LEMMA ReaderStarts == ReaderInit => ReaderInv
BY ReaderBounds DEF ReaderInit, ReaderInv, ReaderTypeOK, ReadsFor, NotReading, Reading

LEMMA ReaderStepKeeps ==
    ASSUME TypeOK, BelongInv, ReaderInv, [Next]_vars, NEW t \in Threads, ReaderStep(t)
    PROVE  ReaderInv'
<1> DEFINE o == reading[t]
<1>0. /\ o \in Reading /\ ReadsFor(t) /\ commands \in 0 .. MaxCommands
      /\ thread[t] \in ThreadState /\ Belongs(t)
  BY DEF ReaderInv, ReaderTypeOK, TypeOK, BelongInv
<1>1. \A c \in o.under : owner[c] # None /\ owner'[c] = owner[c] /\ owner[c] = o.asked /\ o.asked \in Subjects
  <2>1. \A c \in o.under : c \in Consents /\ owner[c] = o.asked /\ o.asked \in Subjects
    BY <1>0 DEF ReadsFor, Reading
  <2> QED
    BY <2>1, OwnersKept, NoneAssumption
<1>2. CASE TokenAtHand(t)
  <2>0. /\ o.pc = "token" /\ o.asked \in Subjects /\ o.subject = o.asked /\ o.status = "none"
        /\ IF o.list THEN o.got = 0 ELSE o.got < o.listed
        /\ UNCHANGED <<vars, commands>>
    BY <1>0, <1>2 DEF TokenAtHand, ReadsFor
  <2>1. CASE row[o.subject].fresh /\ Step(t, [o EXCEPT !.pc = "get", !.token = row[o.subject].access])
    <3> DEFINE r == [o EXCEPT !.pc = "get", !.token = row[o.subject].access]
    <3>1. row[o.subject] # NoTokens /\ row[o.subject] \in TokenSet
      BY <2>0, <2>1 DEF TypeOK, NoTokens
    <3>2. row[o.subject].access \in Consents /\ owner[row[o.subject].access] = o.asked
      BY <2>0, <3>1 DEF BelongInv, TokensBelong, TokenSet
    <3>3. /\ r \in Reading /\ r.pc = "get" /\ r.token = row[o.subject].access
          /\ r.asked = o.asked /\ r.subject = o.subject /\ r.status = o.status /\ r.list = o.list
          /\ r.got = o.got /\ r.listed = o.listed /\ r.under = o.under
      BY <1>0, <3>2 DEF Reading
    <3> HIDE DEF r
    <3>4. reading'[t] = r => ReadsFor(t)'
      BY <1>1, <2>0, <3>2, <3>3 DEF ReadsFor, vars
    <3> QED
      BY <1>0, <2>0, <2>1, <3>3, <3>4, OneReader DEF vars, r
  <2>2. CASE \E status \in {"auth_required", "failed"} : End(t, status)
    BY <1>0, <2>0, <2>2, Ended DEF vars
  <2> QED
    BY <1>2, <2>1, <2>2 DEF TokenAtHand
<1>3. CASE BeginRefresh(t)
  <2>0. /\ o.pc = "token" /\ o.asked \in Subjects /\ o.subject = o.asked /\ o.status = "none"
        /\ IF o.list THEN o.got = 0 ELSE o.got < o.listed
        /\ UNCHANGED commands /\ Step(t, [o EXCEPT !.pc = "refresh"])
    BY <1>0, <1>3 DEF BeginRefresh, ReadsFor
  <2> DEFINE r == [o EXCEPT !.pc = "refresh"]
  <2>1. /\ r \in Reading /\ r.pc = "refresh"
        /\ r.asked = o.asked /\ r.subject = o.subject /\ r.status = o.status /\ r.list = o.list
        /\ r.got = o.got /\ r.listed = o.listed /\ r.under = o.under
    BY <1>0 DEF Reading
  <2>2. Step(t, r)
    BY <2>0
  <2>3. /\ thread'[t].pc = "refresh" /\ thread'[t].subject = o.asked
        /\ \A s \in Threads : s # t => thread'[s] = thread[s]
    BY <1>3, <2>0 DEF BeginRefresh, LoadToken, TypeOK
  <2> HIDE DEF r
  <2>4. reading'[t] = r => ReadsFor(t)'
    BY <1>1, <2>0, <2>1, <2>3 DEF ReadsFor, TokenSteps
  <2> QED
    BY <1>0, <2>0, <2>1, <2>2, <2>3, <2>4, OneReader
<1>4. CASE RefreshForReader(t)
  <2>0. /\ o.pc = "refresh" /\ UNCHANGED commands
        /\ thread[t].pc = "refresh" /\ thread[t].subject = o.asked
    BY <1>0, <1>4 DEF RefreshForReader, ReadsFor, Refresh, At
  <2>1. /\ thread'[t].pc = "save_refresh" => thread'[t].subject = thread[t].subject
        /\ \A s \in Threads : s # t => thread'[s] = thread[s]
    BY <1>0, <1>4 DEF RefreshForReader, Refresh, Return, IdleThread, TypeOK, ThreadState
  <2>2. CASE UNCHANGED reading /\ thread'[t].pc = "save_refresh"
    <3>1. ReadsFor(t)'
      BY <1>0, <1>1, <2>0, <2>1, <2>2 DEF ReadsFor, TokenSteps
    <3>2. \A s \in Threads : s # t => ReadsFor(s)'
      BY <2>1, <2>2, OtherReader DEF ReaderInv
    <3> QED
      BY <1>0, <2>0, <2>2, <3>1, <3>2 DEF ReaderInv, ReaderTypeOK
  <2>3. CASE \E status \in {"auth_required", "failed"} : End(t, status)
    BY <1>0, <2>0, <2>1, <2>3, Ended
  <2> QED
    BY <1>4, <2>2, <2>3 DEF RefreshForReader
<1>5. CASE SaveForReader(t)
  <2>0. /\ o.pc = "refresh" /\ o.asked \in Subjects /\ o.subject = o.asked /\ o.status = "none"
        /\ IF o.list THEN o.got = 0 ELSE o.got < o.listed
        /\ UNCHANGED commands /\ thread[t].pc = "save_refresh" /\ thread[t].subject = o.asked
    BY <1>0, <1>5 DEF SaveForReader, ReadsFor, SaveRefresh, At
  <2>1. /\ \A s \in Threads : s # t => thread'[s] = thread[s]
        /\ owner' = owner
    BY <1>5 DEF SaveForReader, SaveRefresh, Return, TypeOK, states
  <2>2. CASE Step(t, [o EXCEPT !.pc = "get", !.token = thread[t].tokens.access])
    <3> DEFINE r == [o EXCEPT !.pc = "get", !.token = thread[t].tokens.access]
    <3>1. thread[t].tokens \in TokenSet
      BY <2>0, SavingTypes
    <3>2. thread[t].tokens.access \in Consents /\ owner[thread[t].tokens.access] = o.asked
      BY <1>0, <2>0, <3>1, TokensDiffer DEF Belongs, OwnTokens, TokenSteps, TokenSet
    <3>3. /\ r \in Reading /\ r.pc = "get" /\ r.token = thread[t].tokens.access
          /\ r.asked = o.asked /\ r.subject = o.subject /\ r.status = o.status /\ r.list = o.list
          /\ r.got = o.got /\ r.listed = o.listed /\ r.under = o.under
      BY <1>0, <3>2 DEF Reading
    <3> HIDE DEF r
    <3>4. reading'[t] = r => ReadsFor(t)'
      BY <1>1, <2>0, <2>1, <3>2, <3>3 DEF ReadsFor
    <3> QED
      BY <1>0, <2>0, <2>1, <2>2, <3>3, <3>4, OneReader DEF r
  <2>3. CASE End(t, "failed")
    BY <1>0, <2>0, <2>1, <2>3, Ended
  <2> QED
    BY <1>5, <2>2, <2>3 DEF SaveForReader
<1>6. CASE GetList(t)
  <2>0. /\ o.pc = "get" /\ o.list /\ o.got = 0 /\ o.asked \in Subjects /\ o.subject = o.asked
        /\ o.status = "none" /\ o.token \in Consents /\ owner[o.token] = o.asked
        /\ UNCHANGED <<vars, commands>>
    BY <1>0, <1>6 DEF GetList, ReadsFor
  <2> DEFINE u == Used(t)
  <2>1. /\ u \in Reading /\ u.pc = "get" /\ u.asked = o.asked /\ u.subject = o.subject
        /\ u.status = o.status /\ u.list = o.list /\ u.got = 0
        /\ \A c \in u.under : owner'[c] = o.asked
    BY <1>0, <1>1, <2>0 DEF Used, Reading, vars
  <2>2. PICK n \in 0 .. MaxMessages :
          IF o.intent = "mail" /\ n > 0
          THEN Step(t, [u EXCEPT !.pc = "token", !.list = FALSE, !.listed = n])
          ELSE Answered(t, [u EXCEPT !.listed = n, !.got = n])
    BY <1>6 DEF GetList
  <2>3. 0 \in 0 .. MaxMessages /\ n \in Nat
    BY ReaderBounds
  <2> HIDE DEF u
  <2>4. CASE n > 0 /\ Step(t, [u EXCEPT !.pc = "token", !.list = FALSE, !.listed = n])
    <3> DEFINE r == [u EXCEPT !.pc = "token", !.list = FALSE, !.listed = n]
    <3>1. /\ r \in Reading /\ r.pc = "token" /\ r.asked = u.asked /\ r.subject = u.subject
          /\ r.status = u.status /\ ~r.list /\ r.got = 0 /\ r.listed = n /\ r.under = u.under
      BY <2>1 DEF Reading
    <3> HIDE DEF r
    <3>2. reading'[t] = r => ReadsFor(t)'
      BY <2>0, <2>1, <2>3, <2>4, <3>1 DEF ReadsFor
    <3> QED
      BY <1>0, <2>0, <2>4, <3>1, <3>2, OneReader DEF vars, r
  <2>5. CASE Answered(t, [u EXCEPT !.listed = n, !.got = n])
    <3> DEFINE w == [u EXCEPT !.listed = n, !.got = n]
               r == [w EXCEPT !.pc = "idle", !.status = "answered"]
    <3>1. /\ w \in Reading /\ w.asked = u.asked /\ w.subject = u.subject
          /\ w.got = n /\ w.listed = n /\ w.under = u.under
      BY <2>1 DEF Reading
    <3>2. Step(t, r)
      BY <2>5 DEF Answered
    <3> HIDE DEF w
    <3>3. /\ r \in Reading /\ r.pc = "idle" /\ r.asked = u.asked /\ r.status = "answered"
          /\ r.got = n /\ r.listed = n /\ r.under = u.under
      BY <3>1 DEF Reading
    <3> HIDE DEF r
    <3>4. reading'[t] = r => ReadsFor(t)'
      BY <2>0, <2>1, <3>3 DEF ReadsFor
    <3> QED
      BY <1>0, <2>0, <3>2, <3>3, <3>4, OneReader DEF vars
  <2> QED
    BY <2>2, <2>4, <2>5
<1>7. CASE GetMessage(t)
  <2>0. /\ o.pc = "get" /\ ~o.list /\ o.got < o.listed /\ o.asked \in Subjects /\ o.subject = o.asked
        /\ o.status = "none" /\ o.token \in Consents /\ owner[o.token] = o.asked
        /\ UNCHANGED <<vars, commands>>
    BY <1>0, <1>7 DEF GetMessage, ReadsFor
  <2> DEFINE u == Used(t)
             more == [u EXCEPT !.got = @ + 1]
  <2>1. /\ u \in Reading /\ u.pc = "get" /\ u.asked = o.asked /\ u.subject = o.subject
        /\ u.status = o.status /\ u.list = o.list /\ u.got = o.got /\ u.listed = o.listed
        /\ \A c \in u.under : owner'[c] = o.asked
    BY <1>0, <1>1, <2>0 DEF Used, Reading, vars
  <2>2. IF more.got = more.listed THEN Answered(t, more) ELSE Step(t, [more EXCEPT !.pc = "token"])
    BY <1>7 DEF GetMessage
  <2> HIDE DEF u
  <2>3. /\ more \in Reading /\ more.asked = o.asked /\ more.subject = o.subject
        /\ more.status = o.status /\ ~more.list /\ more.got <= more.listed /\ more.under = u.under
    BY <1>0, <2>0, <2>1, ReaderBounds DEF Reading
  <2> HIDE DEF more
  <2>4. CASE more.got = more.listed /\ Answered(t, more)
    <3> DEFINE r == [more EXCEPT !.pc = "idle", !.status = "answered"]
    <3>1. Step(t, r)
      BY <2>4 DEF Answered
    <3>2. /\ r \in Reading /\ r.pc = "idle" /\ r.asked = o.asked /\ r.status = "answered"
          /\ r.got = more.got /\ r.listed = more.listed /\ r.under = u.under
      BY <2>3 DEF Reading
    <3> HIDE DEF r
    <3>3. reading'[t] = r => ReadsFor(t)'
      BY <2>0, <2>1, <2>4, <3>2 DEF ReadsFor
    <3> QED
      BY <1>0, <2>0, <3>1, <3>2, <3>3, OneReader DEF vars
  <2>5. CASE more.got # more.listed /\ Step(t, [more EXCEPT !.pc = "token"])
    <3> DEFINE r == [more EXCEPT !.pc = "token"]
    <3>1. /\ r \in Reading /\ r.pc = "token" /\ r.asked = o.asked /\ r.subject = o.subject
          /\ r.status = "none" /\ ~r.list /\ r.under = u.under
          /\ r.got = more.got /\ r.listed = more.listed
      BY <2>0, <2>3 DEF Reading
    <3>2. r.got < r.listed
      BY <2>3, <2>5, <3>1 DEF Reading
    <3> HIDE DEF r
    <3>3. reading'[t] = r => ReadsFor(t)'
      BY <2>0, <2>1, <3>1, <3>2 DEF ReadsFor
    <3> QED
      BY <1>0, <2>0, <2>5, <3>1, <3>3, OneReader DEF vars, r
  <2> QED
    BY <2>2, <2>4, <2>5
<1>8. CASE GetFails(t)
  BY <1>0, <1>8, Ended DEF GetFails, vars
<1> QED
  BY <1>2, <1>3, <1>4, <1>5, <1>6, <1>7, <1>8 DEF ReaderStep

LEMMA ReaderKeeps == TypeOK /\ BelongInv /\ ReaderInv /\ [ReaderNext]_readerVars => ReaderInv'
<1> SUFFICES ASSUME TypeOK, BelongInv, ReaderInv, [ReaderNext]_readerVars PROVE ReaderInv'
  OBVIOUS
<1>0. [Next]_vars
  BY ReaderStepsBroker
<1>1. CASE UNCHANGED readerVars
  <2>1. UNCHANGED <<thread, owner, reading, commands>>
    BY <1>1 DEF readerVars, vars
  <2> QED
    BY <2>1 DEF ReaderInv, ReaderTypeOK, ReadsFor
<1>2. ASSUME NEW t \in Threads, ReaderStep(t) PROVE ReaderInv'
  BY <1>0, <1>2, ReaderStepKeeps
<1>3. CASE BrokerStep
  <2>1. UNCHANGED <<reading, commands>>
    BY <1>3 DEF BrokerStep
  <2>2. ASSUME NEW t \in Threads, reading[t].pc = "refresh" PROVE thread'[t] = thread[t]
    <3>1. thread[t].pc \in TokenSteps
      BY <2>2 DEF ReaderInv, ReadsFor
    <3> QED
      BY <1>3, <2>2, <3>1 DEF BrokerStep, Exchange, SaveGrant, Callback, Return, StateExpires, Revoke,
         AuthorizationUrl, TokenExpires, TypeOK
  <2>3. \A t \in Threads : ReadsFor(t)'
    BY <1>0, <2>1, <2>2, OtherReader DEF ReaderInv
  <2> QED
    BY <2>1, <2>3 DEF ReaderInv, ReaderTypeOK
<1>4. CASE RestartAll
  <2>1. reading' = [t \in Threads |-> NotReading] /\ commands' = commands
    BY <1>4 DEF RestartAll
  <2>2. /\ NotReading \in Reading /\ NotReading.pc = "idle" /\ NotReading.under = {}
        /\ NotReading.status = "none"
    BY ReaderBounds DEF NotReading, Reading
  <2> QED
    BY <2>1, <2>2 DEF ReaderInv, ReaderTypeOK, ReadsFor
<1>5. ASSUME NEW t \in Threads, NEW u \in Subjects,
             NEW markers \in (SUBSET {"mail", "calendar"}) \ {{}}, ReadCommand(t, u, markers)
      PROVE  ReaderInv'
  <2> DEFINE r == [NotReading EXCEPT !.pc = "token", !.intent = Intent(markers),
                                     !.asked = Resolve(u), !.subject = Resolve(u)]
  <2>0. /\ NotReading \in Reading /\ NotReading.status = "none" /\ NotReading.list
        /\ NotReading.got = 0 /\ NotReading.under = {}
    BY ReaderBounds DEF NotReading, Reading
  <2>1. Resolve(u) \in Subjects /\ Intent(markers) \in {"mail", "calendar"}
    BY ResolvedSubject DEF Intent
  <2>2. /\ r \in Reading /\ r.pc = "token" /\ r.asked = Resolve(u) /\ r.subject = r.asked
        /\ r.status = "none" /\ r.list /\ r.got = 0 /\ r.under = {}
    BY <2>0, <2>1 DEF Reading
  <2>3. Step(t, r) /\ UNCHANGED vars /\ commands < MaxCommands /\ commands' = commands + 1
    BY <1>5 DEF ReadCommand
  <2> HIDE DEF r
  <2>4. reading'[t] = r => ReadsFor(t)'
    BY <2>1, <2>2 DEF ReadsFor
  <2>5. commands' \in 0 .. MaxCommands
    BY <2>3, ReaderBounds DEF ReaderInv, ReaderTypeOK
  <2> QED
    BY <1>0, <2>2, <2>3, <2>4, <2>5, OneReader DEF vars
<1> QED
  BY <1>1, <1>2, <1>3, <1>4, <1>5 DEF ReaderNext

\* The broker with its readers is a broker: what is proved of GoogleOAuth holds
\* with the Workspace commands as callers of access_token (google_workspace_http).
THEOREM ReadersUseTheBroker == ReaderSpec => Spec
<1>1. ReaderInit => Init
  BY DEF ReaderInit
<1> QED
  BY <1>1, ReaderStarts, ReaderKeeps, ReaderStepsBroker, TypeInit, TypeStep, BelongInit, BelongStep,
     PTL DEF Spec, ReaderSpec

\* What a command answers is all that was listed, read with consents of the
\* subject it is for (main.command, GmailHTTPProvider.list_inbox).
THEOREM MailStaysOwn == ReaderSpec => []MailIsWholeAndOwn
<1>1. ReaderInv => MailIsWholeAndOwn
  BY DEF ReaderInv, ReadsFor, MailIsWholeAndOwn
<1>2. ReaderInit => Init
  BY DEF ReaderInit
<1> QED
  BY <1>1, <1>2, ReaderStarts, ReaderKeeps, ReaderStepsBroker, TypeInit, TypeStep, BelongInit, BelongStep,
     PTL DEF ReaderSpec

-----------------------------------------------------------------------------
(* The broker implements ConsentGrant. *)

TokensOf(tokens) == tokens \in TokenSet \cup {NoTokens}

LEMMA UsedSame ==
    ASSUME NEW a, NEW b, a.access = b.access, a.refresh = b.refresh, UsedTokens(a)
    PROVE  UsedTokens(b)
BY DEF UsedTokens

\* Exchanges are never undone.
LEMMA ExchangesGrow ==
    ASSUME TypeOK, [Next]_vars, NEW c \in Consents, exchanges[c] > 0
    PROVE  exchanges'[c] > 0
<1>1. CASE UNCHANGED exchanges
  BY <1>1
<1>2. ASSUME NEW t \in Threads, NEW d \in Consents, Callback(t, d) PROVE exchanges'[c] > 0
  BY <1>2 DEF Callback, TypeOK
<1> QED
  BY <1>1, <1>2
  DEF Next, vars, ThreadStep, Exchange, SaveGrant, LoadToken, Refresh, SaveRefresh, Revoke,
      TokenExpires, AuthorizationUrl, StateExpires, Restart, states

LEMMA UsedKept ==
    ASSUME TypeOK, [Next]_vars, NEW tokens \in TokenSet \cup {NoTokens}, UsedTokens(tokens)
    PROVE  UsedTokens(tokens)'
<1>1. \A c \in {tokens.access, tokens.refresh} \ {None} : c \in Consents
  BY DEF TokenSet, NoTokens
<1> QED
  BY <1>1, ExchangesGrow DEF UsedTokens

\* What a thread works with.
ThreadUsed(t) ==
    /\ thread[t].pc \in CallbackSteps => exchanges[thread[t].consent] > 0
    /\ thread[t].pc \in CallbackSteps \cup TokenSteps => UsedTokens(thread[t].tokens)

LEMMA ThreadUsedKept ==
    ASSUME TypeOK, [Next]_vars, NEW t \in Threads, thread'[t] = thread[t], ThreadUsed(t)
    PROVE  ThreadUsed(t)'
<1>1. thread[t].tokens \in TokenSet \cup {NoTokens} /\ thread[t].consent \in Consents \cup {None}
  BY DEF TypeOK, ThreadState
<1>2. thread[t].pc \in CallbackSteps => thread[t].consent \in Consents
  BY <1>1 DEF TypeOK
<1>3. thread[t].pc \in CallbackSteps => exchanges'[thread[t].consent] > 0
  BY <1>2, ExchangesGrow DEF ThreadUsed
<1>4. thread[t].pc \in CallbackSteps \cup TokenSteps => UsedTokens(thread[t].tokens)'
  <2>1. CASE thread[t].pc \in CallbackSteps \cup TokenSteps
    <3>1. PICK tokens \in TokenSet \cup {NoTokens} : tokens = thread[t].tokens
      BY <1>1
    <3>2. UsedTokens(tokens)'
      BY <2>1, <3>1, UsedKept DEF ThreadUsed
    <3> QED
      BY <3>1, <3>2 DEF UsedTokens
  <2> QED
    BY <2>1
<1> QED
  BY <1>3, <1>4 DEF ThreadUsed, UsedTokens

LEMMA IdleUsed == ASSUME NEW t \in Threads, thread[t] = IdleThread PROVE ThreadUsed(t)
BY DEF ThreadUsed, IdleThread, CallbackSteps, TokenSteps

\* The rows change by one save, or keep their tokens.
Saves(t) ==
    /\ thread[t].pc \in {"save_grant", "save_refresh"}
    /\ Upsert(thread[t].subject, thread[t].tokens)
    /\ UNCHANGED <<states, exchanges>>
LEMMA RowEffect ==
    ASSUME TypeOK, Next
    PROVE  \/ \A u \in Subjects : Held(u)' = Held(u)
           \/ \E t \in Threads : Saves(t)
<1>1. CASE UNCHANGED row
  BY <1>1 DEF Held
<1>2. ASSUME NEW t \in Threads, SaveGrant(t) \/ SaveRefresh(t)
      PROVE  UNCHANGED row \/ Saves(t)
  BY <1>2 DEF SaveGrant, SaveRefresh, Saves, At
<1>3. ASSUME NEW v \in Subjects, TokenExpires(v) PROVE \A u \in Subjects : Held(u)' = Held(u)
  <2>1. row' = [row EXCEPT ![v] = [row[v] EXCEPT !.fresh = FALSE]] /\ row[v] \in TokenSet \cup {NoTokens}
    BY <1>3 DEF TokenExpires, TypeOK
  <2>2. row'[v].access = row[v].access /\ row'[v].refresh = row[v].refresh
    BY <2>1 DEF TypeOK, TokenSet, NoTokens
  <2> QED
    BY <2>1, <2>2 DEF TypeOK, Held
<1> QED
  BY <1>1, <1>2, <1>3
  DEF Next, ThreadStep, Exchange, Callback, LoadToken, Refresh, Revoke, StateExpires,
      AuthorizationUrl, Restart, states

\* What a save leaves for its subject.
LEMMA SaveEffect ==
    ASSUME TypeOK, NEW t \in Threads, Saves(t), NEW u, u = thread[t].subject,
           NEW tokens, tokens = thread[t].tokens
    PROVE  /\ u \in Subjects /\ tokens \in TokenSet
           /\ row' = [row EXCEPT ![u] = Merged(row[u], tokens)]
           /\ row[u] \in TokenSet \cup {NoTokens}
           /\ Merged(row[u], tokens).access = tokens.access
           /\ \/ Merged(row[u], tokens).refresh = tokens.refresh /\ tokens.refresh # None
              \/ Merged(row[u], tokens).refresh = row[u].refresh
<1>1. u \in Subjects /\ tokens \in TokenSet
  BY SavingTypes DEF Saves
<1>2. row[u] \in TokenSet \cup {NoTokens}
  BY <1>1 DEF TypeOK
<1>3. Merged(row[u], tokens).access = tokens.access
      /\ (\/ Merged(row[u], tokens).refresh = tokens.refresh /\ tokens.refresh # None
          \/ Merged(row[u], tokens).refresh = row[u].refresh)
  BY <1>1 DEF Merged, TokenSet
<1> QED
  BY <1>1, <1>2, <1>3 DEF Saves, Upsert, TypeOK

\* Tokens come from consents that were exchanged.
LEMMA RowsUsed ==
    ASSUME TypeOK, UsedInv, [Next]_vars, NEW u \in Subjects
    PROVE  UsedTokens(row[u])'
<1>1. row[u] \in TokenSet \cup {NoTokens} /\ UsedTokens(row[u])
  BY DEF TypeOK, UsedInv
<1>2. PICK old \in TokenSet \cup {NoTokens} : old = row[u]
  BY <1>1
<1>3. UsedTokens(old)'
  BY <1>1, <1>2, UsedKept
<1>4. CASE row'[u].access = row[u].access /\ row'[u].refresh = row[u].refresh
  BY <1>2, <1>3, <1>4 DEF UsedTokens
<1>5. ASSUME NEW t \in Threads, Saves(t) PROVE UsedTokens(row[u])'
  <2>1. PICK v, tokens : v = thread[t].subject /\ tokens = thread[t].tokens
    OBVIOUS
  <2>2. /\ v \in Subjects /\ tokens \in TokenSet
        /\ row' = [row EXCEPT ![v] = Merged(row[v], tokens)]
        /\ Merged(row[v], tokens).access = tokens.access
        /\ Merged(row[v], tokens).refresh \in {tokens.refresh, row[v].refresh}
    BY <1>5, <2>1, SaveEffect
  <2>3. CASE u # v
    BY <1>4, <2>2, <2>3
  <2>4. CASE u = v
    <3>1. UsedTokens(tokens)
      BY <1>5, <2>1 DEF Saves, UsedInv, CallbackSteps, TokenSteps
    <3>2. UsedTokens(tokens)'
      BY <2>2, <3>1, UsedKept
    <3>3. row'[u].access = tokens.access /\ row'[u].refresh \in {tokens.refresh, old.refresh}
      BY <1>2, <2>2, <2>4 DEF TypeOK
    <3> QED
      BY <1>3, <3>2, <3>3 DEF UsedTokens
  <2> QED
    BY <2>3, <2>4
<1>6. CASE UNCHANGED vars
  BY <1>4, <1>6 DEF vars
<1>7. CASE Next
  <2>1. CASE \A v \in Subjects : Held(v)' = Held(v)
    BY <1>4, <2>1 DEF Held
  <2> QED
    BY <1>5, <1>7, <2>1, RowEffect
<1> QED
  BY <1>6, <1>7

LEMMA UsedInit == Init => UsedInv
BY DEF Init, UsedInv, UsedTokens, IdleThread, NoTokens, CallbackSteps, TokenSteps

LEMMA ThreadsUsed ==
    ASSUME TypeOK, UsedInv, Next, NEW t \in Threads
    PROVE  ThreadUsed(t)'
<1> USE DEF states
<1>0. thread[t] \in ThreadState /\ ThreadUsed(t)
  BY DEF TypeOK, UsedInv, ThreadUsed
<1>1. CASE thread'[t] = thread[t]
  BY <1>0, <1>1, ThreadUsedKept
<1>2. CASE thread'[t] = IdleThread
  BY <1>2 DEF ThreadUsed, IdleThread, CallbackSteps, TokenSteps
<1>3. ASSUME NEW c \in Consents, Callback(t, c) PROVE ThreadUsed(t)'
  <2>1. /\ thread'[t] = [pc |-> "exchange", subject |-> owner[c], consent |-> c, tokens |-> NoTokens]
        /\ exchanges' = [exchanges EXCEPT ![c] = exchanges[c] + 1] /\ exchanges[c] \in Nat
    BY <1>3 DEF Callback, TypeOK
  <2>2. exchanges'[c] > 0
    BY <2>1 DEF TypeOK
  <2> QED
    BY <2>1, <2>2 DEF ThreadUsed, UsedTokens, NoTokens
\* A thread got tokens of one consent that was exchanged.
<1>4. ASSUME NEW pc \in CallbackSteps \cup TokenSteps, NEW tokens \in TokenSet,
             thread' = [thread EXCEPT ![t].pc = pc, ![t].tokens = tokens],
             pc \in CallbackSteps => thread[t].pc \in CallbackSteps,
             UsedTokens(tokens), UNCHANGED exchanges
      PROVE  ThreadUsed(t)'
  <2>1. thread'[t].pc = pc /\ thread'[t].tokens = tokens /\ thread'[t].consent = thread[t].consent
    BY <1>4 DEF TypeOK, ThreadState
  <2> QED
    BY <1>0, <1>4, <2>1 DEF ThreadUsed, UsedTokens
<1>5. CASE Exchange(t)
  <2>1. CASE Return(t)
    BY <1>2, <2>1, ReturnTypes
  <2>2. ASSUME NEW refresh \in {thread[t].consent, None},
               thread' = [thread EXCEPT ![t].pc = "save_grant", ![t].tokens =
                 [access |-> thread[t].consent, refresh |-> refresh, fresh |-> TRUE]]
        PROVE  ThreadUsed(t)'
    <3> DEFINE tokens == [access |-> thread[t].consent, refresh |-> refresh, fresh |-> TRUE]
    <3>1. thread[t].consent \in Consents /\ exchanges[thread[t].consent] > 0
      BY <1>0, <1>5 DEF Exchange, At, ThreadUsed, TypeOK, ThreadState, CallbackSteps
    <3>2. tokens \in TokenSet /\ UsedTokens(tokens)
      BY <3>1, <2>2 DEF TokenSet, UsedTokens
    <3>3. thread' = [thread EXCEPT ![t].pc = "save_grant", ![t].tokens = tokens]
      BY <2>2
    <3>4. "save_grant" \in CallbackSteps /\ thread[t].pc \in CallbackSteps /\ UNCHANGED exchanges
      BY <1>5 DEF Exchange, At, CallbackSteps
    <3> HIDE DEF tokens
    <3> QED
      BY <1>4, <3>2, <3>3, <3>4
  <2> QED
    BY <1>5, <2>1, <2>2 DEF Exchange
<1>6. CASE Refresh(t)
  <2>1. CASE Return(t)
    BY <1>2, <2>1, ReturnTypes
  <2>2. CASE ~Return(t)
    <3> DEFINE consent == thread[t].tokens.refresh
               tokens == [access |-> consent, refresh |-> consent, fresh |-> TRUE]
    <3>1. thread[t].tokens # NoTokens /\ consent # None
      BY <1>6 DEF Refresh, At, TypeOK, TokenSteps
    <3>2. consent \in Consents
      BY <1>0, <3>1 DEF ThreadState, TokenSet
    <3>3. exchanges[consent] > 0
      BY <1>0, <1>6, <3>1 DEF Refresh, At, ThreadUsed, UsedTokens, TokenSteps
    <3>4. tokens \in TokenSet /\ UsedTokens(tokens)
      BY <3>2, <3>3 DEF TokenSet, UsedTokens
    <3>5. thread' = [thread EXCEPT ![t].pc = "save_refresh", ![t].tokens = tokens]
      BY <1>6, <2>2 DEF Refresh
    <3>6. "save_refresh" \in TokenSteps /\ "save_refresh" \notin CallbackSteps /\ UNCHANGED exchanges
      BY <1>6 DEF Refresh, TokenSteps, CallbackSteps
    <3> HIDE DEF tokens, consent
    <3> QED
      BY <1>4, <3>4, <3>5, <3>6
  <2> QED
    BY <2>1, <2>2
<1>7. ASSUME NEW u \in Subjects, LoadToken(t, u) PROVE ThreadUsed(t)'
  <2>1. /\ thread'[t] = [pc |-> "refresh", subject |-> u, consent |-> None, tokens |-> row[u]]
        /\ UNCHANGED <<exchanges, row>>
    BY <1>7 DEF LoadToken, TypeOK
  <2>2. UsedTokens(row[u])
    BY DEF UsedInv
  <2> QED
    BY <2>1, <2>2 DEF ThreadUsed, UsedTokens, CallbackSteps
<1>8. CASE SaveGrant(t) \/ SaveRefresh(t)
  <2>1. Return(t)
    BY <1>8 DEF SaveGrant, SaveRefresh
  <2> QED
    BY <1>2, <2>1, ReturnTypes
<1>9. ASSUME NEW s \in Threads, s # t, ThreadStep(s) \/ (\E c \in Consents : Callback(s, c))
               \/ (\E u \in Subjects : LoadToken(s, u))
      PROVE  thread'[t] = thread[t]
  BY <1>9 DEF ThreadStep, Exchange, SaveGrant, Refresh, SaveRefresh, Return, Callback, LoadToken, TypeOK
<1>10. CASE UNCHANGED thread \/ Restart
  BY <1>1, <1>2, <1>10 DEF Restart
<1> QED
  BY <1>1, <1>3, <1>5, <1>6, <1>7, <1>8, <1>9, <1>10
  DEF Next, ThreadStep, AuthorizationUrl, StateExpires, Revoke, TokenExpires

LEMMA UsedStep == TypeOK /\ UsedInv /\ [Next]_vars => UsedInv'
<1> SUFFICES ASSUME TypeOK, UsedInv, [Next]_vars PROVE UsedInv'
  OBVIOUS
<1>1. \A u \in Subjects : UsedTokens(row[u])'
  BY RowsUsed
<1>2. ASSUME NEW t \in Threads PROVE ThreadUsed(t)'
  <2>1. CASE UNCHANGED vars
    BY <2>1, ThreadUsedKept DEF vars, UsedInv, ThreadUsed
  <2> QED
    BY <2>1, ThreadsUsed
<1> QED
  BY <1>1, <1>2 DEF UsedInv, ThreadUsed

-----------------------------------------------------------------------------
LEMMA StageCases ==
    ASSUME NEW c \in Consents
    PROVE  /\ owner[c] = None => StageOf(c) = "unissued"
           /\ owner[c] # None /\ c \in remembered => StageOf(c) = "open"
           /\ owner[c] # None /\ c \notin remembered /\ exchanges[c] > 0 => StageOf(c) = "used"
           /\ owner[c] # None /\ c \notin remembered /\ ~(exchanges[c] > 0) => StageOf(c) = "void"
BY DEF StageOf

LEMMA NextStageCases ==
    ASSUME NEW c \in Consents
    PROVE  /\ owner'[c] = None => StageOf(c)' = "unissued"
           /\ owner'[c] # None /\ c \in remembered' => StageOf(c)' = "open"
           /\ owner'[c] # None /\ c \notin remembered' /\ exchanges'[c] > 0 => StageOf(c)' = "used"
           /\ owner'[c] # None /\ c \notin remembered' /\ ~(exchanges'[c] > 0) => StageOf(c)' = "void"
BY DEF StageOf

LEMMA StageKept ==
    ASSUME NEW c \in Consents, owner'[c] = owner[c], c \in remembered' <=> c \in remembered,
           exchanges'[c] = exchanges[c]
    PROVE  StageOf(c)' = StageOf(c)
BY DEF StageOf

Stages == [c \in Consents |-> StageOf(c)]
Holdings == [u \in Subjects |-> Held(u)]
GrantVars == <<Stages, owner, exchanges, Holdings>>

LEMMA NothingGranted ==
    ASSUME UNCHANGED <<owner, remembered, exchanges>>, \A u \in Subjects : Held(u)' = Held(u)
    PROVE  UNCHANGED GrantVars
<1>1. \A c \in Consents : StageOf(c)' = StageOf(c)
  BY StageKept
<1> QED
  BY <1>1 DEF GrantVars, Stages, Holdings

LEMMA RowKeepsHoldings == ASSUME UNCHANGED row PROVE UNCHANGED Holdings
BY DEF Holdings, Held

LEMMA OpenOf ==
    ASSUME TypeOK, NEW u \in Subjects, NEW c \in Consents, AuthorizationUrl(u, c)
    PROVE  [Grant!Next]_GrantVars
<1>1. UNCHANGED <<Holdings, exchanges>> /\ owner' = [owner EXCEPT ![c] = u]
      /\ remembered' = remembered \cup {c} /\ owner[c] = None
  BY RowKeepsHoldings DEF AuthorizationUrl
<1>2. StageOf(c) = "unissued" /\ StageOf(c)' = "open"
  BY <1>1, StageCases, NextStageCases, NoneAssumption DEF TypeOK
<1>3. \A d \in Consents : d # c => StageOf(d)' = StageOf(d)
  BY <1>1, StageKept DEF TypeOK
<1>4. Stages[c] = "unissued" /\ Stages' = [Stages EXCEPT ![c] = "open"]
  BY <1>2, <1>3 DEF Stages
<1>5. Grant!Open(u, c)
  BY <1>1, <1>4 DEF Grant!Open, Stages, Holdings
<1> QED
  BY <1>5 DEF Grant!Next

LEMMA UseOf ==
    ASSUME TypeOK, OnceInv, NEW t \in Threads, NEW c \in Consents, Callback(t, c)
    PROVE  [Grant!Next]_GrantVars
<1>1. /\ UNCHANGED <<Holdings, owner>> /\ owner[c] # None
      /\ c \in remembered /\ remembered' = remembered \ {c}
      /\ exchanges' = [exchanges EXCEPT ![c] = exchanges[c] + 1] /\ exchanges \in [Consents -> Nat]
  BY RowKeepsHoldings DEF Callback, Consume, TypeOK
<1>2. exchanges'[c] > 0 /\ \A d \in Consents : d # c => exchanges'[d] = exchanges[d]
  BY <1>1
<1>3. StageOf(c) = "open" /\ StageOf(c)' = "used"
  BY <1>1, <1>2, StageCases, NextStageCases
<1>4. \A d \in Consents : d # c => StageOf(d)' = StageOf(d)
  BY <1>1, <1>2, StageKept
<1>5. Stages[c] = "open" /\ Stages' = [Stages EXCEPT ![c] = "used"]
  BY <1>3, <1>4 DEF Stages
<1>6. Grant!Use(c)
  BY <1>1, <1>5 DEF Grant!Use, Stages, Holdings
<1> QED
  BY <1>6 DEF Grant!Next

\* States that are too old, or that a restart forgot.
LEMMA WithdrawOf ==
    ASSUME TypeOK, OnceInv, NEW gone \in SUBSET remembered, remembered' = remembered \ gone,
           UNCHANGED <<owner, exchanges, Holdings>>
    PROVE  [Grant!Next]_GrantVars
<1>1. gone \subseteq Consents
  BY DEF TypeOK
<1>2. ASSUME NEW c \in gone PROVE StageOf(c) = "open" /\ StageOf(c)' = "void"
  <2>1. /\ c \in Consents /\ c \in remembered /\ c \notin remembered'
        /\ owner[c] # None /\ exchanges'[c] = 0
    BY <1>1 DEF OnceInv
  <2> QED
    BY <2>1, StageCases, NextStageCases
<1>3. ASSUME NEW c \in Consents, c \notin gone PROVE StageOf(c)' = StageOf(c)
  BY <1>3, StageKept
<1>4. /\ \A c \in gone : Stages[c] = "open"
      /\ Stages' = [c \in Consents |-> IF c \in gone THEN "void" ELSE Stages[c]]
  BY <1>1, <1>2, <1>3 DEF Stages
<1>5. Grant!Withdraw(gone)
  BY <1>4 DEF Grant!Withdraw, Stages, Holdings
<1> QED
  BY <1>1, <1>5 DEF Grant!Next

\* A consent of the subject that was exchanged.
LEMMA UsedByOwner ==
    ASSUME TypeOK, OnceInv, NEW u \in Subjects, NEW c \in Consents, owner[c] = u, exchanges[c] > 0
    PROVE  c \in Grant!Used(u)
<1>1. c \notin remembered /\ owner[c] # None
  BY NoneAssumption DEF OnceInv
<1>2. StageOf(c) = "used"
  BY <1>1, StageCases
<1> QED
  BY <1>2 DEF Grant!Used

LEMMA HoldOf ==
    ASSUME TypeOK, OnceInv, BelongInv, UsedInv, NEW t \in Threads, Saves(t)
    PROVE  [Grant!Next]_GrantVars
<1>1. PICK u, tokens : u = thread[t].subject /\ tokens = thread[t].tokens
  OBVIOUS
<1> DEFINE merged == Merged(row[u], tokens)
<1>2. /\ u \in Subjects /\ tokens \in TokenSet
      /\ row' = [row EXCEPT ![u] = merged]
      /\ row[u] \in TokenSet \cup {NoTokens}
      /\ merged.access = tokens.access
      /\ \/ merged.refresh = tokens.refresh /\ tokens.refresh # None
         \/ merged.refresh = row[u].refresh
  BY <1>1, SaveEffect
<1> HIDE DEF merged
<1>3. OwnTokens(u, tokens) /\ UsedTokens(tokens) /\ OwnTokens(u, row[u]) /\ UsedTokens(row[u])
  BY <1>1, <1>2, RowsOwned DEF Saves, BelongInv, Belongs, UsedInv, CallbackSteps, TokenSteps
<1>4. tokens.access \in Grant!Used(u) /\ tokens.access \in Consents
  <2>1. tokens # NoTokens /\ tokens.access \in Consents /\ tokens.access # None
    BY <1>2, TokensDiffer, NoneAssumption DEF TokenSet
  <2> QED
    BY <1>2, <1>3, <2>1, UsedByOwner DEF OwnTokens, UsedTokens
<1>5. /\ merged.refresh \in Consents \cup {None}
      /\ merged.refresh \in Grant!Used(u) \/ (merged.refresh = None /\ row[u].refresh = None)
  <2>1. CASE merged.refresh = tokens.refresh /\ tokens.refresh # None
    <3>1. tokens.refresh \in Consents
      BY <1>2, <2>1 DEF TokenSet
    <3> QED
      BY <1>2, <1>3, <2>1, <3>1, UsedByOwner DEF OwnTokens, UsedTokens
  <2>2. CASE merged.refresh = row[u].refresh
    <3>1. row[u].refresh \in Consents \cup {None}
      BY <1>2 DEF TokenSet, NoTokens
    <3> QED
      BY <1>2, <1>3, <2>2, <3>1, UsedByOwner DEF OwnTokens, UsedTokens
  <2> QED
    BY <1>2, <2>1, <2>2
<1>6. UNCHANGED <<owner, exchanges, Stages>>
  BY StageKept DEF Saves, states, Stages
<1>7. /\ Holdings' = [Holdings EXCEPT ![u] = [access |-> merged.access, refresh |-> merged.refresh]]
      /\ Holdings[u].refresh = row[u].refresh
  <2>1. row'[u] = merged /\ \A v \in Subjects : v # u => row'[v] = row[v]
    BY <1>2 DEF TypeOK
  <2> QED
    BY <1>2, <2>1 DEF Holdings, Held
<1>8. Grant!Hold(u, merged.access, merged.refresh)
  BY <1>2, <1>4, <1>5, <1>6, <1>7 DEF Grant!Hold, Stages, Holdings
<1> QED
  BY <1>2, <1>4, <1>5, <1>8 DEF Grant!Next

LEMMA GrantStep == TypeOK /\ OnceInv /\ BelongInv /\ UsedInv /\ [Next]_vars => [Grant!Next]_GrantVars
<1> SUFFICES ASSUME TypeOK, OnceInv, BelongInv, UsedInv, [Next]_vars PROVE [Grant!Next]_GrantVars
  OBVIOUS
<1> USE DEF states
<1>1. CASE UNCHANGED vars
  BY <1>1, NothingGranted DEF vars, Held
<1>2. ASSUME NEW u \in Subjects, NEW c \in Consents, AuthorizationUrl(u, c) PROVE [Grant!Next]_GrantVars
  BY <1>2, OpenOf
<1>3. ASSUME NEW t \in Threads, NEW c \in Consents, Callback(t, c) PROVE [Grant!Next]_GrantVars
  BY <1>3, UseOf
<1>4. ASSUME NEW c \in Consents, StateExpires(c) PROVE [Grant!Next]_GrantVars
  <2>1. /\ remembered' = remembered \ (remembered \cap {c})
        /\ UNCHANGED <<owner, exchanges, Holdings>>
    BY <1>4, RowKeepsHoldings DEF StateExpires
  <2> QED
    BY <2>1, WithdrawOf
<1>5. CASE Restart
  <2>1. remembered' = remembered \ remembered /\ UNCHANGED <<owner, exchanges, Holdings>>
    BY <1>5, RowKeepsHoldings DEF Restart
  <2> QED
    BY <2>1, WithdrawOf
<1>6. ASSUME Next, UNCHANGED <<owner, remembered, exchanges>> PROVE [Grant!Next]_GrantVars
  <2>1. CASE \A u \in Subjects : Held(u)' = Held(u)
    BY <1>6, <2>1, NothingGranted
  <2>2. CASE \E t \in Threads : Saves(t)
    BY <2>2, HoldOf
  <2> QED
    BY <1>6, <2>1, <2>2, RowEffect
<1> QED
  BY <1>1, <1>2, <1>3, <1>4, <1>5, <1>6
  DEF Next, ThreadStep, Exchange, SaveGrant, LoadToken, Refresh, SaveRefresh, Revoke, TokenExpires

LEMMA GrantInit == Init => Grant!Init
<1> SUFFICES ASSUME Init PROVE Grant!Init
  OBVIOUS
<1>1. \A c \in Consents : StageOf(c) = "unissued"
  BY StageCases DEF Init
<1> QED
  BY <1>1 DEF Grant!Init, Init, Held, NoTokens

\* The broker implements one-time consents and tokens of one's own.
THEOREM ImplementsConsents == Spec => ConsentSpec
<1>1. TypeOK /\ OnceInv /\ BelongInv /\ UsedInv /\ [Next]_vars => [Grant!Next]_Grant!consentVars
  BY GrantStep DEF GrantVars, Stages, Holdings, Grant!consentVars
<1>2. Init => OnceInv
  BY DEF Init, OnceInv, StateIsOneTime
<1> QED
  BY <1>1, <1>2, TypeInit, TypeStep, OnceStep, BelongInit, BelongStep, UsedInit, UsedStep, GrantInit, PTL
  DEF Spec, ConsentSpec, Grant!Spec

\* So does the broker together with the commands that read through it.
THEOREM ReadersKeepConsents == ReaderSpec => ConsentSpec
BY ImplementsConsents, ReadersUseTheBroker
=============================================================================
