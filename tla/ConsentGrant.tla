------------------------------ MODULE ConsentGrant ------------------------------
(***************************************************************************)
(* What the OAuth broker promises, with no threads, requests or restarts in *)
(* sight: a consent is opened for one subject, is used at most once and     *)
(* only while it is open, and the tokens a subject holds always come from   *)
(* consents of its own that were used.  A refresh token is replaced, never  *)
(* dropped.                                                                 *)
(***************************************************************************)
EXTENDS Naturals

CONSTANTS Subjects, Consents, None

VARIABLES
    stage,   \* of each consent
    owner,   \* the subject each consent was opened for
    uses,    \* how often each consent was used
    tokens   \* what each subject holds: the consents of its two tokens
consentVars == <<stage, owner, uses, tokens>>

Init ==
    /\ stage = [c \in Consents |-> "unissued"]
    /\ owner = [c \in Consents |-> None]
    /\ uses = [c \in Consents |-> 0]
    /\ tokens = [u \in Subjects |-> [access |-> None, refresh |-> None]]

Open(u, c) ==
    /\ stage[c] = "unissued"
    /\ stage' = [stage EXCEPT ![c] = "open"]
    /\ owner' = [owner EXCEPT ![c] = u]
    /\ UNCHANGED <<uses, tokens>>

Use(c) ==
    /\ stage[c] = "open"
    /\ stage' = [stage EXCEPT ![c] = "used"]
    /\ uses' = [uses EXCEPT ![c] = @ + 1]
    /\ UNCHANGED <<owner, tokens>>

\* Open consents are given up: they are too old, or forgotten.
Withdraw(gone) ==
    /\ \A c \in gone : stage[c] = "open"
    /\ stage' = [c \in Consents |-> IF c \in gone THEN "void" ELSE stage[c]]
    /\ UNCHANGED <<owner, uses, tokens>>

Used(u) == {c \in Consents : stage[c] = "used" /\ owner[c] = u}

Hold(u, access, refresh) ==
    /\ access \in Used(u)
    /\ refresh \in Used(u) \/ (refresh = None /\ tokens[u].refresh = None)
    /\ tokens' = [tokens EXCEPT ![u] = [access |-> access, refresh |-> refresh]]
    /\ UNCHANGED <<stage, owner, uses>>

Next ==
    \/ \E c \in Consents : Use(c) \/ \E u \in Subjects : Open(u, c)
    \/ \E gone \in SUBSET Consents : Withdraw(gone)
    \/ \E u \in Subjects, access \in Consents, refresh \in Consents \cup {None} :
         Hold(u, access, refresh)

Spec == Init /\ [][Next]_consentVars
=============================================================================
