----------------------------- MODULE MessageLedger -----------------------------
(***************************************************************************)
(* What the intake of e-mail promises of every message, with no workers,    *)
(* deliveries or calls in sight: a message is new until it is held, only    *)
(* while it is held do its documents and its result change, it is done only *)
(* with a result, and then it stays as it is.  A claim may be lost, if the  *)
(* ledger or the workers fail at all; such a message is stuck for good.     *)
(***************************************************************************)
CONSTANTS
    Messages,
    Nothing,         \* no result
    NoDocuments,     \* what is stored of a message nobody has worked on
    ClaimsMayBeLost

VARIABLES
    phase,      \* of each message
    result,     \* of each message
    documents   \* originals and statuses stored for each message
ledgerVars == <<phase, result, documents>>

Init ==
    /\ phase = [m \in Messages |-> "new"]
    /\ result = [m \in Messages |-> Nothing]
    /\ documents = [m \in Messages |-> NoDocuments]

Move(m, from, to) ==
    /\ phase[m] = from
    /\ phase' = [phase EXCEPT ![m] = to]
    /\ UNCHANGED <<result, documents>>

Take(m) == Move(m, "new", "held")
GiveUp(m) == Move(m, "held", "new")
Finish(m) == result[m] # Nothing /\ Move(m, "held", "done")
LoseClaim(m) == ClaimsMayBeLost /\ (Move(m, "new", "stuck") \/ Move(m, "held", "stuck"))

Store(m) ==
    /\ phase[m] = "held"
    /\ documents' = [documents EXCEPT ![m] = documents'[m]]
    /\ UNCHANGED <<phase, result>>

Conclude(m) ==
    /\ phase[m] = "held"
    /\ result' = [result EXCEPT ![m] = result'[m]] /\ result'[m] # Nothing
    /\ UNCHANGED <<phase, documents>>

Next ==
    \E m \in Messages :
        Take(m) \/ GiveUp(m) \/ Finish(m) \/ LoseClaim(m) \/ Store(m) \/ Conclude(m)

Spec == Init /\ [][Next]_ledgerVars
=============================================================================
