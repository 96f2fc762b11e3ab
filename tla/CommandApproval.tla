---------------------------- MODULE CommandApproval ----------------------------
(***************************************************************************)
(* What the command endpoint promises of the long-term memory, with no      *)
(* answers, retries or timeouts in sight: a change is described to a device *)
(* before it can be confirmed there, every tap on the confirm button is a   *)
(* request of its own, and a request changes the memory once at most: it    *)
(* adds one memory with an id of its own, or deletes the one it names.      *)
(***************************************************************************)
CONSTANTS
    Requests,  \* [dev, n, command]: the n-th request of a device
    Notes,     \* the commands that add a memory; the others delete one
    Target,    \* the memory such a command names
    Fits       \* matters a command may be filed under: <<command, matter>>

VARIABLES proposed, confirmed, effects, memory
approvalVars == <<proposed, confirmed, effects, memory>>

Init == proposed = {} /\ confirmed = {} /\ effects = {} /\ memory = {}

Proposal(r) == [dev |-> r.dev, command |-> r.command]

Propose(r) ==
    /\ proposed' = proposed \cup {Proposal(r)}
    /\ UNCHANGED <<confirmed, effects, memory>>

Confirm(r) ==
    /\ Proposal(r) \in proposed /\ r \notin confirmed
    /\ confirmed' = confirmed \cup {r}
    /\ UNCHANGED <<proposed, effects, memory>>

Remember(r) ==
    \E row \in memory' :
        /\ row.command = r.command /\ <<row.command, row.matter>> \in Fits
        /\ \A old \in memory : old.id # row.id
        /\ memory' = memory \cup {row}
Forget(r) == memory' = {row \in memory : row.id # Target[r.command]}

Perform(r) ==
    /\ r \in confirmed \ effects
    /\ effects' = effects \cup {r}
    /\ \/ r.command \in Notes /\ Remember(r)
       \/ r.command \notin Notes /\ Forget(r)
    /\ UNCHANGED <<proposed, confirmed>>

Next == \E r \in Requests : Propose(r) \/ Confirm(r) \/ Perform(r)

Spec == Init /\ [][Next]_approvalVars
=============================================================================
