--------------------------- MODULE DocumentLifecycle ---------------------------
(***************************************************************************)
(* What the retry of documents promises: a failed document is taken for     *)
(* processing and comes back completed, for good, or failed.               *)
(***************************************************************************)
CONSTANTS Documents
VARIABLES status

Init == status = [d \in Documents |-> "failed"]

Move(d, from, to) == status[d] = from /\ status' = [status EXCEPT ![d] = to]

Next ==
    \E d \in Documents :
        \/ Move(d, "failed", "processing")
        \/ Move(d, "processing", "completed")
        \/ Move(d, "processing", "failed")

Spec == Init /\ [][Next]_status
=============================================================================
