----------------------------- MODULE ApprovalGate -----------------------------
(***************************************************************************)
(* What the editorial autopost promises its owner, with no queue, polling  *)
(* or Telegram call in sight: nothing of a post reaches the channel before *)
(* the post is approved, and its text never appears before its photo.      *)
(* Approval is the owner's press of the publish button or, where it is     *)
(* switched on, the automatic one of a GREEN draft, which a post about a   *)
(* client's case or about news never has.                                  *)
(***************************************************************************)
CONSTANT Posts

VARIABLES approved, photos, texts
gateVars == <<approved, photos, texts>>

Init == approved = {} /\ photos = {} /\ texts = {}

Approve(p) ==
    /\ approved' = approved \cup {p}
    /\ UNCHANGED <<photos, texts>>

SendPhoto(p) ==
    /\ p \in approved
    /\ photos' = photos \cup {p}
    /\ UNCHANGED <<approved, texts>>

SendText(p) ==
    /\ p \in approved \cap photos
    /\ texts' = texts \cup {p}
    /\ UNCHANGED <<approved, photos>>

Next == \E p \in Posts : Approve(p) \/ SendPhoto(p) \/ SendText(p)

Spec == Init /\ [][Next]_gateVars
=============================================================================
