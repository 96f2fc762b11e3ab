--------------------------- MODULE TelegramComments ---------------------------
(***************************************************************************)
(* Replies to the comments of a Telegram group: run_polling takes the       *)
(* messages one by one, process_update classifies a comment and drafts a    *)
(* reply, the safety gate and the production guard let it pass or not, and  *)
(* send_message posts it.  The poller keeps its offset in memory: after a   *)
(* restart Telegram sends again what no later getUpdates had confirmed.     *)
(* The poller shares the event loop with the requests of the API.           *)
(***************************************************************************)
EXTENDS Naturals, Sequences

CONSTANTS
    Comments,         \* what users write
    ProductionSend,   \* TELEGRAM_PRODUCTION_SEND
    DryRun,           \* TELEGRAM_DRY_RUN
    TelegramMayFail,
    MaxComments,      \* bound: comments written
    MaxRestarts       \* bound: restarts of the process

\* What classify_comment looks for in a text.
Markers == {"personal", "escalate", "aggressive", "ambiguous", "legal", "help", "question"}

ASSUME CommentsAssumption == Comments \subseteq [markers : SUBSET Markers, group : BOOLEAN]
ASSUME TelegramSwitches == {ProductionSend, DryRun, TelegramMayFail} \subseteq BOOLEAN
ASSUME TelegramBounds == MaxComments \in Nat /\ MaxRestarts \in Nat

VARIABLES
    inbox,     \* every message, in update_id order; the index is the update_id
    acked,     \* messages Telegram has forgotten
    poller,    \* the polling task
    replies,   \* how many replies to each message are in the group
    restarts

commentVars == <<inbox, acked, poller, replies, restarts>>

\* offset: 0 for None; last: the last message of the batch; sent: Telegram has
\* executed the sendMessage the poller waits for.
Poller ==
    [pc : {"idle", "send", "dead"}, sent : BOOLEAN, offset : 0 .. MaxComments + 1, last : Nat]
NewPoller(last) == [pc |-> "idle", sent |-> FALSE, offset |-> 0, last |-> last]

CommentsTypeOK ==
    /\ inbox \in Seq(Comments) /\ acked \in 0 .. Len(inbox)
    /\ poller \in Poller /\ poller.last <= Len(inbox)
    /\ replies \in [DOMAIN inbox -> Nat] /\ restarts \in 0 .. MaxRestarts

CommentsInit ==
    inbox = << >> /\ acked = 0 /\ poller = NewPoller(0) /\ replies = << >> /\ restarts = 0

-----------------------------------------------------------------------------
\* classify_comment, build_response and evaluate_response.

\* Mutant: anger is looked for first.
IntentAngerFirst(c) == IF "aggressive" \in c.markers THEN "aggressive" ELSE
    IF c.markers \cap {"personal", "escalate", "ambiguous"} # {} THEN "escalate" ELSE "discussion"

Intent(c) ==
    LET has(x) == x \in c.markers
    IN CASE has("personal") -> "personal_data"
         [] ~has("personal") /\ has("escalate") -> "escalate"
         [] c.markers \cap {"personal", "escalate"} = {} /\ has("aggressive") -> "aggressive"
         [] c.markers \cap {"personal", "escalate", "aggressive"} = {} /\ has("ambiguous") ->
               "escalate"
         [] OTHER -> IF {"legal", "help"} \subseteq c.markers THEN "legal_help"
                     ELSE IF has("question") THEN "question" ELSE "discussion"

Mode(intent) ==
    CASE intent = "personal_data" -> "moderate"
      [] intent = "escalate" -> "editor_review"
      [] OTHER -> "auto_reply"

\* SafetyGateResult.allowed.
Safe(intent) == intent \notin {"personal_data", "escalate"} /\ Mode(intent) = "auto_reply"

\* normalize_update: text messages of groups.
Inbound(c) == c.group
\* TelegramRuntime gives the guard production_send and not dry_run.
GuardSends == ProductionSend /\ ~DryRun
Replies(c) == Inbound(c) /\ Safe(Intent(c)) /\ ~DryRun /\ GuardSends

-----------------------------------------------------------------------------
Current == IF poller.offset = 0 THEN acked + 1 ELSE poller.offset
Confirmed == IF poller.offset = 0 THEN acked ELSE poller.offset - 1

WriteComment(c) ==
    /\ Len(inbox) < MaxComments
    /\ inbox' = Append(inbox, c) /\ replies' = Append(replies, 0)
    /\ UNCHANGED <<acked, poller, restarts>>

Fetch ==
    /\ poller.pc = "idle" /\ Current > poller.last
    /\ acked' = Confirmed
    /\ poller' = [poller EXCEPT !.last = Len(inbox)]
    /\ UNCHANGED <<inbox, replies, restarts>>

\* An error of getUpdates leaves run_polling, and nobody starts it again.
FetchRaised ==
    /\ TelegramMayFail /\ poller.pc = "idle" /\ Current > poller.last
    /\ acked' \in {acked, Confirmed}
    /\ poller' = [NewPoller(acked') EXCEPT !.pc = "dead"]
    /\ UNCHANGED <<inbox, replies, restarts>>

\* Mutant: the offset stays at the message just handled.
MoveNowhere == poller' = [poller EXCEPT !.pc = "idle", !.sent = FALSE, !.offset = Current]

\* The finally clause of run_polling, after a reply, an error or no reply at all.
MoveOn == poller' = [poller EXCEPT !.pc = "idle", !.sent = FALSE, !.offset = Current + 1]

HandleComment ==
    /\ poller.pc = "idle" /\ Current <= poller.last
    /\ IF Replies(inbox[Current]) THEN poller' = [poller EXCEPT !.pc = "send"] ELSE MoveOn
    /\ UNCHANGED <<inbox, acked, replies, restarts>>

\* Telegram posts the reply.
PostReply ==
    /\ poller.pc = "send" /\ ~poller.sent
    /\ poller' = [poller EXCEPT !.sent = TRUE]
    /\ replies' = [replies EXCEPT ![Current] = @ + 1]
    /\ UNCHANGED <<inbox, acked, restarts>>

\* send_message returns, or raises whether or not the reply was posted.
SendEnds ==
    /\ poller.pc = "send" /\ (poller.sent \/ TelegramMayFail)
    /\ MoveOn
    /\ UNCHANGED <<inbox, acked, replies, restarts>>

\* The process is started again, after a crash or a stop that cancelled the poller.
RestartPoller ==
    /\ restarts < MaxRestarts
    /\ restarts' = restarts + 1 /\ poller' = NewPoller(acked)
    /\ UNCHANGED <<inbox, acked, replies>>

PollerStep == Fetch \/ FetchRaised \/ HandleComment \/ SendEnds

CommentsNext == (\E c \in Comments : WriteComment(c)) \/ PollerStep \/ PostReply \/ RestartPoller

CommentsSpec == CommentsInit /\ [][CommentsNext]_commentVars

-----------------------------------------------------------------------------
\* Properties.

\* No comment with personal data or on a subject that is escalated gets an
\* automatic reply, no private message does, and none at all in a dry run
\* (CONSOLIDATION_SECURITY.md: Telegram responses pass through the response
\* safety gate), however often the comments are delivered.
RepliesAreSafe ==
    \A i \in DOMAIN replies : replies[i] > 0 =>
        /\ ProductionSend /\ ~DryRun /\ inbox[i].group
        /\ inbox[i].markers \cap {"personal", "escalate"} = {}

\* A comment is answered once per start of the process at most, and one that
\* Telegram has forgotten never again.
RepliesBounded ==
    /\ \A i \in DOMAIN replies : replies[i] <= restarts + 1
    /\ \A i \in 1 .. acked : poller.pc = "send" => i # Current

\* Every comment is handled unless the polling task dies.
InboxDrained == Current <= Len(inbox) ~> Current > Len(inbox) \/ poller.pc = "dead"

-----------------------------------------------------------------------------
\* What makes RepliesAreSafe and RepliesBounded inductive: only a message from
\* the offset on can still be answered in this run of the process.

MayAnswer(i) == i > Current \/ (i = Current /\ ~poller.sent)

PollerInv ==
    /\ Len(inbox) <= MaxComments
    /\ acked < Current /\ Current <= poller.last + 1
    /\ poller.pc = "send" => Current <= poller.last /\ Replies(inbox[Current])
    /\ poller.sent => poller.pc = "send"
    /\ \A i \in DOMAIN inbox :
          /\ replies[i] > 0 => Replies(inbox[i])
          /\ replies[i] <= restarts + (IF poller.pc # "dead" /\ MayAnswer(i) THEN 0 ELSE 1)
=============================================================================
