-------------------------- MODULE EditorialAutopost --------------------------
(***************************************************************************)
(* The editorial autopost: API requests that create posts, the SQLite      *)
(* queue, the owner's review chat, the polling task that executes the      *)
(* owner's button presses, and the public Telegram channel                 *)
(* (telegram_editorial.py, telegram_update_receiver.py, editorial_autopost  *)
(* .py).                                                                   *)
(*                                                                         *)
(* Everything runs on one event loop: a coroutine is interrupted only where *)
(* it awaits a Telegram call.  There is one coroutine per create_post       *)
(* request, named by its post, and one for the polling task.  A Telegram   *)
(* call in flight is split into Deliver (Telegram executes it), Return (the *)
(* reply arrives and the code runs to its next await) and Raise (error or  *)
(* timeout, whether or not Telegram executed it).                          *)
(***************************************************************************)
EXTENDS EditorialPolicy, Sequences, FiniteSetsExt

CONSTANTS
    Posts,               \* publication ids, one per create_post request
    Poller,              \* the polling coroutine
    Users,               \* Telegram users who press buttons
    Owner,               \* EDITORIAL_OWNER_USER_ID
    Actions,             \* what the pressed buttons say
    Requests,            \* the requests posted to /v1/editorial/posts
    AutoPublishGreen,    \* EDITORIAL_AUTO_PUBLISH_GREEN
    ChannelSendEnabled,  \* TELEGRAM_PRODUCTION_SEND and not TELEGRAM_DRY_RUN
    CallsMayFail,        \* Telegram sends and providers may raise
    FetchMayFail,        \* getUpdates may raise
    MaxPresses,          \* bound: button presses
    MaxCrashes           \* bound: restarts of the process

ASSUME PostsAssumption == Poller \notin Posts
ASSUME OwnerAssumption == Owner \in Users
ASSUME ActionsAssumption ==
    Actions \subseteq {"publish", "reject", "rewrite", "image", "unknown"}
ASSUME RequestsAssumption == Requests \subseteq EditorialRequest
ASSUME SwitchesAssumption ==
    {AutoPublishGreen, ChannelSendEnabled, CallsMayFail, FetchMayFail} \subseteq BOOLEAN
ASSUME BoundsAssumption == MaxPresses \in Nat /\ MaxCrashes \in Nat

VARIABLES
    queue,    \* the SQLite table: a row per created post
    job,      \* where each coroutine is, and the post and draft it works on
    updates,  \* every press, in update_id order; the index is the update_id
    acked,    \* updates Telegram has forgotten: those below a fetched offset
    offset,   \* the poller's local offset, 0 for None
    last,     \* the last update of the batch being handled
    handled,  \* updates whose handler has come to an end at least once
    shown,    \* review keyboards in the owner's chat: post and draft version
    channel,  \* what subscribers have received: photos and texts
    copies,   \* how many times each post's text went to the channel
    crashes   \* restarts so far

botVars == <<shown, channel, copies>>
pollVars == <<updates, acked, offset, last, handled>>
vars == <<queue, job, botVars, pollVars, crashes>>

-----------------------------------------------------------------------------
Coroutines == Posts \cup {Poller}
Statuses == {"review", "ready", "publishing", "published", "error", "rejected"}
NoRow == [status |-> "none"]
NoDraft == [ver |-> 0]

EditorialQueueItem ==
    [status : Statuses, request : Requests, draft : EditorialDraft]

\* The awaits a coroutine can be suspended at; "dead" is a finished poller.
ChannelCalls == {"channel_photo", "channel_text"}
ReviewCalls == {"review_photo", "review_keyboard"}
BotCalls == ChannelCalls \cup ReviewCalls
Job == [pc : BotCalls \cup {"idle", "answer", "done", "dead"},
        sent : BOOLEAN, draft : EditorialDraft \cup {NoDraft}]
IdleJob == [pc |-> "idle", sent |-> FALSE, draft |-> NoDraft]

Update == [from : Users, action : Actions, post : Posts, ver : Nat \ {0}]
Message == [post : Posts, part : {"photo", "text"}, draft : EditorialDraft]

Created(p) == queue[p] # NoRow

\* The update the poller is to handle next, or is handling.
Current == IF offset = 0 THEN acked + 1 ELSE offset

\* The post a coroutine works on.
PostOf(c) == IF c = Poller THEN updates[Current].post ELSE c

\* The idle poller turns to the next update of its batch ...
TakesUpdate == job[Poller].pc = "idle" /\ Current <= last

\* Mutant: anybody's press counts.
HandlingAnyone(action) == TakesUpdate /\ updates[Current].action = action

\* ... which the owner sent by pressing this button.
Handling(action) ==
    /\ TakesUpdate
    /\ updates[Current].from = Owner
    /\ updates[Current].action = action

SetStatus(p, status) == queue' = [queue EXCEPT ![p].status = status]
Await(c, pc, draft) ==
    job' = [job EXCEPT ![c] = [pc |-> pc, sent |-> FALSE, draft |-> draft]]
Resume(c, pc) == Await(c, pc, job[c].draft)

\* Where a coroutine goes when its work ends: the poller answers the press,
\* create_post answers the API request.
Finish(c) == Resume(c, IF c = Poller THEN "answer" ELSE "done")
Answer == Resume(Poller, "answer")

-----------------------------------------------------------------------------
Init ==
    /\ queue = [p \in Posts |-> NoRow]
    /\ job = [c \in Coroutines |-> IdleJob]
    /\ updates = << >>
    /\ acked = 0 /\ offset = 0 /\ last = 0
    /\ handled = {}
    /\ shown = {} /\ channel = {}
    /\ copies = [p \in Posts |-> 0]
    /\ crashes = 0

-----------------------------------------------------------------------------
(* create_post *)

\* Generation is synchronous and writes nothing if it raises.  A draft that
\* is AutoEligible passes the gate of _publish too (AutoEligiblePassesGate
\* in the proofs), so the first await of _publish is reached.
CreatePost(p) ==
    /\ job[p].pc = "idle"
    /\ \E r \in Requests : \E d \in GenerateBundle(r, 1) :
         LET auto == AutoPublishGreen /\ AutoEligible(d)
             Insert(status) ==
                 queue' = [queue EXCEPT ![p] = [status |-> status, request |-> r, draft |-> d]]
         IN  \/ /\ auto /\ ChannelSendEnabled
                /\ Insert("publishing")
                /\ Await(p, "channel_photo", d)
             \/ /\ auto /\ ~ChannelSendEnabled
                /\ Insert("ready")
                /\ Await(p, "review_photo", d)
             \/ /\ ~auto
                /\ Insert("review")
                /\ Await(p, "review_photo", d)
    /\ UNCHANGED <<botVars, pollVars, crashes>>

-----------------------------------------------------------------------------
(* The owner's chat: pressing a button of a keyboard that is on screen.  The
   callback data names the post only; ver records what the user looked at. *)
Press(u, k, action) ==
    /\ Len(updates) < MaxPresses
    /\ k \in shown
    /\ updates' = Append(updates, [from |-> u, action |-> action, post |-> k.post, ver |-> k.ver])
    /\ UNCHANGED <<queue, job, botVars, acked, offset, last, handled, crashes>>

-----------------------------------------------------------------------------
(* run_polling *)

\* Mutant: one update too many is confirmed.
ConfirmedTooMany == IF offset = 0 THEN acked ELSE offset

\* getUpdates(offset) makes Telegram forget the updates below offset.
Confirmed == IF offset = 0 THEN acked ELSE offset - 1

PollFetch ==
    /\ job[Poller].pc = "idle" /\ Current > last
    /\ acked' = Confirmed
    /\ last' = Len(updates)
    /\ UNCHANGED <<queue, job, botVars, updates, offset, handled, crashes>>

\* An error of getUpdates leaves run_polling: nobody restarts the task.
FetchRaised ==
    /\ FetchMayFail
    /\ job[Poller].pc = "idle" /\ Current > last
    /\ acked' \in {acked, Confirmed}
    /\ last' = acked'
    /\ Resume(Poller, "dead")
    /\ offset' = 0
    /\ UNCHANGED <<queue, botVars, updates, handled, crashes>>

\* Mutant: the offset stays at the update just handled.
AnswerCallbackStuck ==
    /\ job[Poller].pc = "answer"
    /\ Await(Poller, "idle", NoDraft)
    /\ offset' = Current
    /\ handled' = handled \cup {Current}
    /\ UNCHANGED <<queue, botVars, updates, acked, last, crashes>>

\* answer_callback_query ends, with a reply or an exception that run_polling
\* swallows; its finally clause moves the offset either way.
AnswerCallback ==
    /\ job[Poller].pc = "answer"
    /\ Await(Poller, "idle", NoDraft)
    /\ offset' = Current + 1
    /\ handled' = handled \cup {Current}
    /\ UNCHANGED <<queue, botVars, updates, acked, last, crashes>>

-----------------------------------------------------------------------------
(* handle_callback *)

\* A press of somebody else, or data that does not parse.
HandleForeign ==
    /\ TakesUpdate
    /\ updates[Current].from # Owner \/ updates[Current].action = "unknown"
    /\ Answer
    /\ UNCHANGED <<queue, botVars, pollVars, crashes>>

HandlePublish ==
    /\ Handling("publish")
    /\ LET p == updates[Current].post
           item == queue[p]
       IN  \/ /\ ~ChannelSendEnabled
              /\ SetStatus(p, "ready")
              /\ Answer
           \/ /\ ChannelSendEnabled /\ ~VisualGate(item.draft)
              /\ Answer
              /\ UNCHANGED queue
           \/ /\ ChannelSendEnabled /\ VisualGate(item.draft)
              /\ SetStatus(p, "publishing")
              /\ Await(Poller, "channel_photo", item.draft)
    /\ UNCHANGED <<botVars, pollVars, crashes>>

NewBundle(p, d) == [status |-> "review", request |-> queue[p].request, draft |-> d]

\* Mutant: the new bundle is saved but not sent to the owner.
ReplaceSilently(p, bundles) ==
    \E d \in bundles : queue' = [queue EXCEPT ![p] = NewBundle(p, d)] /\ Answer

\* The providers answer with one of bundles, which replaces the row's.
Replace(p, bundles) ==
    \E d \in bundles :
        /\ queue' = [queue EXCEPT ![p] = NewBundle(p, d)]
        /\ Await(Poller, "review_photo", d)

HandleRewrite ==
    /\ Handling("rewrite")
    /\ LET p == updates[Current].post
       IN  \/ Replace(p, GenerateBundle(queue[p].request, queue[p].draft.ver + 1))
           \/ CallsMayFail /\ Answer /\ UNCHANGED queue
    /\ UNCHANGED <<botVars, pollVars, crashes>>

HandleImage ==
    /\ Handling("image")
    /\ LET p == updates[Current].post
           item == queue[p]
       IN  \/ Replace(p, RegenerateVisual(item.request, item.draft, item.draft.ver + 1))
           \/ /\ CallsMayFail \/ item.draft.category = "documentary"
              /\ Answer
              /\ UNCHANGED queue
    /\ UNCHANGED <<botVars, pollVars, crashes>>

\* Mutant: the press is answered and the row forgotten.
HandleRejectSilently ==
    Handling("reject") /\ Answer /\ UNCHANGED <<queue, botVars, pollVars, crashes>>

HandleReject ==
    /\ Handling("reject")
    /\ SetStatus(updates[Current].post, "rejected")
    /\ Answer
    /\ UNCHANGED <<botVars, pollVars, crashes>>

-----------------------------------------------------------------------------
(* The Telegram calls of _publish and _send_review *)

\* Telegram executes the call coroutine c is waiting for.
Delivered(c) ==
    job' = [job EXCEPT ![c] = [pc |-> job[c].pc, sent |-> TRUE, draft |-> job[c].draft]]
Pending(c, calls) == job[c].pc \in calls /\ ~job[c].sent
ToChannel(c, part) ==
    channel' = channel \cup {[post |-> PostOf(c), part |-> part, draft |-> job[c].draft]}

DeliverReviewPhoto(c) ==
    /\ Pending(c, {"review_photo"})
    /\ Delivered(c)
    /\ UNCHANGED <<queue, botVars, pollVars, crashes>>

DeliverKeyboard(c) ==
    /\ Pending(c, {"review_keyboard"})
    /\ Delivered(c)
    /\ shown' = shown \cup {[post |-> PostOf(c), ver |-> job[c].draft.ver]}
    /\ UNCHANGED <<queue, channel, copies, pollVars, crashes>>

DeliverChannelPhoto(c) ==
    /\ Pending(c, {"channel_photo"})
    /\ Delivered(c)
    /\ ToChannel(c, "photo")
    /\ UNCHANGED <<queue, shown, copies, pollVars, crashes>>

DeliverChannelText(c) ==
    /\ Pending(c, {"channel_text"})
    /\ Delivered(c)
    /\ ToChannel(c, "text")
    /\ copies' = [copies EXCEPT ![PostOf(c)] = @ + 1]
    /\ UNCHANGED <<queue, shown, pollVars, crashes>>

\* The reply arrives and the coroutine runs on.
Replied(c, pc) == job[c].pc = pc /\ job[c].sent

PhotoReplied(c) ==
    /\ \/ Replied(c, "channel_photo") /\ Resume(c, "channel_text")
       \/ Replied(c, "review_photo") /\ Resume(c, "review_keyboard")
    /\ UNCHANGED <<queue, botVars, pollVars, crashes>>

\* Mutant: the last set_status of _publish is missing.
PublishRepliedSilently(c) ==
    Replied(c, "channel_text") /\ Finish(c) /\ UNCHANGED <<queue, botVars, pollVars, crashes>>

PublishReplied(c) ==
    /\ Replied(c, "channel_text")
    /\ SetStatus(PostOf(c), "published")
    /\ Finish(c)
    /\ UNCHANGED <<botVars, pollVars, crashes>>

KeyboardReplied(c) ==
    /\ Replied(c, "review_keyboard")
    /\ Finish(c)
    /\ UNCHANGED <<queue, botVars, pollVars, crashes>>

\* Mutant: an error counts as published.
PublishRaisedHidden(c) ==
    /\ CallsMayFail /\ job[c].pc \in ChannelCalls
    /\ SetStatus(PostOf(c), "published") /\ Finish(c)
    /\ UNCHANGED <<botVars, pollVars, crashes>>

\* The call raises; Telegram may have executed it all the same.
PublishRaised(c) ==
    /\ CallsMayFail /\ job[c].pc \in ChannelCalls
    /\ SetStatus(PostOf(c), "error")
    /\ Finish(c)
    /\ UNCHANGED <<botVars, pollVars, crashes>>

ReviewRaised(c) ==
    /\ CallsMayFail /\ job[c].pc \in ReviewCalls
    /\ Finish(c)
    /\ UNCHANGED <<queue, botVars, pollVars, crashes>>

-----------------------------------------------------------------------------
\* The process dies or is stopped (CancelledError passes the except clauses)
\* and starts again: rows and Telegram's queue survive, coroutines do not.
Crash ==
    /\ crashes < MaxCrashes
    /\ crashes' = crashes + 1
    /\ job' = [c \in Coroutines |->
                 IF c = Poller THEN IdleJob
                 ELSE IF job[c].pc \in BotCalls
                      THEN [pc |-> "done", sent |-> FALSE, draft |-> job[c].draft]
                      ELSE job[c]]
    /\ offset' = 0 /\ last' = acked
    /\ UNCHANGED <<queue, botVars, updates, acked, handled>>

-----------------------------------------------------------------------------
CallStep(c) ==
    \/ DeliverReviewPhoto(c) \/ DeliverKeyboard(c)
    \/ DeliverChannelPhoto(c) \/ DeliverChannelText(c)
    \/ PhotoReplied(c) \/ PublishReplied(c) \/ KeyboardReplied(c)
    \/ PublishRaised(c) \/ ReviewRaised(c)

HandleUpdate ==
    \/ HandleForeign \/ HandlePublish \/ HandleRewrite \/ HandleImage \/ HandleReject

Next ==
    \/ \E p \in Posts : CreatePost(p)
    \/ \E u \in Users, k \in shown, a \in Actions : Press(u, k, a)
    \/ PollFetch \/ FetchRaised \/ AnswerCallback
    \/ HandleUpdate
    \/ \E c \in Coroutines : CallStep(c)
    \/ Crash

Spec == Init /\ [][Next]_vars

\* Every Telegram call ends (the client's timeout is 40 s), the event loop
\* runs what is runnable, and the polling task fetches again.  Nothing makes
\* a request arrive, a button be pressed or the process restart.
Fairness ==
    /\ WF_vars(PollFetch \/ HandleUpdate \/ AnswerCallback)
    /\ \A c \in Coroutines : WF_vars(CallStep(c))
FairSpec == Spec /\ Fairness

-----------------------------------------------------------------------------
(* Properties *)

TypeOK ==
    /\ queue \in [Posts -> EditorialQueueItem \cup {NoRow}]
    /\ job \in [Coroutines -> Job]
    /\ updates \in Seq(Update)
    /\ acked \in Nat /\ offset \in Nat /\ last \in Nat
    /\ handled \subseteq Nat
    /\ shown \subseteq [post : Posts, ver : Nat \ {0}]
    /\ channel \subseteq Message
    /\ copies \in [Posts -> Nat]
    /\ crashes \in Nat

\* The machine gate of VISUAL_BRAND_LOCK.md holds of everything subscribers
\* ever received, whichever coroutine sent it, after any number of rewrites,
\* new visuals and restarts: the code checks a part of it in _publish and
\* leaves the rest to how drafts are made.
GateRespected ==
    \A m \in channel :
        /\ ChannelSendEnabled
        /\ m.draft.visual_score >= 80 /\ m.draft.visual_review_status = "approved"
        /\ m.draft.category = "documentary" =>
              m.draft.provenance_verified /\ m.draft.source_present /\ ~m.draft.ai_generated

\* The queue's "published" is the truth: the channel has the photo and the
\* text of the very draft the row holds, even when calls failed, the process
\* restarted and presses were executed again (_publish, set_status).
PublishedIsDelivered ==
    \A p \in Posts : queue[p].status = "published" =>
        \A part \in {"photo", "text"} :
            [post |-> p, part |-> part, draft |-> queue[p].draft] \in channel

\* A draft goes out on its own only if it is the GREEN one create_post made
\* with AutoPublishGreen on; every other one has a publish press of the owner
\* on its post (EDITORIAL_AUTOPOST.md: YELLOW and RED remain approval-gated).
Pressed(p) ==
    \E i \in DOMAIN updates :
        updates[i].from = Owner /\ updates[i].action = "publish" /\ updates[i].post = p
ApprovalGated ==
    \A m \in channel :
        \/ Pressed(m.post)
        \/ AutoPublishGreen /\ m.draft.risk = "green" /\ m.draft.ver = 1

\* Polling is at least once: Telegram is never told to forget a press whose
\* handler has not come to an end (run_polling's finally clause and offset).
AckedHandled == \A i \in 1 .. acked : i \in handled

\* A restart can repeat a batch that was executed but not yet confirmed, and
\* nothing else repeats a publication: a post's text goes out at most once
\* for each publish press and each run of the process, plus the automatic one.
OwnerPresses(p) ==
    {i \in DOMAIN updates :
        updates[i].from = Owner /\ updates[i].action = "publish" /\ updates[i].post = p}
AutoPosted(p) ==
    AutoPublishGreen /\ job[p].draft # NoDraft /\ AutoEligible(job[p].draft)
CopiesBounded ==
    \A p \in Posts :
        copies[p] <= (1 + crashes) * Cardinality(OwnerPresses(p)) + (IF AutoPosted(p) THEN 1 ELSE 0)

\* A row that exists changes only by the create_post that made it publishing
\* its draft, or while the poller executes a press of the owner on that post:
\* an unauthorized user cannot execute callback actions, whatever the batch,
\* the redelivery and the interleaving with other posts.
OwnerDecides ==
    [][\A p \in Posts : Created(p) /\ queue'[p] # queue[p] =>
          \/ job[p].pc \in ChannelCalls
          \/ /\ job[Poller].pc \in ChannelCalls \cup {"idle"}
             /\ Current <= last
             /\ updates[Current].from = Owner
             /\ updates[Current].post = p]_vars

\* A post that waits for the owner has a keyboard in the owner's chat that
\* was sent with the version the row holds, or one is on its way: nobody has
\* to guess a publication id (create_post and the rewrite and image presses
\* save first and send the review afterwards).
Working(p) ==
    \/ job[p].pc \in BotCalls
    \/ job[Poller].pc \in BotCalls /\ PostOf(Poller) = p
Reviewable(p) ==
    queue[p].status \in {"review", "ready", "error"} /\ ~Working(p) =>
        [post |-> p, ver |-> queue[p].draft.ver] \in shown
NothingOrphaned == \A p \in Posts : Reviewable(p)

\* Once every press has been executed the owner's last press on a post is what
\* its row reports, although a restart re-executes whole batches: a rejected
\* post is not left published by an older press, nor the other way round.
LastPress(p) ==
    LET mine == {i \in DOMAIN updates :
                    /\ updates[i].from = Owner /\ updates[i].post = p
                    /\ updates[i].action # "unknown"}
    IN  IF mine = {} THEN "none" ELSE updates[Max(mine)].action
Drained == job[Poller].pc = "idle" /\ Current > Len(updates)
LatestPressWins ==
    Drained => \A p \in Posts :
        /\ LastPress(p) = "reject" => queue[p].status = "rejected"
        /\ LastPress(p) = "publish" /\ ~ChannelSendEnabled => queue[p].status = "ready"
        /\ LastPress(p) = "publish" /\ ChannelSendEnabled /\ VisualGate(queue[p].draft) =>
              queue[p].status \in {"published", "error"}
        /\ LastPress(p) = "rewrite" /\ ~CallsMayFail => queue[p].status = "review"

\* What the channel gets is what the owner approved: the version on whose
\* keyboard publish was pressed (ARCHITECTURE.md: never publish without
\* explicit user approval), or the automatic GREEN one.
ApprovedVersion(m) ==
    \E i \in DOMAIN updates :
        /\ updates[i].from = Owner /\ updates[i].action = "publish"
        /\ updates[i].post = m.post /\ updates[i].ver = m.draft.ver
OnlyApprovedVersions ==
    \A m \in channel :
        \/ ApprovedVersion(m)
        \/ AutoPublishGreen /\ m.draft.risk = "green" /\ m.draft.ver = 1

\* Every press is executed and answered in the end, through restarts, as long
\* as getUpdates itself does not raise.
EveryPressHandled ==
    \A i \in 1 .. MaxPresses : Len(updates) >= i ~> i \in handled

\* A publication that was started ends, as published or as error, whatever
\* call of it fails, unless a restart has killed it.
PublishingResolves ==
    \A p \in Posts : queue[p].status = "publishing" ~>
        queue[p].status \in {"published", "error"} \/ crashes > 0

-----------------------------------------------------------------------------
(* The inductive strengthening the proofs rest on. *)

\* The batch is a part of the update sequence, Current is where the poller is
\* in it, and everything before Current has been handled.
PollInv ==
    /\ acked <= last /\ last <= Len(updates)
    /\ offset # 0 => (acked < offset /\ offset <= last + 1)
    /\ job[Poller].pc \in BotCalls \cup {"answer"} => Current <= last
    /\ \A i \in 1 .. Confirmed : i \in handled

\* Coroutines work on rows that exist and hold a draft while they await a
\* call; keyboards and presses are about rows that exist.
RowInv ==
    /\ \A c \in Coroutines : job[c].pc \in BotCalls => job[c].draft \in EditorialDraft
    /\ \A p \in Posts : IF job[p].pc = "idle" THEN job[p].draft = NoDraft ELSE Created(p)
    /\ \A k \in shown : Created(k.post)
    /\ \A i \in DOMAIN updates : Created(updates[i].post)

\* How drafts are made: a documentary visual is a verified photograph.
SoundDraft(d) ==
    d.category = "documentary" =>
        d.provenance_verified /\ d.source_present /\ ~d.ai_generated
DraftInv ==
    /\ \A c \in Coroutines : job[c].draft # NoDraft => SoundDraft(job[c].draft)
    /\ \A p \in Posts : Created(p) => SoundDraft(queue[p].draft)

\* While create_post publishes, nobody has a button for its post; a coroutine
\* that publishes does so for an owner's press or for a GREEN first draft, and
\* holds the row's draft, which passed the gate; the text follows the photo.
Unseen(p) ==
    \/ job[p].pc \in ChannelCalls \cup {"idle", "review_photo"}
    \/ job[p].pc = "review_keyboard" /\ ~job[p].sent
AutoAlone(p) ==
    /\ \A k \in shown : k.post # p
    /\ \A i \in DOMAIN updates : updates[i].post # p
Has(p, part, draft) == [post |-> p, part |-> part, draft |-> draft] \in channel
Licensed(c) ==
    IF c = Poller
    THEN updates[Current].from = Owner /\ updates[Current].action = "publish"
    ELSE AutoPublishGreen /\ AutoEligible(job[c].draft) /\ job[c].draft.ver = 1
Publishing(c) ==
    /\ Licensed(c)
    /\ ChannelSendEnabled
    /\ VisualGate(job[c].draft)
    /\ queue[PostOf(c)].draft = job[c].draft
    /\ job[c].pc = "channel_text" \/ job[c].sent => Has(PostOf(c), "photo", job[c].draft)
    /\ job[c].pc = "channel_text" /\ job[c].sent => Has(PostOf(c), "text", job[c].draft)
PublishInv ==
    /\ \A p \in Posts : Unseen(p) => AutoAlone(p)
    /\ \A c \in Coroutines : job[c].pc \in ChannelCalls => Publishing(c)

\* A coroutine that has not run yet has no row.
IdleInv == \A p \in Posts : job[p].pc = "idle" => ~Created(p)

\* The first update whose execution is not over.
Turn == IF job[Poller].pc = "answer" THEN Current + 1 ELSE Current

\* LatestPressWins before the updates are drained: the owner's last press on
\* a post, once it has been executed, is what the row reports; the review of
\* a new bundle is sent for a press that asked for one.
Decisions(p) ==
    {i \in DOMAIN updates :
        updates[i].from = Owner /\ updates[i].post = p /\ updates[i].action # "unknown"}
Honoured(p, action) ==
    /\ action = "reject" => queue[p].status = "rejected"
    /\ action = "publish" /\ ~ChannelSendEnabled => queue[p].status = "ready"
    /\ action = "publish" /\ ChannelSendEnabled /\ VisualGate(queue[p].draft) =>
          queue[p].status \in {"published", "error"}
    /\ action = "rewrite" /\ ~CallsMayFail => queue[p].status = "review"
Final(i, p) == i \in Decisions(p) /\ \A j \in Decisions(p) : j <= i
WinsInv ==
    /\ \A p \in Posts : \A i \in DOMAIN updates :
          Final(i, p) /\ i < Turn => Honoured(p, updates[i].action)
    /\ \A p \in Posts : Decisions(p) # {} => \E i \in DOMAIN updates : Final(i, p)
    /\ job[Poller].pc \in ReviewCalls =>
          /\ updates[Current].from = Owner /\ updates[Current].action \in {"rewrite", "image"}
          /\ queue[updates[Current].post].status = "review"

\* NothingOrphaned while no call fails and nothing restarts: a post somebody
\* has seen, or that went out on its own, has the keyboard of the version its
\* row holds, whatever its status, unless the poller is working on it.
Keyboard(p) == [post |-> p, ver |-> queue[p].draft.ver] \in shown
PollerOn(p) == job[Poller].pc \in BotCalls /\ PostOf(Poller) = p
Settled(p) ==
    \/ Keyboard(p)
    \/ AutoAlone(p) /\ queue[p].status \notin {"review", "ready", "error"}
Covered(p) == Created(p) /\ ~Unseen(p) /\ ~PollerOn(p) => Settled(p)
Fresh(p) ==
    job[p].pc \in ReviewCalls /\ Unseen(p) => queue[p].draft.ver = job[p].draft.ver
PollerCovered ==
    LET p == PostOf(Poller)
    IN  /\ job[Poller].pc \in ReviewCalls =>
              /\ queue[p].draft.ver = job[Poller].draft.ver
              /\ job[Poller].pc = "review_keyboard" /\ job[Poller].sent => Keyboard(p)
        /\ job[Poller].pc \in ChannelCalls => Keyboard(p)
KeyboardInv == (\A p \in Posts : Covered(p) /\ Fresh(p)) /\ PollerCovered

\* CopiesBounded with what can still be sent: each publish press whose text
\* has not gone out yet in this run of the process, and the automatic copy.
Awaited(c) == job[c].pc = "channel_photo" \/ (job[c].pc = "channel_text" /\ ~job[c].sent)
ToExecute(i) == i > Current \/ (i = Current /\ (job[Poller].pc = "idle" \/ Awaited(Poller)))
PendingPresses(p) ==
    {i \in OwnerPresses(p) : job[Poller].pc # "dead" /\ ToExecute(i)}
One(b) == IF b THEN 1 ELSE 0
CopiesCounted(p) ==
    copies[p] + Cardinality(PendingPresses(p)) + One(Awaited(p)) <=
        (1 + crashes) * Cardinality(OwnerPresses(p)) + One(AutoPosted(p))
CopiesInv == \A p \in Posts : CopiesCounted(p)

StructInv == TypeOK /\ PollInv /\ RowInv
SafetyInv == DraftInv /\ PublishInv /\ GateRespected /\ PublishedIsDelivered /\ ApprovalGated
IndInv == StructInv /\ SafetyInv

-----------------------------------------------------------------------------
\* The autopost implements the approval gate: a press of the owner, or the
\* insertion of a draft that may go out on its own, approves the post.  Only
\* a post that is about no client's case and no news can go out on its own:
\* "Current client/case material is RED", "News ... are at least YELLOW"
\* (docs/EDITORIAL_AUTOPOST.md), whatever risk the language model proposed.
Evergreen(p) == ~queue[p].request.current_case /\ ~queue[p].request.is_news
AutoApproved(p) == ChannelSendEnabled /\ AutoPosted(p) /\ Evergreen(p)

\* A created post stays what it was created as, and a GREEN one is evergreen.
RiskInv ==
    \A p \in Posts : job[p].draft # NoDraft /\ job[p].draft.risk = "green" => Evergreen(p)

Sent(part) == {m.post : m \in {n \in channel : n.part = part}}
Gate == INSTANCE ApprovalGate WITH
            approved <- {p \in Posts : Pressed(p) \/ AutoApproved(p)},
            photos <- Sent("photo"),
            texts <- Sent("text")
GateSpec == Gate!Spec
=============================================================================
