------------------------ MODULE EditorialAutopostProofs ------------------------
(***************************************************************************)
(* Theorems about EditorialAutopost for every number of posts, users,      *)
(* presses, restarts and every switch.                                     *)
(***************************************************************************)
EXTENDS EditorialAutopost, FiniteSetTheorems, TLAPS

\* What _make_visual returns is a well-formed draft, and a documentary one is
\* a verified photograph with a source: the fields _publish never checks.
LEMMA MakeVisualSound ==
    ASSUME NEW r \in EditorialRequest, NEW ver \in Nat \ {0}, NEW risk \in Risks,
           NEW subject \in Subjects, NEW size \in ImageSizes
    PROVE  LET d == MakeVisual(r, ver, risk, subject, size)
           IN  d \in EditorialDraft /\ SoundDraft(d) /\ d.ver = ver
<1> DEFINE category == SelectCategory(r, subject)
           ai == category # "documentary"
           d == MakeVisual(r, ver, risk, subject, size)
           score == PreflightScore(r, category, size, ai)
<1>1. category \in Categories
  BY DEF SelectCategory, Categories
<1>2. r \in RawRequest /\ (r.photo_verified => r.photo_source)
  BY DEF EditorialRequest
<1>3. category = "documentary" => r.photo_verified
  BY DEF SelectCategory
<1>4. size \in Nat
  BY ImageSizesAssumption
<1>5. score \in 0 .. 100
  BY <1>1, <1>4 DEF PreflightScore
<1>6. PreflightStatus(score) \in ReviewStatuses
  BY DEF PreflightStatus, ReviewStatuses
<1>7. r.photo_source \in BOOLEAN /\ r.photo_verified \in BOOLEAN
  BY <1>2 DEF RawRequest
<1>8. d =
         [ver |-> ver, risk |-> risk, category |-> category,
          visual_score |-> score, visual_review_status |-> PreflightStatus(score),
          source_present |-> r.photo_source, provenance_verified |-> r.photo_verified,
          ai_generated |-> ai]
  BY DEF MakeVisual
<1> HIDE DEF category, score, d
<1>9. ai \in BOOLEAN /\ (category = "documentary" => ai = FALSE)
  OBVIOUS
<1>10. d \in EditorialDraft
  BY <1>1, <1>5, <1>6, <1>7, <1>8, <1>9 DEF EditorialDraft
<1>11. SoundDraft(d) /\ d.ver = ver
  BY <1>2, <1>3, <1>8, <1>9 DEF SoundDraft
<1> QED
  BY <1>10, <1>11 DEF d

\* generate_bundle applies the risk policy and then makes the visual.
LEMMA GenerateBundleSound ==
    ASSUME NEW r \in EditorialRequest, NEW ver \in Nat \ {0}, NEW d \in GenerateBundle(r, ver)
    PROVE  d \in EditorialDraft /\ SoundDraft(d) /\ d.ver = ver
<1>1. PICK output \in ModelOutput, size \in ImageSizes :
         d = MakeVisual(r, ver, EnforceRisk(r, output), output.subject, size)
  BY DEF GenerateBundle
<1>2. EnforceRisk(r, output) \in Risks /\ output.subject \in Subjects
  BY DEF EnforceRisk, Risks, ModelOutput
<1> QED
  BY <1>1, <1>2, MakeVisualSound

\* regenerate_visual keeps the text and its risk.
LEMMA RegenerateVisualSound ==
    ASSUME NEW r \in EditorialRequest, NEW old \in EditorialDraft, NEW ver \in Nat \ {0},
           NEW d \in RegenerateVisual(r, old, ver)
    PROVE  d \in EditorialDraft /\ SoundDraft(d) /\ d.ver = ver
<1>1. PICK subject \in Subjects, size \in ImageSizes :
         d = MakeVisual(r, ver, old.risk, subject, size)
  BY DEF RegenerateVisual
<1>2. old.risk \in Risks
  BY DEF EditorialDraft
<1> QED
  BY <1>1, <1>2, MakeVisualSound

\* A draft that create_post may publish unattended passes the gate of _publish
\* as well, so the automatic branch of create_post never raises there.
THEOREM AutoEligiblePassesGate ==
    ASSUME NEW r \in EditorialRequest, NEW d \in GenerateBundle(r, 1), AutoEligible(d)
    PROVE  VisualGate(d)
BY GenerateBundleSound DEF AutoEligible, VisualGate, SoundDraft

-----------------------------------------------------------------------------
(* What the helpers of the actions do. *)

LEMMA PollerIsNoPost == Poller \in Coroutines /\ Posts \subseteq Coroutines /\ Poller \notin Posts
BY PostsAssumption DEF Coroutines

LEMMA AwaitEffect ==
    ASSUME TypeOK, NEW c \in Coroutines, NEW draft \in EditorialDraft \cup {NoDraft},
           NEW pc \in BotCalls \cup {"idle", "answer", "done", "dead"}, Await(c, pc, draft)
    PROVE  /\ job' \in [Coroutines -> Job]
           /\ job'[c] = [pc |-> pc, sent |-> FALSE, draft |-> draft]
           /\ job'[c].pc = pc /\ job'[c].sent = FALSE /\ job'[c].draft = draft
           /\ \A e \in Coroutines : e # c => job'[e] = job[e]
<1>1. [pc |-> pc, sent |-> FALSE, draft |-> draft] \in Job
  BY DEF Job
<1> QED
  BY <1>1 DEF Await, TypeOK

LEMMA ResumeEffect ==
    ASSUME TypeOK, NEW c \in Coroutines,
           NEW pc \in BotCalls \cup {"idle", "answer", "done", "dead"}, Resume(c, pc)
    PROVE  /\ job' \in [Coroutines -> Job]
           /\ job'[c] = [pc |-> pc, sent |-> FALSE, draft |-> job[c].draft]
           /\ job'[c].pc = pc /\ job'[c].sent = FALSE /\ job'[c].draft = job[c].draft
           /\ \A e \in Coroutines : e # c => job'[e] = job[e]
<1>1. job[c].draft \in EditorialDraft \cup {NoDraft}
  BY DEF TypeOK, Job
<1>2. Await(c, pc, job[c].draft)
  BY DEF Resume
<1> HIDE DEF Resume
<1> QED
  BY <1>1, <1>2, AwaitEffect

LEMMA DeliveredEffect ==
    ASSUME TypeOK, NEW c \in Coroutines, Delivered(c)
    PROVE  /\ job' \in [Coroutines -> Job]
           /\ job'[c] = [pc |-> job[c].pc, sent |-> TRUE, draft |-> job[c].draft]
           /\ job'[c].pc = job[c].pc /\ job'[c].sent = TRUE /\ job'[c].draft = job[c].draft
           /\ \A e \in Coroutines : e # c => job'[e] = job[e]
<1>1. job[c].pc \in BotCalls \cup {"idle", "answer", "done", "dead"}
       /\ job[c].draft \in EditorialDraft \cup {NoDraft}
  BY DEF TypeOK, Job
<1>2. [pc |-> job[c].pc, sent |-> TRUE, draft |-> job[c].draft] \in Job
  BY <1>1 DEF Job
<1> QED
  BY <1>2 DEF Delivered, TypeOK

LEMMA SetStatusEffect ==
    ASSUME TypeOK, NEW p \in Posts, NEW status \in Statuses, Created(p), SetStatus(p, status)
    PROVE  /\ queue' \in [Posts -> EditorialQueueItem \cup {NoRow}]
           /\ queue'[p].status = status /\ queue'[p].draft = queue[p].draft
           /\ queue'[p] \in EditorialQueueItem
           /\ \A q \in Posts : q # p => queue'[q] = queue[q]
<1>1. queue[p] \in EditorialQueueItem
  BY DEF TypeOK, Created
<1>2. [queue[p] EXCEPT !.status = status] =
         [status |-> status, request |-> queue[p].request, draft |-> queue[p].draft]
  BY <1>1 DEF EditorialQueueItem
<1>3. [queue[p] EXCEPT !.status = status] \in EditorialQueueItem
  BY <1>1, <1>2 DEF EditorialQueueItem
<1> QED
  BY <1>2, <1>3 DEF SetStatus, TypeOK

\* A row that exists is not the missing row, whatever its contents.
LEMMA ItemIsRow == ASSUME NEW item \in EditorialQueueItem PROVE item # NoRow
BY DEF EditorialQueueItem, NoRow, Statuses

LEMMA DraftIsDraft == ASSUME NEW d \in EditorialDraft PROVE d # NoDraft
BY DEF EditorialDraft, NoDraft

\* The update the poller is at is a press on a post that exists.
LEMMA CurrentUpdate ==
    ASSUME StructInv, Current <= last
    PROVE  /\ Current \in DOMAIN updates /\ Current \in Nat \ {0}
           /\ updates[Current] \in Update
           /\ updates[Current].post \in Posts /\ Created(updates[Current].post)
<1>1. Current \in Nat \ {0}
  BY DEF StructInv, TypeOK, PollInv, Current
<1>2. Current \in DOMAIN updates
  BY <1>1 DEF StructInv, TypeOK, PollInv
<1>3. updates[Current] \in Update
  BY <1>2 DEF StructInv, TypeOK
<1> QED
  BY <1>1, <1>2, <1>3 DEF StructInv, RowInv, Update

LEMMA WorkedPost ==
    ASSUME StructInv, NEW c \in Coroutines, job[c].pc \in BotCalls
    PROVE  /\ PostOf(c) \in Posts /\ Created(PostOf(c))
           /\ job[c].draft \in EditorialDraft
<1>1. CASE c = Poller
  BY <1>1, CurrentUpdate DEF StructInv, PollInv, RowInv, PostOf
<1>2. CASE c # Poller
  BY <1>2 DEF StructInv, RowInv, PostOf, Coroutines, BotCalls, ChannelCalls, ReviewCalls
<1> QED
  BY <1>1, <1>2

-----------------------------------------------------------------------------
(* The structural invariant: types, the poller's place in the updates, and  *)
(* rows behind every keyboard, press and working coroutine.                 *)

\* A step of coroutine c that removes no row and shows no keyboard.
LEMMA RowStep ==
    ASSUME StructInv, NEW c \in Coroutines,
           \A e \in Coroutines : e # c => job'[e] = job[e],
           job'[c].pc \in BotCalls => job'[c].draft \in EditorialDraft,
           c \in Posts => job'[c].pc # "idle" /\ Created(c)',
           \A p \in Posts : Created(p) => Created(p)',
           UNCHANGED <<updates, shown>>
    PROVE  RowInv'
<1>1. \A k \in shown : k.post \in Posts
  BY DEF StructInv, TypeOK
<1>2. \A i \in DOMAIN updates : updates[i].post \in Posts
  <2>1. \A i \in DOMAIN updates : updates[i] \in Update
    BY DEF StructInv, TypeOK
  <2> QED
    BY <2>1 DEF Update
<1>3. \A e \in Coroutines : job'[e].pc \in BotCalls => job'[e].draft \in EditorialDraft
  BY DEF StructInv, RowInv
<1>4. \A p \in Posts : IF job'[p].pc = "idle" THEN job'[p].draft = NoDraft ELSE Created(p)'
  BY PollerIsNoPost DEF StructInv, RowInv
<1> QED
  BY <1>1, <1>2, <1>3, <1>4 DEF StructInv, RowInv

\* A step that leaves the polling state alone.
LEMMA PollStep ==
    ASSUME StructInv, UNCHANGED pollVars,
           job'[Poller].pc \in BotCalls \cup {"answer"} =>
               Current <= last \/ job'[Poller] = job[Poller]
    PROVE  PollInv'
BY DEF StructInv, PollInv, pollVars, Current, Confirmed

LEMMA StructInit == Init => StructInv
<1> SUFFICES ASSUME Init PROVE StructInv
  OBVIOUS
<1>1. IdleJob \in Job
  BY DEF IdleJob, Job
<1>2. TypeOK
  BY <1>1 DEF Init, TypeOK
<1>3. PollInv
  BY PollerIsNoPost DEF Init, PollInv, IdleJob, BotCalls, ChannelCalls, ReviewCalls, Confirmed
<1>4. RowInv
  BY PollerIsNoPost DEF Init, RowInv, IdleJob, BotCalls, ChannelCalls, ReviewCalls
<1> QED
  BY <1>2, <1>3, <1>4 DEF StructInv

\* create_post: the row is inserted before the first await.
LEMMA StructCreatePost ==
    ASSUME StructInv, NEW p \in Posts, CreatePost(p)
    PROVE  StructInv'
<1>1. TypeOK /\ p \in Coroutines /\ p # Poller
  BY PollerIsNoPost DEF StructInv
<1> DEFINE Inserted(r, d, status, pc) ==
              /\ queue' = [queue EXCEPT ![p] = [status |-> status, request |-> r, draft |-> d]]
              /\ Await(p, pc, d)
<1>1a. PICK r \in Requests :
         \E d \in GenerateBundle(r, 1), status \in Statuses, pc \in {"channel_photo", "review_photo"} :
             Inserted(r, d, status, pc)
  BY DEF CreatePost, Statuses
<1>2. PICK d \in GenerateBundle(r, 1), status \in Statuses, pc \in {"channel_photo", "review_photo"} :
         Inserted(r, d, status, pc)
  BY <1>1a
<1>3. d \in EditorialDraft
  BY GenerateBundleSound, RequestsAssumption
<1>4. [status |-> status, request |-> r, draft |-> d] \in EditorialQueueItem
  BY <1>3 DEF EditorialQueueItem
<1>5. /\ queue' \in [Posts -> EditorialQueueItem \cup {NoRow}]
      /\ Created(p)' /\ \A q \in Posts : Created(q) => Created(q)'
  BY <1>1, <1>2, <1>4, ItemIsRow DEF TypeOK, Created
<1>6. /\ job' \in [Coroutines -> Job]
      /\ job'[p] = [pc |-> pc, sent |-> FALSE, draft |-> d]
      /\ \A e \in Coroutines : e # p => job'[e] = job[e]
  BY <1>1, <1>2, <1>3, AwaitEffect DEF BotCalls, ChannelCalls, ReviewCalls
<1>7. UNCHANGED <<botVars, pollVars, crashes>>
  BY DEF CreatePost
<1>8. TypeOK'
  BY <1>1, <1>5, <1>6, <1>7 DEF TypeOK, botVars, pollVars
<1>9. RowInv'
  BY <1>1, <1>3, <1>5, <1>6, <1>7, RowStep DEF botVars, pollVars
<1>10. PollInv'
  BY <1>1, <1>6, <1>7, PollStep, PollerIsNoPost
<1> QED
  BY <1>8, <1>9, <1>10 DEF StructInv

\* Pressing a button appends an update on a post whose keyboard is shown.
LEMMA StructPress ==
    ASSUME StructInv, NEW u \in Users, NEW k \in shown, NEW a \in Actions, Press(u, k, a)
    PROVE  StructInv'
<1> DEFINE press == [from |-> u, action |-> a, post |-> k.post, ver |-> k.ver]
<1>1. k.post \in Posts /\ k.ver \in Nat \ {0} /\ Created(k.post)
  BY DEF StructInv, TypeOK, RowInv
<1>2. press \in Update
  BY <1>1 DEF Update
<1>3. updates \in Seq(Update) /\ updates' = Append(updates, press)
  BY DEF StructInv, TypeOK, Press
<1> HIDE DEF press
<1>4. /\ updates' \in Seq(Update) /\ Len(updates') = Len(updates) + 1
      /\ DOMAIN updates' = 1 .. Len(updates) + 1
      /\ \A i \in 1 .. Len(updates) : updates'[i] = updates[i]
      /\ updates'[Len(updates) + 1] = press
  BY <1>2, <1>3
<1>5. UNCHANGED <<queue, job, botVars, acked, offset, last, handled, crashes>>
  BY DEF Press
<1>6. TypeOK'
  BY <1>4, <1>5 DEF StructInv, TypeOK, botVars
<1>7. PollInv'
  BY <1>3, <1>4, <1>5 DEF StructInv, TypeOK, PollInv, Current, Confirmed
<1>8. \A i \in DOMAIN updates' : Created(updates'[i].post)
  BY <1>1, <1>3, <1>4 DEF StructInv, RowInv, press
<1>9. RowInv'
  BY <1>5, <1>8 DEF StructInv, RowInv, Created, botVars
<1> QED
  BY <1>6, <1>7, <1>9 DEF StructInv

\* The polling task: fetching confirms what was handled, and the batch that
\* arrives ends with the last update there is.
LEMMA StructPollFetch == ASSUME StructInv, PollFetch PROVE StructInv'
<1>1. /\ acked \in Nat /\ offset \in Nat /\ last \in Nat /\ Len(updates) \in Nat
      /\ acked <= last /\ last <= Len(updates)
      /\ offset # 0 => (acked < offset /\ offset <= last + 1)
  BY DEF StructInv, TypeOK, PollInv
<1>2. /\ acked' = Confirmed /\ last' = Len(updates) /\ Current > last
      /\ UNCHANGED <<queue, job, botVars, updates, offset, handled, crashes>>
      /\ job[Poller].pc = "idle"
  BY DEF PollFetch
<1>3. Confirmed \in Nat /\ Confirmed <= last /\ Confirmed' = Confirmed
  BY <1>1, <1>2 DEF Confirmed
<1>4. TypeOK'
  BY <1>1, <1>2, <1>3 DEF StructInv, TypeOK, botVars
<1>5. PollInv'
  BY <1>1, <1>2, <1>3 DEF StructInv, PollInv, Confirmed, BotCalls, ChannelCalls, ReviewCalls
<1>6. RowInv'
  BY <1>2 DEF StructInv, RowInv, Created, botVars
<1> QED
  BY <1>4, <1>5, <1>6 DEF StructInv

LEMMA StructFetchRaised == ASSUME StructInv, FetchRaised PROVE StructInv'
<1>1. /\ acked \in Nat /\ offset \in Nat /\ last \in Nat /\ Len(updates) \in Nat
      /\ acked <= last /\ last <= Len(updates)
      /\ offset # 0 => (acked < offset /\ offset <= last + 1)
      /\ TypeOK /\ \A i \in 1 .. Confirmed : i \in handled
  BY DEF StructInv, TypeOK, PollInv
<1>2. /\ acked' \in {acked, Confirmed} /\ last' = acked' /\ offset' = 0
      /\ UNCHANGED <<queue, botVars, updates, handled, crashes>>
      /\ Resume(Poller, "dead")
  BY DEF FetchRaised
<1>3. Confirmed \in Nat /\ acked <= Confirmed /\ Confirmed <= last /\ Confirmed' = acked'
  BY <1>1, <1>2 DEF Confirmed
<1>4. /\ job' \in [Coroutines -> Job]
      /\ job'[Poller] = [pc |-> "dead", sent |-> FALSE, draft |-> job[Poller].draft]
      /\ \A e \in Coroutines : e # Poller => job'[e] = job[e]
  BY <1>1, <1>2, ResumeEffect, PollerIsNoPost
<1>5. job'[Poller].pc = "dead"
  BY <1>4
<1>6. TypeOK'
  BY <1>1, <1>2, <1>3, <1>4 DEF TypeOK, botVars
<1>7. PollInv'
  BY <1>1, <1>2, <1>3, <1>5 DEF PollInv, BotCalls, ChannelCalls, ReviewCalls
<1>8. RowInv'
  BY <1>2, <1>4, <1>5, RowStep, PollerIsNoPost
     DEF botVars, Created, BotCalls, ChannelCalls, ReviewCalls
<1> QED
  BY <1>6, <1>7, <1>8 DEF StructInv

LEMMA StructAnswerCallback == ASSUME StructInv, AnswerCallback PROVE StructInv'
<1>1. /\ acked \in Nat /\ offset \in Nat /\ last \in Nat /\ Len(updates) \in Nat
      /\ acked <= last /\ last <= Len(updates)
      /\ offset # 0 => (acked < offset /\ offset <= last + 1)
      /\ TypeOK /\ \A i \in 1 .. Confirmed : i \in handled
  BY DEF StructInv, TypeOK, PollInv
<1>2. /\ offset' = Current + 1 /\ handled' = handled \cup {Current}
      /\ UNCHANGED <<queue, botVars, updates, acked, last, crashes>>
      /\ Await(Poller, "idle", NoDraft)
  BY DEF AnswerCallback
<1>3. Current <= last /\ Current \in Nat /\ acked < Current /\ Confirmed = Current - 1
  BY <1>1 DEF StructInv, PollInv, Current, Confirmed, AnswerCallback
<1>4. /\ job' \in [Coroutines -> Job]
      /\ job'[Poller] = [pc |-> "idle", sent |-> FALSE, draft |-> NoDraft]
      /\ \A e \in Coroutines : e # Poller => job'[e] = job[e]
  BY <1>1, <1>2, AwaitEffect, PollerIsNoPost
<1>5. job'[Poller].pc = "idle"
  BY <1>4
<1>6. TypeOK'
  BY <1>1, <1>2, <1>3, <1>4 DEF TypeOK, botVars
<1>7. \A i \in 1 .. Confirmed' : i \in handled'
  BY <1>1, <1>2, <1>3 DEF Confirmed
<1>8. PollInv'
  BY <1>1, <1>2, <1>3, <1>5, <1>7 DEF PollInv, BotCalls, ChannelCalls, ReviewCalls
<1>9. RowInv'
  BY <1>2, <1>4, <1>5, RowStep, PollerIsNoPost
     DEF botVars, Created, BotCalls, ChannelCalls, ReviewCalls
<1> QED
  BY <1>6, <1>8, <1>9 DEF StructInv

\* A handler whose work is done at once, whatever it did to the row.
LEMMA StructAnswer ==
    ASSUME StructInv, TakesUpdate, Answer,
           queue' \in [Posts -> EditorialQueueItem \cup {NoRow}],
           \A p \in Posts : Created(p) => Created(p)',
           UNCHANGED <<botVars, pollVars, crashes>>
    PROVE  StructInv'
<1>1. TypeOK
  BY DEF StructInv
<1>2. /\ job' \in [Coroutines -> Job]
      /\ job'[Poller] = [pc |-> "answer", sent |-> FALSE, draft |-> job[Poller].draft]
      /\ \A e \in Coroutines : e # Poller => job'[e] = job[e]
  BY <1>1, ResumeEffect, PollerIsNoPost DEF Answer
<1>3. job'[Poller].pc = "answer"
  BY <1>2
<1>4. TypeOK'
  BY <1>1, <1>2 DEF TypeOK, botVars, pollVars
<1>5. PollInv'
  BY <1>2, PollStep DEF TakesUpdate
<1>6. RowInv'
  BY <1>2, <1>3, RowStep, PollerIsNoPost
     DEF botVars, pollVars, BotCalls, ChannelCalls, ReviewCalls
<1> QED
  BY <1>4, <1>5, <1>6 DEF StructInv

\* A handler that goes on to a Telegram call with a draft.
LEMMA StructAwait ==
    ASSUME StructInv, TakesUpdate,
           NEW pc \in BotCalls, NEW d \in EditorialDraft, Await(Poller, pc, d),
           queue' \in [Posts -> EditorialQueueItem \cup {NoRow}],
           \A p \in Posts : Created(p) => Created(p)',
           UNCHANGED <<botVars, pollVars, crashes>>
    PROVE  StructInv'
<1>1. TypeOK
  BY DEF StructInv
<1>2. /\ job' \in [Coroutines -> Job]
      /\ job'[Poller] = [pc |-> pc, sent |-> FALSE, draft |-> d]
      /\ \A e \in Coroutines : e # Poller => job'[e] = job[e]
  BY <1>1, AwaitEffect, PollerIsNoPost
<1>3. TypeOK'
  BY <1>1, <1>2 DEF TypeOK, botVars, pollVars
<1>4. PollInv'
  BY <1>2, PollStep DEF TakesUpdate
<1>5. RowInv'
  BY <1>2, RowStep, PollerIsNoPost DEF botVars, pollVars
<1> QED
  BY <1>3, <1>4, <1>5 DEF StructInv

\* The poller at an update of its batch: the row it names exists and holds a
\* request and a draft.
LEMMA TakenRow ==
    ASSUME StructInv, TakesUpdate
    PROVE  LET p == updates[Current].post
           IN  /\ p \in Posts /\ Created(p)
               /\ queue[p] \in EditorialQueueItem
               /\ queue[p].request \in EditorialRequest /\ queue[p].draft \in EditorialDraft
               /\ queue[p].draft.ver + 1 \in Nat \ {0}
<1> DEFINE p == updates[Current].post
<1>1. p \in Posts /\ Created(p)
  BY CurrentUpdate DEF TakesUpdate
<1>2. queue[p] \in EditorialQueueItem
  BY <1>1 DEF StructInv, TypeOK, Created
<1>3. queue[p].request \in Requests /\ queue[p].draft \in EditorialDraft
  BY <1>2 DEF EditorialQueueItem
<1>4. queue[p].draft.ver \in Nat
  BY <1>3 DEF EditorialDraft
<1> QED
  BY <1>1, <1>2, <1>3, <1>4, RequestsAssumption

\* What replace_bundle leaves in the row.
LEMMA ReplacedRow ==
    ASSUME StructInv, TakesUpdate, NEW d \in EditorialDraft,
           queue' = [queue EXCEPT ![updates[Current].post] = NewBundle(updates[Current].post, d)]
    PROVE  LET p == updates[Current].post
           IN  /\ queue' \in [Posts -> EditorialQueueItem \cup {NoRow}]
               /\ queue'[p].status = "review" /\ queue'[p].draft = d
               /\ \A q \in Posts : q # p => queue'[q] = queue[q]
               /\ \A q \in Posts : Created(q) => Created(q)'
<1> DEFINE p == updates[Current].post
           item == NewBundle(p, d)
<1>1. p \in Posts /\ queue[p] \in EditorialQueueItem
  BY TakenRow
<1>2. item \in EditorialQueueItem /\ item.status = "review" /\ item.draft = d
  BY <1>1 DEF NewBundle, EditorialQueueItem, Statuses
<1> HIDE DEF item
<1>3. item # NoRow
  BY <1>2, ItemIsRow
<1>4. queue \in [Posts -> EditorialQueueItem \cup {NoRow}] /\ queue' = [queue EXCEPT ![p] = item]
  BY DEF StructInv, TypeOK, item
<1> HIDE DEF p
<1>5. /\ queue' \in [Posts -> EditorialQueueItem \cup {NoRow}]
      /\ queue'[p] = item
      /\ \A q \in Posts : q # p => queue'[q] = queue[q]
  BY <1>1, <1>2, <1>4
<1> QED
  BY <1>2, <1>3, <1>5 DEF Created, p

LEMMA StructReplace ==
    ASSUME StructInv, TakesUpdate, UNCHANGED <<botVars, pollVars, crashes>>,
           NEW bundles \in SUBSET EditorialDraft, Replace(updates[Current].post, bundles)
    PROVE  StructInv'
<1>1. PICK d \in bundles :
         /\ queue' = [queue EXCEPT ![updates[Current].post] = NewBundle(updates[Current].post, d)]
         /\ Await(Poller, "review_photo", d)
  BY DEF Replace
<1> QED
  BY <1>1, ReplacedRow, StructAwait DEF BotCalls, ReviewCalls

LEMMA StructSetStatus ==
    ASSUME StructInv, NEW p \in Posts, Created(p), NEW status \in Statuses, SetStatus(p, status)
    PROVE  /\ queue' \in [Posts -> EditorialQueueItem \cup {NoRow}]
           /\ \A q \in Posts : Created(q) => Created(q)'
<1>1. TypeOK
  BY DEF StructInv
<1> QED
  BY <1>1, SetStatusEffect, ItemIsRow DEF Created

\* handle_callback, one case per kind of press.
LEMMA StructHandleUpdate == ASSUME StructInv, HandleUpdate PROVE StructInv'
<1> DEFINE p == updates[Current].post
<1>1. TakesUpdate /\ UNCHANGED <<botVars, pollVars, crashes>>
  BY DEF HandleUpdate, HandleForeign, HandlePublish, HandleRewrite, HandleImage,
         HandleReject, Handling
<1>2. /\ p \in Posts /\ Created(p) /\ queue[p].draft \in EditorialDraft
      /\ queue[p].request \in EditorialRequest /\ queue[p].draft.ver + 1 \in Nat \ {0}
      /\ queue \in [Posts -> EditorialQueueItem \cup {NoRow}]
  BY <1>1, TakenRow DEF StructInv, TypeOK
<1>3. CASE Answer /\ UNCHANGED queue
  BY <1>1, <1>2, <1>3, StructAnswer DEF Created
<1>4. CASE Answer /\ \E status \in Statuses : SetStatus(p, status)
  BY <1>1, <1>2, <1>4, StructAnswer, StructSetStatus
<1>5. CASE \E bundles \in SUBSET EditorialDraft : Replace(p, bundles)
  BY <1>1, <1>5, StructReplace
<1>6. CASE SetStatus(p, "publishing") /\ Await(Poller, "channel_photo", queue[p].draft)
  <2>1. "publishing" \in Statuses /\ "channel_photo" \in BotCalls
    BY DEF Statuses, BotCalls, ChannelCalls
  <2> QED
    BY <1>1, <1>2, <1>6, <2>1, StructSetStatus, StructAwait
<1>7. HandleForeign => Answer /\ UNCHANGED queue
  BY DEF HandleForeign
<1>8. HandlePublish =>
         \/ Answer /\ UNCHANGED queue
         \/ Answer /\ SetStatus(p, "ready")
         \/ SetStatus(p, "publishing") /\ Await(Poller, "channel_photo", queue[p].draft)
  BY DEF HandlePublish
<1>9. GenerateBundle(queue[p].request, queue[p].draft.ver + 1) \in SUBSET EditorialDraft
  BY <1>2, GenerateBundleSound
<1>10. RegenerateVisual(queue[p].request, queue[p].draft, queue[p].draft.ver + 1)
          \in SUBSET EditorialDraft
  BY <1>2, RegenerateVisualSound
<1>11. HandleRewrite \/ HandleImage =>
         \/ \E bundles \in SUBSET EditorialDraft : Replace(p, bundles)
         \/ Answer /\ UNCHANGED queue
  BY <1>9, <1>10 DEF HandleRewrite, HandleImage
<1>12. HandleReject => Answer /\ SetStatus(p, "rejected")
  BY DEF HandleReject
<1>13. "ready" \in Statuses /\ "rejected" \in Statuses
  BY DEF Statuses
<1> QED
  BY <1>3, <1>4, <1>5, <1>6, <1>7, <1>8, <1>11, <1>12, <1>13 DEF HandleUpdate

-----------------------------------------------------------------------------
\* A Telegram call that is delivered: only DeliverKeyboard touches what
\* StructInv speaks of, and the keyboard's post has a row.
LEMMA StructDeliver ==
    ASSUME StructInv, NEW c \in Coroutines, Delivered(c), job[c].pc \in BotCalls,
           shown' \in {shown, shown \cup {[post |-> PostOf(c), ver |-> job[c].draft.ver]}},
           channel' \subseteq Message, copies' \in [Posts -> Nat],
           UNCHANGED <<queue, pollVars, crashes>>
    PROVE  StructInv'
<1>1. TypeOK /\ PostOf(c) \in Posts /\ Created(PostOf(c)) /\ job[c].draft \in EditorialDraft
  BY WorkedPost DEF StructInv
<1>2. job[c].draft.ver \in Nat \ {0}
  BY <1>1 DEF EditorialDraft
<1>3. /\ job' \in [Coroutines -> Job]
      /\ job'[c] = [pc |-> job[c].pc, sent |-> TRUE, draft |-> job[c].draft]
      /\ \A e \in Coroutines : e # c => job'[e] = job[e]
  BY <1>1, DeliveredEffect
<1>4. \A e \in Coroutines : job'[e].pc = job[e].pc /\ job'[e].draft = job[e].draft
  BY <1>3
<1>5. /\ shown' \subseteq [post : Posts, ver : Nat \ {0}]
      /\ \A k \in shown' : Created(k.post)
  BY <1>1, <1>2 DEF TypeOK, StructInv, RowInv
<1>6. TypeOK'
  BY <1>1, <1>3, <1>5 DEF TypeOK, pollVars
<1>7. PollInv'
  BY <1>4, PollerIsNoPost DEF StructInv, PollInv, pollVars, Current, Confirmed
<1>8. RowInv'
  BY <1>4, <1>5, PollerIsNoPost DEF StructInv, RowInv, Created, pollVars
<1> QED
  BY <1>6, <1>7, <1>8 DEF StructInv

\* A call that ends: the coroutine goes on to another call or finishes.
LEMMA StructReturn ==
    ASSUME StructInv, NEW c \in Coroutines, job[c].pc \in BotCalls,
           NEW pc \in BotCalls \cup {"answer", "done"}, Resume(c, pc),
           queue' \in [Posts -> EditorialQueueItem \cup {NoRow}],
           \A p \in Posts : Created(p) => Created(p)',
           UNCHANGED <<botVars, pollVars, crashes>>
    PROVE  StructInv'
<1>1. TypeOK /\ job[c].draft \in EditorialDraft
  BY WorkedPost DEF StructInv
<1>2. /\ job' \in [Coroutines -> Job]
      /\ job'[c] = [pc |-> pc, sent |-> FALSE, draft |-> job[c].draft]
      /\ \A e \in Coroutines : e # c => job'[e] = job[e]
  BY <1>1, ResumeEffect
<1>3. TypeOK'
  BY <1>1, <1>2 DEF TypeOK, botVars, pollVars
<1>4. c = Poller => Current <= last
  BY DEF StructInv, PollInv
<1>5. PollInv'
  BY <1>2, <1>4, PollStep, PollerIsNoPost
<1>6. c \in Posts => Created(c)
  BY DEF StructInv, RowInv, BotCalls, ChannelCalls, ReviewCalls
<1>7. job'[c].pc # "idle" /\ (c \in Posts => Created(c)')
  BY <1>2, <1>6 DEF BotCalls, ChannelCalls, ReviewCalls
<1>8. RowInv'
  BY <1>1, <1>2, <1>7, RowStep DEF botVars, pollVars
<1> QED
  BY <1>3, <1>5, <1>8 DEF StructInv

LEMMA StructCallStep ==
    ASSUME StructInv, NEW c \in Coroutines, CallStep(c)
    PROVE  StructInv'
<1>1. /\ job[c].pc \in BotCalls
      /\ UNCHANGED <<pollVars, crashes>>
  BY DEF CallStep, DeliverReviewPhoto, DeliverKeyboard, DeliverChannelPhoto,
         DeliverChannelText, PhotoReplied, PublishReplied, KeyboardReplied,
         PublishRaised, ReviewRaised, Pending, Replied, BotCalls, ChannelCalls, ReviewCalls
<1>2. /\ PostOf(c) \in Posts /\ Created(PostOf(c)) /\ job[c].draft \in EditorialDraft
      /\ TypeOK /\ queue \in [Posts -> EditorialQueueItem \cup {NoRow}]
      /\ channel \subseteq Message /\ copies \in [Posts -> Nat]
  BY <1>1, WorkedPost DEF StructInv, TypeOK
<1>3. \A part \in {"photo", "text"} : ToChannel(c, part) => channel' \subseteq Message
  BY <1>2 DEF ToChannel, Message
<1>4. CASE DeliverReviewPhoto(c)
  BY <1>1, <1>2, <1>4, StructDeliver DEF DeliverReviewPhoto, botVars
<1>5. CASE DeliverKeyboard(c)
  BY <1>1, <1>2, <1>5, StructDeliver DEF DeliverKeyboard
<1>6. CASE DeliverChannelPhoto(c)
  BY <1>1, <1>2, <1>3, <1>6, StructDeliver DEF DeliverChannelPhoto
<1>7. CASE DeliverChannelText(c)
  <2>1. copies' \in [Posts -> Nat]
    BY <1>2, <1>7 DEF DeliverChannelText
  <2> QED
    BY <1>1, <1>3, <1>7, <2>1, StructDeliver DEF DeliverChannelText
<1>8. \A pc \in BotCalls \cup {"answer", "done"} :
         Resume(c, pc) /\ UNCHANGED <<queue, botVars>> => StructInv'
  BY <1>1, <1>2, StructReturn DEF Created
<1>9. \A pc \in BotCalls \cup {"answer", "done"}, status \in Statuses :
         Resume(c, pc) /\ SetStatus(PostOf(c), status) /\ UNCHANGED botVars => StructInv'
  BY <1>1, <1>2, StructReturn, StructSetStatus
<1>10. Finish(c) => \E pc \in BotCalls \cup {"answer", "done"} : Resume(c, pc)
  BY DEF Finish
<1>11. CASE PhotoReplied(c)
  BY <1>8, <1>11 DEF PhotoReplied, BotCalls, ChannelCalls, ReviewCalls
<1>12. CASE KeyboardReplied(c) \/ ReviewRaised(c)
  BY <1>8, <1>10, <1>12 DEF KeyboardReplied, ReviewRaised
<1>13. CASE PublishReplied(c) \/ PublishRaised(c)
  BY <1>9, <1>10, <1>13 DEF PublishReplied, PublishRaised, Statuses
<1> QED
  BY <1>4, <1>5, <1>6, <1>7, <1>11, <1>12, <1>13 DEF CallStep

\* A restart: coroutines end, rows and Telegram's queue stay.
LEMMA StructCrash == ASSUME StructInv, Crash PROVE StructInv'
<1>1. /\ offset' = 0 /\ last' = acked /\ crashes' = crashes + 1
      /\ UNCHANGED <<queue, botVars, updates, acked, handled>>
  BY DEF Crash
<1>2. /\ acked \in Nat /\ last \in Nat /\ offset \in Nat /\ Len(updates) \in Nat
      /\ acked <= last /\ last <= Len(updates)
      /\ offset # 0 => acked < offset
      /\ \A i \in 1 .. Confirmed : i \in handled
  BY DEF StructInv, TypeOK, PollInv
<1>3. IdleJob \in Job
  BY DEF IdleJob, Job
<1>4. \A c \in Coroutines : job[c] \in Job /\ job[c].draft \in EditorialDraft \cup {NoDraft}
  BY DEF StructInv, TypeOK, Job
<1>5. \A c \in Coroutines : [pc |-> "done", sent |-> FALSE, draft |-> job[c].draft] \in Job
  BY <1>4 DEF Job
<1>6. job' \in [Coroutines -> Job]
  BY <1>3, <1>4, <1>5 DEF Crash
<1>7. \A c \in Coroutines :
         job'[c].pc \in BotCalls \cup {"answer"} => job'[c] = job[c] /\ c # Poller
  BY DEF Crash, IdleJob, BotCalls, ChannelCalls, ReviewCalls
<1>8. \A p \in Posts : /\ job'[p].pc = "idle" <=> job[p].pc = "idle"
                       /\ job'[p].draft = job[p].draft
  BY PollerIsNoPost DEF Crash, BotCalls, ChannelCalls, ReviewCalls
<1>9. TypeOK'
  BY <1>1, <1>6 DEF StructInv, TypeOK, botVars
<1>10. \A i \in 1 .. Confirmed' : i \in handled'
  BY <1>1, <1>2 DEF Confirmed
<1>11. PollInv'
  BY <1>1, <1>2, <1>7, <1>10, PollerIsNoPost DEF PollInv
<1>12. RowInv'
  BY <1>1, <1>7, <1>8 DEF StructInv, RowInv, Created, botVars
<1> QED
  BY <1>9, <1>11, <1>12 DEF StructInv

LEMMA StructStep == StructInv /\ [Next]_vars => StructInv'
<1> SUFFICES ASSUME StructInv, [Next]_vars PROVE StructInv'
  OBVIOUS
<1>1. CASE UNCHANGED vars
  BY <1>1 DEF StructInv, TypeOK, PollInv, RowInv, Created, Current, Confirmed,
              vars, botVars, pollVars
<1>2. CASE Next
  BY <1>2, StructCreatePost, StructPress, StructPollFetch, StructFetchRaised,
     StructAnswerCallback, StructHandleUpdate, StructCallStep, StructCrash DEF Next
<1> QED
  BY <1>1, <1>2

LEMMA StructCorrect == Spec => []StructInv
BY StructInit, StructStep, PTL DEF Spec

\* Every reachable state is well typed: in particular the poller never reads
\* past the updates, and no row is written for a post that was not created.
THEOREM TypeCorrect == Spec => []TypeOK
<1>1. StructInv => TypeOK
  BY DEF StructInv
<1> QED
  BY <1>1, StructCorrect, PTL

\* Polling is at least once: Telegram only forgets presses that were handled.
THEOREM AtLeastOnce == Spec => []AckedHandled
<1>1. StructInv => AckedHandled
  BY DEF StructInv, TypeOK, PollInv, AckedHandled, Confirmed
<1> QED
  BY <1>1, StructCorrect, PTL

-----------------------------------------------------------------------------
(* Drafts: whatever is stored or in flight was made by the service. *)

LEMMA DraftInit == Init => DraftInv
<1> SUFFICES ASSUME Init PROVE DraftInv
  OBVIOUS
<1>1. \A c \in Coroutines : job[c].draft = NoDraft
  BY DEF Init, IdleJob
<1>2. \A p \in Posts : ~Created(p)
  BY DEF Init, Created
<1> QED
  BY <1>1, <1>2 DEF DraftInv

\* The form of every step that makes no draft.
LEMMA DraftFrame ==
    ASSUME DraftInv,
           \A c \in Coroutines : job'[c].draft \in {job[c].draft, NoDraft},
           \A p \in Posts : Created(p)' => Created(p) /\ queue'[p].draft = queue[p].draft
    PROVE  DraftInv'
BY DEF DraftInv, SoundDraft

LEMMA DraftHandleUpdate ==
    ASSUME StructInv, DraftInv, HandleUpdate
    PROVE  DraftInv'
<1> DEFINE p == updates[Current].post
<1>1. TakesUpdate /\ TypeOK
  BY DEF HandleUpdate, HandleForeign, HandlePublish, HandleRewrite, HandleImage,
         HandleReject, Handling, StructInv
<1>2. /\ p \in Posts /\ Created(p) /\ queue[p].draft \in EditorialDraft
      /\ queue[p].request \in EditorialRequest /\ queue[p].draft.ver + 1 \in Nat \ {0}
  BY <1>1, TakenRow
<1>3. Answer =>
         \A c \in Coroutines : job'[c].draft = job[c].draft
  BY <1>1, ResumeEffect, PollerIsNoPost DEF Answer
<1>4. \A status \in Statuses : SetStatus(p, status) =>
         \A q \in Posts : Created(q)' => Created(q) /\ queue'[q].draft = queue[q].draft
  BY <1>1, <1>2, SetStatusEffect DEF Created
<1>5. CASE Answer /\ UNCHANGED queue
  BY <1>3, <1>5, DraftFrame DEF Created
<1>6. CASE Answer /\ \E status \in Statuses : SetStatus(p, status)
  BY <1>3, <1>4, <1>6, DraftFrame
<1>7. CASE SetStatus(p, "publishing") /\ Await(Poller, "channel_photo", queue[p].draft)
  <2> DEFINE d == queue[p].draft
  <2> HIDE DEF p, d
  <2>0. Await(Poller, "channel_photo", d) /\ d \in EditorialDraft
    BY <1>2, <1>7 DEF d
  <2>1. \A c \in Coroutines : job'[c].draft = job[c].draft \/ job'[c].draft = queue[p].draft
    BY <1>1, <2>0, AwaitEffect, PollerIsNoPost DEF BotCalls, ChannelCalls, d
  <2>2. \A q \in Posts : Created(q)' => Created(q) /\ queue'[q].draft = queue[q].draft
    BY <1>4, <1>7 DEF Statuses
  <2> QED
    BY <1>2, <2>1, <2>2 DEF DraftInv, SoundDraft
<1>8. ASSUME NEW d \in EditorialDraft, SoundDraft(d),
             queue' = [queue EXCEPT ![p] = NewBundle(p, d)], Await(Poller, "review_photo", d)
      PROVE  DraftInv'
  <2>1. \A c \in Coroutines : job'[c].draft = job[c].draft \/ job'[c].draft = d
    BY <1>1, <1>8, AwaitEffect, PollerIsNoPost DEF BotCalls, ReviewCalls
  <2>2. \A q \in Posts : queue'[q] = queue[q] \/ queue'[q].draft = d
    BY <1>1, <1>8, ReplacedRow
  <2> QED
    BY <1>8, <2>1, <2>2 DEF DraftInv, SoundDraft, Created
<1>9. ASSUME NEW bundles, \A d \in bundles : d \in EditorialDraft /\ SoundDraft(d),
             Replace(p, bundles)
      PROVE  DraftInv'
  BY <1>8, <1>9 DEF Replace
<1>10. Replace(p, GenerateBundle(queue[p].request, queue[p].draft.ver + 1)) => DraftInv'
  BY <1>2, <1>9, GenerateBundleSound
<1>11. Replace(p, RegenerateVisual(queue[p].request, queue[p].draft, queue[p].draft.ver + 1))
          => DraftInv'
  BY <1>2, <1>9, RegenerateVisualSound
<1>12. "ready" \in Statuses /\ "rejected" \in Statuses
  BY DEF Statuses
<1>13. HandleForeign => Answer /\ UNCHANGED queue
  BY DEF HandleForeign
<1>14. HandlePublish =>
         \/ Answer /\ UNCHANGED queue
         \/ Answer /\ SetStatus(p, "ready")
         \/ SetStatus(p, "publishing") /\ Await(Poller, "channel_photo", queue[p].draft)
  BY DEF HandlePublish
<1>15. HandleRewrite \/ HandleImage \/ HandleReject =>
         \/ Replace(p, GenerateBundle(queue[p].request, queue[p].draft.ver + 1))
         \/ Replace(p, RegenerateVisual(queue[p].request, queue[p].draft, queue[p].draft.ver + 1))
         \/ Answer /\ UNCHANGED queue
         \/ Answer /\ SetStatus(p, "rejected")
  BY DEF HandleRewrite, HandleImage, HandleReject
<1> QED
  BY <1>5, <1>6, <1>7, <1>10, <1>11, <1>12, <1>13, <1>14, <1>15 DEF HandleUpdate

LEMMA DraftStep == StructInv /\ DraftInv /\ [Next]_vars => DraftInv'
<1> SUFFICES ASSUME StructInv, DraftInv, [Next]_vars PROVE DraftInv'
  OBVIOUS
<1>1. TypeOK
  BY DEF StructInv
<1>2. CASE UNCHANGED vars
  BY <1>2 DEF DraftInv, Created, vars
<1>3. ASSUME NEW p \in Posts, CreatePost(p) PROVE DraftInv'
  <2>1. PICK r \in Requests : \E d \in GenerateBundle(r, 1) :
           \E status \in Statuses, pc \in {"channel_photo", "review_photo"} :
               /\ queue' = [queue EXCEPT ![p] = [status |-> status, request |-> r, draft |-> d]]
               /\ Await(p, pc, d)
    BY <1>3 DEF CreatePost, Statuses
  <2>2. PICK d \in GenerateBundle(r, 1) :
           \E status \in Statuses, pc \in {"channel_photo", "review_photo"} :
               /\ queue' = [queue EXCEPT ![p] = [status |-> status, request |-> r, draft |-> d]]
               /\ Await(p, pc, d)
    BY <2>1
  <2>3. d \in EditorialDraft /\ SoundDraft(d)
    BY GenerateBundleSound, RequestsAssumption
  <2>4. \A c \in Coroutines : job'[c].draft = job[c].draft \/ job'[c].draft = d
    BY <1>1, <2>2, <2>3, AwaitEffect, PollerIsNoPost DEF BotCalls, ChannelCalls, ReviewCalls
  <2>5. \A q \in Posts : queue'[q] = queue[q] \/ queue'[q].draft = d
    BY <1>1, <2>2 DEF TypeOK
  <2> QED
    BY <2>3, <2>4, <2>5 DEF DraftInv, SoundDraft, Created
<1>4. CASE \E u \in Users, k \in shown, a \in Actions : Press(u, k, a)
  BY <1>4, DraftFrame DEF Press, Created
<1>5. CASE PollFetch
  BY <1>5, DraftFrame DEF PollFetch, Created
<1>6. CASE FetchRaised
  <2>1. \A c \in Coroutines : job'[c].draft = job[c].draft
    BY <1>1, <1>6, ResumeEffect, PollerIsNoPost DEF FetchRaised
  <2> QED
    BY <1>6, <2>1, DraftFrame DEF FetchRaised, Created
<1>7. CASE AnswerCallback
  <2>1. \A c \in Coroutines : job'[c].draft \in {job[c].draft, NoDraft}
    BY <1>1, <1>7, AwaitEffect, PollerIsNoPost DEF AnswerCallback
  <2> QED
    BY <1>7, <2>1, DraftFrame DEF AnswerCallback, Created
<1>8. CASE HandleUpdate
  BY <1>8, DraftHandleUpdate
<1>9. ASSUME NEW c \in Coroutines, CallStep(c) PROVE DraftInv'
  <2>1. \/ Delivered(c)
        \/ \E pc \in BotCalls \cup {"answer", "done"} : Resume(c, pc)
    BY <1>9 DEF CallStep, DeliverReviewPhoto, DeliverKeyboard, DeliverChannelPhoto,
         DeliverChannelText, PhotoReplied, PublishReplied, KeyboardReplied, PublishRaised,
         ReviewRaised, Finish, BotCalls, ChannelCalls, ReviewCalls
  <2>2. \A e \in Coroutines : job'[e].draft = job[e].draft
    BY <1>1, <2>1, DeliveredEffect, ResumeEffect
  <2>3. PostOf(c) \in Posts /\ Created(PostOf(c))
    BY <1>9, WorkedPost DEF CallStep, DeliverReviewPhoto, DeliverKeyboard,
         DeliverChannelPhoto, DeliverChannelText, PhotoReplied, PublishReplied,
         KeyboardReplied, PublishRaised, ReviewRaised, Pending, Replied,
         BotCalls, ChannelCalls, ReviewCalls
  <2>4. UNCHANGED queue \/ \E status \in Statuses : SetStatus(PostOf(c), status)
    BY <1>9 DEF CallStep, DeliverReviewPhoto, DeliverKeyboard, DeliverChannelPhoto,
         DeliverChannelText, PhotoReplied, PublishReplied, KeyboardReplied, PublishRaised,
         ReviewRaised, Statuses
  <2>5. \A q \in Posts : Created(q)' => Created(q) /\ queue'[q].draft = queue[q].draft
    BY <1>1, <2>3, <2>4, SetStatusEffect DEF Created
  <2> QED
    BY <2>2, <2>5, DraftFrame
<1>10. CASE Crash
  <2>1. \A c \in Coroutines : job'[c].draft \in {job[c].draft, NoDraft}
    BY <1>10 DEF Crash, IdleJob
  <2> QED
    BY <1>10, <2>1, DraftFrame DEF Crash, Created
<1> QED
  BY <1>2, <1>3, <1>4, <1>5, <1>6, <1>7, <1>8, <1>9, <1>10 DEF Next

-----------------------------------------------------------------------------
(* Publishing: nobody publishes without a licence, past the gate, or        *)
(* anything but the row's draft.                                            *)

LEMMA SafetyInit == Init => SafetyInv
<1> SUFFICES ASSUME Init PROVE SafetyInv
  OBVIOUS
<1>1. DraftInv
  BY DraftInit
<1>2. \A c \in Coroutines : job[c].pc = "idle"
  BY DEF Init, IdleJob
<1>3. PublishInv
  BY <1>2 DEF PublishInv, AutoAlone, Init, ChannelCalls
<1>4. \A p \in Posts : queue[p].status # "published"
  BY DEF Init, NoRow
<1> QED
  BY <1>1, <1>3, <1>4 DEF SafetyInv, GateRespected, PublishedIsDelivered, ApprovalGated, Init

\* A coroutine whose call is still in flight stays a licensed publisher.
LEMMA PublishingKept ==
    ASSUME NEW c \in Coroutines, Publishing(c), job'[c] = job[c],
           PostOf(c)' = PostOf(c), queue'[PostOf(c)].draft = queue[PostOf(c)].draft,
           c = Poller => updates'[Current'] = updates[Current],
           channel \subseteq channel'
    PROVE  Publishing(c)'
<1>1. Licensed(c)'
  BY DEF Publishing, Licensed
<1> QED
  BY <1>1 DEF Publishing, Has

\* A step that shows, presses and sends nothing, and makes no row published.
LEMMA SafetyFrame ==
    ASSUME IndInv, DraftInv', UNCHANGED <<shown, updates, channel>>,
           \A p \in Posts : Unseen(p)' => Unseen(p),
           \A c \in Coroutines : job'[c].pc \in ChannelCalls => Publishing(c)',
           \A p \in Posts : queue'[p].status = "published" =>
               queue[p].status = "published" /\ queue'[p].draft = queue[p].draft
    PROVE  SafetyInv'
<1>1. PublishInv'
  BY DEF IndInv, SafetyInv, PublishInv, AutoAlone
<1>2. GateRespected'
  BY DEF IndInv, SafetyInv, GateRespected
<1>3. PublishedIsDelivered'
  BY DEF IndInv, SafetyInv, PublishedIsDelivered
<1>4. ApprovalGated'
  BY DEF IndInv, SafetyInv, ApprovalGated, Pressed
<1> QED
  BY <1>1, <1>2, <1>3, <1>4 DEF SafetyInv

\* A post somebody has a button for is not being published by create_post.
LEMMA PublishersApart ==
    ASSUME IndInv, Current <= last, NEW q \in Posts, job[q].pc \in ChannelCalls \cup {"idle"}
    PROVE  updates[Current].post # q
BY CurrentUpdate DEF IndInv, SafetyInv, PublishInv, Unseen, AutoAlone

LEMMA SafetyCreatePost ==
    ASSUME IndInv, DraftInv', NEW p \in Posts, CreatePost(p)
    PROVE  SafetyInv'
<1>1. TypeOK /\ p \in Coroutines /\ p # Poller /\ job[p].pc = "idle"
  BY PollerIsNoPost DEF IndInv, StructInv, CreatePost
<1> DEFINE Inserted(r, d, status) ==
              queue' = [queue EXCEPT ![p] = [status |-> status, request |-> r, draft |-> d]]
           Branch(r, d) ==
              \/ /\ AutoPublishGreen /\ AutoEligible(d) /\ ChannelSendEnabled
                 /\ Inserted(r, d, "publishing") /\ Await(p, "channel_photo", d)
              \/ Inserted(r, d, "ready") /\ Await(p, "review_photo", d)
              \/ Inserted(r, d, "review") /\ Await(p, "review_photo", d)
<1>2. PICK r \in Requests : \E d \in GenerateBundle(r, 1) : Branch(r, d)
  BY DEF CreatePost
<1>3. PICK d \in GenerateBundle(r, 1) : Branch(r, d)
  BY <1>2
<1>4. d \in EditorialDraft /\ SoundDraft(d) /\ d.ver = 1
  BY GenerateBundleSound, RequestsAssumption
<1>5. /\ UNCHANGED <<shown, updates, channel, acked, offset, last>>
      /\ Current' = Current
  BY DEF CreatePost, botVars, pollVars, Current
<1>6. /\ \/ job'[p].pc = "review_photo"
         \/ /\ job'[p].pc = "channel_photo"
            /\ AutoPublishGreen /\ AutoEligible(d) /\ ChannelSendEnabled
      /\ job'[p].sent = FALSE /\ job'[p].draft = d
      /\ \A e \in Coroutines : e # p => job'[e] = job[e]
  <2>1. PICK pc \in {"channel_photo", "review_photo"} :
           /\ Await(p, pc, d)
           /\ pc = "channel_photo" => AutoPublishGreen /\ AutoEligible(d) /\ ChannelSendEnabled
    BY <1>3
  <2>2. pc \in BotCalls
    BY DEF BotCalls, ChannelCalls, ReviewCalls
  <2>3. d \in EditorialDraft \cup {NoDraft}
    BY <1>4
  <2>4. /\ job'[p].pc = pc /\ job'[p].sent = FALSE /\ job'[p].draft = d
        /\ \A e \in Coroutines : e # p => job'[e] = job[e]
    BY <1>1, <2>1, <2>2, <2>3, AwaitEffect
  <2> QED
    BY <2>1, <2>4
<1>7. /\ queue'[p].draft = d /\ queue'[p].status # "published"
      /\ \A q \in Posts : q # p => queue'[q] = queue[q]
  BY <1>1, <1>3 DEF TypeOK
<1>8. \A q \in Posts : Unseen(q)' => Unseen(q)
  BY <1>1, <1>6, PollerIsNoPost DEF Unseen
<1>9. job'[p].pc \in ChannelCalls => Publishing(p)'
  <2> SUFFICES ASSUME job'[p].pc \in ChannelCalls PROVE Publishing(p)'
    OBVIOUS
  <2>1. AutoPublishGreen /\ AutoEligible(d) /\ ChannelSendEnabled
    BY <1>6 DEF ChannelCalls
  <2>2. VisualGate(d)
    BY <1>4, <2>1 DEF AutoEligible, VisualGate, SoundDraft
  <2>3. job'[p].pc = "channel_photo"
    BY <1>6 DEF ChannelCalls
  <2> QED
    BY <1>1, <1>4, <1>6, <1>7, <2>1, <2>2, <2>3 DEF Publishing, Licensed, PostOf
<1>10. ASSUME NEW c \in Coroutines, c # p, job'[c].pc \in ChannelCalls
       PROVE  Publishing(c)'
  <2>1. job'[c] = job[c] /\ job[c].pc \in ChannelCalls /\ Publishing(c)
    BY <1>6, <1>10 DEF IndInv, SafetyInv, PublishInv
  <2>2. PostOf(c) # p /\ PostOf(c) \in Posts
    BY <1>1, <1>10, <2>1, PublishersApart, WorkedPost
       DEF PostOf, IndInv, StructInv, PollInv, BotCalls
  <2>3. PostOf(c)' = PostOf(c)
    BY <1>5 DEF PostOf
  <2> QED
    BY <1>5, <1>7, <2>1, <2>2, <2>3, PublishingKept
<1> QED
  BY <1>5, <1>7, <1>8, <1>9, <1>10, SafetyFrame

LEMMA SafetyPress ==
    ASSUME IndInv, DraftInv', NEW u \in Users, NEW k \in shown, NEW a \in Actions, Press(u, k, a)
    PROVE  SafetyInv'
<1> DEFINE press == [from |-> u, action |-> a, post |-> k.post, ver |-> k.ver]
<1>1. updates \in Seq(Update) /\ updates' = Append(updates, press) /\ press \in Update
  <2>1. k.post \in Posts /\ k.ver \in Nat \ {0}
    BY DEF IndInv, StructInv, TypeOK
  <2> QED
    BY <2>1 DEF IndInv, StructInv, TypeOK, Press, Update
<1>2. /\ DOMAIN updates' = 1 .. Len(updates) + 1
      /\ DOMAIN updates = 1 .. Len(updates)
      /\ \A i \in DOMAIN updates : updates'[i] = updates[i]
      /\ updates'[Len(updates) + 1].post = k.post
  BY <1>1
<1>3. UNCHANGED <<queue, job, shown, channel, copies, acked, offset, last>> /\ Current' = Current
  BY DEF Press, botVars, Current
<1>4. \A p \in Posts : AutoAlone(p) => k.post # p /\ AutoAlone(p)'
  BY <1>1, <1>2, <1>3 DEF AutoAlone
<1>5. ASSUME NEW c \in Coroutines, job'[c].pc \in ChannelCalls
      PROVE  Publishing(c)'
  <2>1. job[c].pc \in ChannelCalls /\ Publishing(c) /\ job'[c] = job[c]
    BY <1>3, <1>5 DEF IndInv, SafetyInv, PublishInv
  <2>2. c = Poller => Current \in DOMAIN updates
    BY <2>1, CurrentUpdate DEF IndInv, StructInv, PollInv, BotCalls
  <2>3. c = Poller => updates'[Current'] = updates[Current]
    BY <1>2, <1>3, <2>2
  <2>4. PostOf(c)' = PostOf(c)
    BY <2>3 DEF PostOf
  <2> QED
    BY <1>3, <2>1, <2>3, <2>4, PublishingKept
<1>6. PublishInv'
  BY <1>3, <1>4, <1>5 DEF IndInv, SafetyInv, PublishInv, Unseen
<1>7. \A p \in Posts : Pressed(p) => Pressed(p)'
  BY <1>2 DEF Pressed
<1>8. ApprovalGated'
  BY <1>3, <1>7 DEF IndInv, SafetyInv, StructInv, TypeOK, ApprovalGated, Message
<1> QED
  BY <1>3, <1>6, <1>8 DEF IndInv, SafetyInv, GateRespected, PublishedIsDelivered

\* Steps of the poller between calls: no coroutine becomes a publisher.
LEMMA SafetyPoller ==
    ASSUME IndInv, DraftInv', UNCHANGED <<queue, shown, updates, channel>>,
           job'[Poller].pc \notin ChannelCalls,
           \A p \in Posts : job'[p] = job[p]
    PROVE  SafetyInv'
<1>1. ASSUME NEW c \in Coroutines, job'[c].pc \in ChannelCalls
      PROVE  Publishing(c)'
  <2>1. c \in Posts /\ c # Poller
    BY <1>1, PollerIsNoPost DEF Coroutines
  <2>2. job'[c] = job[c] /\ Publishing(c)
    BY <1>1, <2>1 DEF IndInv, SafetyInv, PublishInv
  <2> QED
    BY <2>1, <2>2, PublishingKept DEF PostOf
<1>2. \A p \in Posts : Unseen(p)' => Unseen(p)
  BY DEF Unseen
<1> QED
  BY <1>1, <1>2, SafetyFrame

LEMMA SafetyPolling ==
    ASSUME IndInv, DraftInv', PollFetch \/ FetchRaised \/ AnswerCallback \/ Crash
    PROVE  SafetyInv'
<1>1. TypeOK
  BY DEF IndInv, StructInv
<1>2. CASE PollFetch
  BY <1>2, SafetyPoller DEF PollFetch, botVars, ChannelCalls
<1>3. CASE FetchRaised
  <2>1. job'[Poller].pc = "dead" /\ \A p \in Posts : job'[p] = job[p]
    BY <1>1, <1>3, ResumeEffect, PollerIsNoPost DEF FetchRaised
  <2> QED
    BY <1>3, <2>1, SafetyPoller DEF FetchRaised, botVars, ChannelCalls
<1>4. CASE AnswerCallback
  <2>1. job'[Poller].pc = "idle" /\ \A p \in Posts : job'[p] = job[p]
    BY <1>1, <1>4, AwaitEffect, PollerIsNoPost DEF AnswerCallback
  <2> QED
    BY <1>4, <2>1, SafetyPoller DEF AnswerCallback, botVars, ChannelCalls
<1>5. CASE Crash
  <2>1. \A c \in Coroutines : job'[c].pc \notin ChannelCalls
    BY <1>5 DEF Crash, IdleJob, BotCalls, ChannelCalls
  <2>2. \A p \in Posts : Unseen(p)' => Unseen(p)
    BY <1>5, PollerIsNoPost DEF Unseen, Crash, BotCalls, ChannelCalls, ReviewCalls
  <2> QED
    BY <1>5, <2>1, <2>2, SafetyFrame DEF Crash, botVars
<1> QED
  BY <1>2, <1>3, <1>4, <1>5

LEMMA SafetyHandleUpdate ==
    ASSUME IndInv, DraftInv', HandleUpdate
    PROVE  SafetyInv'
<1> DEFINE p == updates[Current].post
           Starts ==
              /\ updates[Current].from = Owner /\ updates[Current].action = "publish"
              /\ ChannelSendEnabled /\ VisualGate(queue[p].draft)
              /\ SetStatus(p, "publishing")
              /\ Await(Poller, "channel_photo", queue[p].draft)
           Replaces == \E bundles \in SUBSET EditorialDraft : Replace(p, bundles)
<1>1. /\ TakesUpdate /\ TypeOK /\ StructInv
      /\ UNCHANGED <<shown, updates, channel, acked, offset, last>> /\ Current' = Current
  BY DEF HandleUpdate, HandleForeign, HandlePublish, HandleRewrite, HandleImage,
         HandleReject, Handling, IndInv, StructInv, botVars, pollVars, Current
<1>2. /\ p \in Posts /\ Created(p) /\ queue[p].draft \in EditorialDraft
      /\ queue[p].request \in EditorialRequest /\ queue[p].draft.ver + 1 \in Nat \ {0}
  BY <1>1, TakenRow
<1>3. \/ Answer /\ UNCHANGED queue
      \/ Answer /\ SetStatus(p, "ready")
      \/ Answer /\ SetStatus(p, "rejected")
      \/ Starts \/ Replaces
  <2>1. HandleForeign => Answer /\ UNCHANGED queue
    BY DEF HandleForeign
  <2>2. HandlePublish => \/ Answer /\ UNCHANGED queue
                         \/ Answer /\ SetStatus(p, "ready")
                         \/ Starts
    BY DEF HandlePublish, Handling
  <2>3. GenerateBundle(queue[p].request, queue[p].draft.ver + 1) \in SUBSET EditorialDraft
    BY <1>2, GenerateBundleSound
  <2>4. RegenerateVisual(queue[p].request, queue[p].draft, queue[p].draft.ver + 1)
           \in SUBSET EditorialDraft
    BY <1>2, RegenerateVisualSound
  <2>5. HandleRewrite \/ HandleImage => Replaces \/ (Answer /\ UNCHANGED queue)
    BY <2>3, <2>4 DEF HandleRewrite, HandleImage
  <2>6. HandleReject => Answer /\ SetStatus(p, "rejected")
    BY DEF HandleReject
  <2> QED
    BY <2>1, <2>2, <2>5, <2>6 DEF HandleUpdate
<1>4. ASSUME Answer
      PROVE  job'[Poller].pc = "answer" /\ \A q \in Posts : job'[q] = job[q]
  BY <1>1, <1>4, ResumeEffect, PollerIsNoPost DEF Answer
<1>5. ASSUME NEW status \in Statuses, SetStatus(p, status)
      PROVE  /\ queue'[p].status = status /\ queue'[p].draft = queue[p].draft
             /\ \A q \in Posts : q # p => queue'[q] = queue[q]
  BY <1>1, <1>2, <1>5, SetStatusEffect
<1>6. "ready" \in Statuses /\ "rejected" \in Statuses /\ "publishing" \in Statuses
  BY DEF Statuses
\* Everything but the poller starting to publish.
<1>7. ASSUME \A q \in Posts : job'[q] = job[q],
             \A q \in Posts : q # p => queue'[q] = queue[q],
             queue'[p] = queue[p] \/ queue'[p].status # "published",
             job'[Poller].pc \in ChannelCalls => Publishing(Poller)'
      PROVE  SafetyInv'
  <2>1. ASSUME NEW c \in Posts, job'[c].pc \in ChannelCalls PROVE Publishing(c)'
    <3>1. c # p /\ c # Poller /\ c \in Coroutines
      BY <1>1, <1>7, <2>1, PublishersApart, PollerIsNoPost DEF TakesUpdate
    <3>2. Publishing(c) /\ job'[c] = job[c] /\ queue'[c] = queue[c]
      BY <1>7, <2>1, <3>1 DEF IndInv, SafetyInv, PublishInv
    <3> QED
      BY <1>1, <3>1, <3>2, PublishingKept DEF PostOf
  <2>2. \A c \in Coroutines : job'[c].pc \in ChannelCalls => Publishing(c)'
    BY <1>7, <2>1 DEF Coroutines
  <2>3. \A q \in Posts : Unseen(q)' => Unseen(q)
    BY <1>7 DEF Unseen
  <2> QED
    BY <1>1, <1>7, <2>2, <2>3, SafetyFrame
<1>8. CASE Answer /\ UNCHANGED queue
  BY <1>4, <1>7, <1>8 DEF ChannelCalls
<1>9. CASE Answer /\ SetStatus(p, "ready")
  BY <1>4, <1>5, <1>6, <1>7, <1>9 DEF ChannelCalls
<1>10. CASE Answer /\ SetStatus(p, "rejected")
  BY <1>4, <1>5, <1>6, <1>7, <1>10 DEF ChannelCalls
<1>11. CASE Starts
  <2>d. PICK d \in {queue[p].draft} : Await(Poller, "channel_photo", d)
    BY <1>11
  <2>1. PICK pc \in {"channel_photo"} : Await(Poller, pc, d)
    BY <2>d
  <2>2. /\ pc \in BotCalls \cup {"idle", "answer", "done", "dead"}
        /\ d \in EditorialDraft \cup {NoDraft} /\ Poller \in Coroutines
    BY <1>2, <2>d, PollerIsNoPost DEF BotCalls, ChannelCalls
  <2>0. TypeOK
    BY <1>1
  <2> HIDE DEF Starts, Replaces
  <2>3. /\ job'[Poller].pc = pc /\ job'[Poller].sent = FALSE /\ job'[Poller].draft = d
        /\ \A e \in Coroutines : e # Poller => job'[e] = job[e]
    BY <2>0, <2>1, <2>2, AwaitEffect
  <2> USE DEF Starts
  <2>4. \A q \in Posts : job'[q] = job[q]
    BY <2>3, PollerIsNoPost
  <2>5. /\ queue'[p].status = "publishing" /\ queue'[p].draft = d
        /\ \A q \in Posts : q # p => queue'[q] = queue[q]
    BY <1>5, <1>6, <1>11, <2>d
  <2>6. PostOf(Poller)' = p
    BY <1>1 DEF PostOf
  <2>7. Publishing(Poller)'
    BY <1>1, <1>11, <2>1, <2>d, <2>3, <2>5, <2>6 DEF Publishing, Licensed
  <2> QED
    BY <1>7, <2>4, <2>5, <2>7
<1>12. CASE Replaces
  <2>1. PICK d \in EditorialDraft :
           queue' = [queue EXCEPT ![p] = NewBundle(p, d)] /\ Await(Poller, "review_photo", d)
    BY <1>12 DEF Replace
  <2>2. PICK pc \in {"review_photo"} : Await(Poller, pc, d)
    BY <2>1
  <2>3. /\ pc \in BotCalls \cup {"idle", "answer", "done", "dead"}
        /\ d \in EditorialDraft \cup {NoDraft} /\ Poller \in Coroutines
    BY PollerIsNoPost DEF BotCalls, ReviewCalls
  <2>0. TypeOK
    BY <1>1
  <2> HIDE DEF Starts, Replaces
  <2>4. /\ job'[Poller].pc = pc /\ job'[Poller].sent = FALSE /\ job'[Poller].draft = d
        /\ \A e \in Coroutines : e # Poller => job'[e] = job[e]
    BY <2>0, <2>2, <2>3, AwaitEffect
  <2>5. \A q \in Posts : job'[q] = job[q]
    BY <2>4, PollerIsNoPost
  <2>6. queue'[p].status = "review" /\ \A q \in Posts : q # p => queue'[q] = queue[q]
    BY <1>1, <2>1, ReplacedRow
  <2> QED
    BY <1>7, <2>2, <2>4, <2>5, <2>6 DEF ChannelCalls
<1> QED
  BY <1>3, <1>8, <1>9, <1>10, <1>11, <1>12

\* A delivered call: the channel gets what a licensed publisher holds, the
\* owner's chat a keyboard of a post that create_post no longer publishes.
LEMMA SafetyDeliver ==
    ASSUME IndInv, DraftInv', NEW c \in Coroutines,
           \/ DeliverReviewPhoto(c) \/ DeliverKeyboard(c)
           \/ DeliverChannelPhoto(c) \/ DeliverChannelText(c)
    PROVE  SafetyInv'
<1> DEFINE m(part) == [post |-> PostOf(c), part |-> part, draft |-> job[c].draft]
<1>1. /\ Delivered(c) /\ ~job[c].sent /\ job[c].pc \in BotCalls /\ TypeOK /\ StructInv
      /\ UNCHANGED <<queue, updates, acked, offset, last>> /\ Current' = Current
  BY DEF DeliverReviewPhoto, DeliverKeyboard, DeliverChannelPhoto, DeliverChannelText,
         Pending, BotCalls, ChannelCalls, ReviewCalls, IndInv, StructInv, pollVars, Current
<1>2. /\ job'[c].pc = job[c].pc /\ job'[c].sent = TRUE /\ job'[c].draft = job[c].draft
      /\ \A e \in Coroutines : e # c => job'[e] = job[e]
  BY <1>1, DeliveredEffect
<1>3. /\ PostOf(c) \in Posts /\ PostOf(c)' = PostOf(c)
      /\ \A e \in Coroutines : PostOf(e)' = PostOf(e)
  BY <1>1, WorkedPost DEF PostOf
<1>4. \/ shown' = shown
      \/ /\ job[c].pc = "review_keyboard"
         /\ shown' = shown \cup {[post |-> PostOf(c), ver |-> job[c].draft.ver]}
  BY DEF DeliverReviewPhoto, DeliverKeyboard, DeliverChannelPhoto, DeliverChannelText,
         Pending, botVars
<1>5. \/ job[c].pc \in ReviewCalls /\ channel' = channel
      \/ job[c].pc = "channel_photo" /\ channel' = channel \cup {m("photo")}
      \/ job[c].pc = "channel_text" /\ channel' = channel \cup {m("text")}
  BY DEF DeliverReviewPhoto, DeliverKeyboard, DeliverChannelPhoto, DeliverChannelText,
         Pending, ToChannel, ReviewCalls, botVars
<1>6. channel \subseteq channel'
  BY <1>5
<1>7. job[c].pc \in ChannelCalls => Publishing(c)
  BY DEF IndInv, SafetyInv, PublishInv
<1>8. \A p \in Posts : Unseen(p)' => Unseen(p) /\ AutoAlone(p)
  BY <1>2, PollerIsNoPost DEF Unseen, IndInv, SafetyInv, PublishInv
<1>9. ASSUME NEW p \in Posts, Unseen(p)' PROVE AutoAlone(p)'
  <2>1. AutoAlone(p) /\ Unseen(p)
    BY <1>8, <1>9
  <2>2. CASE job[c].pc = "review_keyboard"
    <3>1. CASE c = Poller
      BY <1>1, <1>4, <2>1, <3>1, CurrentUpdate DEF AutoAlone, PostOf, StructInv, PollInv
    <3>2. CASE c # Poller
      <4>1. PostOf(c) = c
        BY <3>2 DEF PostOf
      <4>2. c # p
        BY <1>2, <1>9, <2>2 DEF Unseen, ChannelCalls
      <4> QED
        BY <1>1, <1>4, <2>1, <4>1, <4>2 DEF AutoAlone
    <3> QED
      BY <3>1, <3>2
  <2>3. CASE shown' = shown
    BY <1>1, <2>1, <2>3 DEF AutoAlone
  <2> QED
    BY <1>4, <2>2, <2>3
<1>10. ASSUME NEW e \in Coroutines, job'[e].pc \in ChannelCalls PROVE Publishing(e)'
  <2>1. CASE e # c
    <3>1. job'[e] = job[e] /\ Publishing(e)
      BY <1>2, <1>10, <2>1 DEF IndInv, SafetyInv, PublishInv
    <3> QED
      BY <1>1, <1>3, <1>6, <3>1, PublishingKept
  <2>2. CASE e = c
    <3>1. Publishing(c) /\ job[c].pc \in ChannelCalls
      BY <1>2, <1>7, <1>10, <2>2
    <3>2. Licensed(c)'
      BY <1>1, <1>2, <3>1 DEF Publishing, Licensed
    <3>3. Has(PostOf(c), "photo", job[c].draft)'
      BY <1>2, <1>3, <1>5, <1>6, <3>1 DEF Publishing, Has, ChannelCalls, ReviewCalls
    <3>4. job[c].pc = "channel_text" => Has(PostOf(c), "text", job[c].draft)'
      BY <1>2, <1>3, <1>5 DEF Has, ReviewCalls
    <3>5. queue'[PostOf(c)'].draft = job'[c].draft /\ VisualGate(job'[c].draft) /\ ChannelSendEnabled
      BY <1>1, <1>2, <1>3, <3>1 DEF Publishing
    <3> QED
      BY <1>2, <2>2, <3>2, <3>3, <3>4, <3>5 DEF Publishing
  <2> QED
    BY <2>1, <2>2
<1>11. PublishInv'
  BY <1>9, <1>10 DEF PublishInv
<1>12. PublishedIsDelivered'
  BY <1>1, <1>6 DEF IndInv, SafetyInv, PublishedIsDelivered
<1>13. ASSUME NEW n \in channel', n \notin channel
       PROVE  job[c].pc \in ChannelCalls /\ n.draft = job[c].draft /\ n.post = PostOf(c)
  BY <1>5, <1>13 DEF ChannelCalls
<1>14. job[c].pc \in ChannelCalls => SoundDraft(job[c].draft)
  <2>1. job[c].draft # NoDraft
    BY <1>1, WorkedPost, DraftIsDraft
  <2> QED
    BY <2>1 DEF IndInv, SafetyInv, DraftInv
<1>15. GateRespected'
  <2> SUFFICES ASSUME NEW n \in channel'
               PROVE  /\ ChannelSendEnabled
                      /\ n.draft.visual_score >= 80 /\ n.draft.visual_review_status = "approved"
                      /\ n.draft.category = "documentary" =>
                            n.draft.provenance_verified /\ n.draft.source_present
                            /\ ~n.draft.ai_generated
    BY DEF GateRespected
  <2>1. CASE n \in channel
    BY <2>1 DEF IndInv, SafetyInv, GateRespected
  <2>2. CASE n \notin channel
    BY <1>7, <1>13, <1>14, <2>2 DEF Publishing, VisualGate, SoundDraft
  <2> QED
    BY <2>1, <2>2
<1>16. ApprovalGated'
  <2> SUFFICES ASSUME NEW n \in channel'
               PROVE  \/ Pressed(n.post)'
                      \/ AutoPublishGreen /\ n.draft.risk = "green" /\ n.draft.ver = 1
    BY DEF ApprovalGated
  <2>1. CASE n \in channel
    BY <1>1, <2>1 DEF IndInv, SafetyInv, ApprovalGated, Pressed
  <2>2. CASE n \notin channel
    <3>1. Licensed(c) /\ n.draft = job[c].draft /\ n.post = PostOf(c)
      BY <1>7, <1>13, <2>2 DEF Publishing
    <3>2. CASE c = Poller
      <4>1. Current \in DOMAIN updates
        BY <1>1, <3>2, CurrentUpdate DEF StructInv, PollInv
      <4> QED
        BY <1>1, <3>1, <3>2, <4>1 DEF Licensed, PostOf, Pressed
    <3>3. CASE c # Poller
      BY <3>1, <3>3 DEF Licensed, AutoEligible
    <3> QED
      BY <3>2, <3>3
  <2> QED
    BY <2>1, <2>2
<1> QED
  BY <1>11, <1>12, <1>15, <1>16 DEF SafetyInv

\* A call that ends: published is written after both deliveries, error after
\* an exception, and the text is sent after the photo.
LEMMA SafetyReturn ==
    ASSUME IndInv, DraftInv', NEW c \in Coroutines,
           \/ PhotoReplied(c) \/ PublishReplied(c) \/ KeyboardReplied(c)
           \/ PublishRaised(c) \/ ReviewRaised(c)
    PROVE  SafetyInv'
<1>1. /\ job[c].pc \in BotCalls /\ TypeOK /\ StructInv
      /\ UNCHANGED <<shown, updates, channel, acked, offset, last>> /\ Current' = Current
  BY DEF PhotoReplied, PublishReplied, KeyboardReplied, PublishRaised, ReviewRaised, Replied,
         BotCalls, ChannelCalls, ReviewCalls, IndInv, StructInv, botVars, pollVars, Current
<1>2. PICK pc \in BotCalls \cup {"answer", "done"} :
         /\ Resume(c, pc)
         /\ \/ pc \in {"answer", "done"}
            \/ job[c].pc = "channel_photo" /\ job[c].sent /\ pc = "channel_text"
            \/ job[c].pc = "review_photo" /\ job[c].sent /\ pc = "review_keyboard"
  BY DEF PhotoReplied, PublishReplied, KeyboardReplied, PublishRaised, ReviewRaised, Replied,
         Finish, BotCalls, ChannelCalls, ReviewCalls
<1>3. /\ job'[c].pc = pc /\ job'[c].sent = FALSE /\ job'[c].draft = job[c].draft
      /\ \A e \in Coroutines : e # c => job'[e] = job[e]
  BY <1>1, <1>2, ResumeEffect
<1>4. PostOf(c) \in Posts /\ Created(PostOf(c)) /\ \A e \in Coroutines : PostOf(e)' = PostOf(e)
  BY <1>1, WorkedPost DEF PostOf
<1>5. \/ UNCHANGED queue
      \/ job[c].pc \in ChannelCalls /\ SetStatus(PostOf(c), "error")
      \/ Replied(c, "channel_text") /\ SetStatus(PostOf(c), "published")
  BY DEF PhotoReplied, PublishReplied, KeyboardReplied, PublishRaised, ReviewRaised
<1>6. ASSUME NEW status \in Statuses, SetStatus(PostOf(c), status)
      PROVE  /\ queue'[PostOf(c)].status = status
             /\ queue'[PostOf(c)].draft = queue[PostOf(c)].draft
             /\ \A q \in Posts : q # PostOf(c) => queue'[q] = queue[q]
  BY <1>1, <1>4, <1>6, SetStatusEffect
<1>7. "error" \in Statuses /\ "published" \in Statuses
  BY DEF Statuses
<1>8. \A q \in Posts : queue'[q].draft = queue[q].draft
  BY <1>5, <1>6, <1>7
<1>9. \A p \in Posts : Unseen(p)' => Unseen(p)
  BY <1>2, <1>3, PollerIsNoPost DEF Unseen, ChannelCalls
<1>10. ASSUME NEW e \in Coroutines, job'[e].pc \in ChannelCalls PROVE Publishing(e)'
  <2>1. CASE e # c
    <3>1. job'[e] = job[e] /\ Publishing(e) /\ job[e].pc \in BotCalls
      BY <1>3, <1>10, <2>1 DEF IndInv, SafetyInv, PublishInv, BotCalls
    <3>2. PostOf(e) \in Posts
      BY <1>1, <3>1, WorkedPost
    <3> QED
      BY <1>1, <1>4, <1>8, <3>1, <3>2, PublishingKept
  <2>2. CASE e = c
    <3>1. job[c].pc = "channel_photo" /\ job[c].sent /\ pc = "channel_text"
      BY <1>2, <1>3, <1>10, <2>2 DEF ChannelCalls
    <3>2. Publishing(c)
      BY <3>1 DEF IndInv, SafetyInv, PublishInv, ChannelCalls
    <3>3. Licensed(c)'
      BY <1>1, <1>3, <3>2 DEF Publishing, Licensed
    <3>4. Has(PostOf(c), "photo", job[c].draft)'
      BY <1>1, <1>3, <1>4, <3>1, <3>2 DEF Publishing, Has
    <3> QED
      BY <1>1, <1>3, <1>4, <1>8, <2>2, <3>1, <3>2, <3>3, <3>4 DEF Publishing
  <2> QED
    BY <2>1, <2>2
<1>11. CASE ~(Replied(c, "channel_text") /\ SetStatus(PostOf(c), "published"))
  <2>1. \A q \in Posts : queue'[q].status = "published" =>
           queue[q].status = "published" /\ queue'[q].draft = queue[q].draft
    BY <1>5, <1>6, <1>7, <1>8, <1>11
  <2> QED
    BY <1>1, <1>9, <1>10, <2>1, SafetyFrame
<1>12. CASE Replied(c, "channel_text") /\ SetStatus(PostOf(c), "published")
  <2>1. PublishInv'
    BY <1>1, <1>9, <1>10 DEF IndInv, SafetyInv, PublishInv, AutoAlone
  <2>2. Publishing(c) /\ job[c].pc = "channel_text" /\ job[c].sent
    BY <1>12 DEF Replied, IndInv, SafetyInv, PublishInv, ChannelCalls
  <2>3. PublishedIsDelivered'
    <3> SUFFICES ASSUME NEW q \in Posts, queue'[q].status = "published",
                        NEW part \in {"photo", "text"}
                 PROVE  [post |-> q, part |-> part, draft |-> queue'[q].draft] \in channel'
      BY DEF PublishedIsDelivered
    <3>1. CASE q = PostOf(c)
      BY <1>1, <1>8, <2>2, <3>1 DEF Publishing, Has
    <3>2. CASE q # PostOf(c)
      BY <1>1, <1>6, <1>7, <1>12, <3>2 DEF IndInv, SafetyInv, PublishedIsDelivered
    <3> QED
      BY <3>1, <3>2
  <2>4. GateRespected' /\ ApprovalGated'
    BY <1>1 DEF IndInv, SafetyInv, GateRespected, ApprovalGated, Pressed
  <2> QED
    BY <2>1, <2>3, <2>4 DEF SafetyInv
<1> QED
  BY <1>11, <1>12

LEMMA SafetyStep == IndInv /\ DraftInv' /\ [Next]_vars => SafetyInv'
<1> SUFFICES ASSUME IndInv, DraftInv', [Next]_vars PROVE SafetyInv'
  OBVIOUS
<1>1. CASE UNCHANGED vars
  <2>1. UNCHANGED <<shown, updates, channel, queue, job, acked, offset>>
    BY <1>1 DEF vars, botVars, pollVars
  <2>2. PublishInv'
    BY <2>1 DEF IndInv, SafetyInv, PublishInv, Unseen, AutoAlone, Publishing, Licensed,
                Has, PostOf, Current
  <2> QED
    BY <2>1, <2>2 DEF IndInv, SafetyInv, GateRespected, PublishedIsDelivered,
                      ApprovalGated, Pressed
<1>2. CASE Next
  <2>1. ASSUME NEW c \in Coroutines, CallStep(c) PROVE SafetyInv'
    BY <2>1, SafetyDeliver, SafetyReturn DEF CallStep
  <2> QED
    BY <1>2, <2>1, SafetyCreatePost, SafetyPress, SafetyPolling, SafetyHandleUpdate DEF Next
<1> QED
  BY <1>1, <1>2

LEMMA Inductive == Spec => []IndInv
<1>1. Init => IndInv
  BY StructInit, SafetyInit DEF IndInv
<1>2. IndInv /\ [Next]_vars => IndInv'
  BY StructStep, DraftStep, SafetyStep DEF IndInv, SafetyInv
<1> QED
  BY <1>1, <1>2, PTL DEF Spec

\* The machine gate holds of everything subscribers ever receive.
THEOREM GateIsRespected == Spec => []GateRespected
<1>1. IndInv => GateRespected
  BY DEF IndInv, SafetyInv
<1> QED
  BY <1>1, Inductive, PTL

\* "published" is written only for a photo and a text that went out.
THEOREM PublishedIsTrue == Spec => []PublishedIsDelivered
<1>1. IndInv => PublishedIsDelivered
  BY DEF IndInv, SafetyInv
<1> QED
  BY <1>1, Inductive, PTL

\* Nothing but a GREEN first draft goes out without the owner's press.
THEOREM ApprovalIsRequired == Spec => []ApprovalGated
<1>1. IndInv => ApprovalGated
  BY DEF IndInv, SafetyInv
<1> QED
  BY <1>1, Inductive, PTL

-----------------------------------------------------------------------------
(* Who changes rows. *)

\* handle_callback touches the row of the update it handles, if it is the owner's.
LEMMA HandlerEffect ==
    ASSUME StructInv, HandleUpdate
    PROVE  /\ TakesUpdate
           /\ \A q \in Posts : job'[q] = job[q]
           /\ \A q \in Posts : queue'[q] # queue[q] =>
                  q = updates[Current].post /\ updates[Current].from = Owner
<1> DEFINE p == updates[Current].post
<1>1. TakesUpdate /\ job \in [Coroutines -> Job]
  BY DEF HandleUpdate, HandleForeign, HandlePublish, HandleRewrite, HandleImage,
         HandleReject, Handling, StructInv, TypeOK
<1>2. p \in Posts /\ queue \in [Posts -> EditorialQueueItem \cup {NoRow}]
  BY <1>1, TakenRow DEF StructInv, TypeOK
<1>3. \E pc, d : Await(Poller, pc, d)
  BY DEF HandleUpdate, HandleForeign, HandlePublish, HandleRewrite, HandleImage,
         HandleReject, Answer, Resume, Replace
<1>4. \A q \in Posts : job'[q] = job[q]
  BY <1>1, <1>3, PollerIsNoPost DEF Await
<1>5. UNCHANGED queue \/ (updates[Current].from = Owner /\ \E item : queue' = [queue EXCEPT ![p] = item])
  BY DEF HandleUpdate, HandleForeign, HandlePublish, HandleRewrite, HandleImage,
         HandleReject, Handling, SetStatus, Replace
<1> QED
  BY <1>1, <1>2, <1>4, <1>5

\* A Telegram call that ends in _publish touches the row being published.
LEMMA CallEffect ==
    ASSUME StructInv, NEW c \in Coroutines, CallStep(c)
    PROVE  /\ job[c].pc \in BotCalls /\ PostOf(c) \in Posts /\ Created(PostOf(c))
           /\ \A q \in Posts : job'[q].pc = "idle" => job[q].pc = "idle"
           /\ \A q \in Posts : queue'[q] # queue[q] => q = PostOf(c) /\ job[c].pc \in ChannelCalls
<1>1. job[c].pc \in BotCalls /\ job \in [Coroutines -> Job] /\ queue \in [Posts -> EditorialQueueItem \cup {NoRow}]
  BY DEF CallStep, DeliverReviewPhoto, DeliverKeyboard, DeliverChannelPhoto,
         DeliverChannelText, PhotoReplied, PublishReplied, KeyboardReplied,
         PublishRaised, ReviewRaised, Pending, Replied, BotCalls, ChannelCalls, ReviewCalls,
         StructInv, TypeOK
<1>2. PostOf(c) \in Posts /\ Created(PostOf(c))
  BY <1>1, WorkedPost
<1>3. Delivered(c) \/ \E pc \in BotCalls \cup {"answer", "done"} : Resume(c, pc)
  BY DEF CallStep, DeliverReviewPhoto, DeliverKeyboard, DeliverChannelPhoto,
         DeliverChannelText, PhotoReplied, PublishReplied, KeyboardReplied, PublishRaised,
         ReviewRaised, Finish, BotCalls, ChannelCalls, ReviewCalls
<1>4. job'[c].pc # "idle" /\ \A q \in Coroutines : q # c => job'[q] = job[q]
  BY <1>1, <1>3 DEF Delivered, Resume, Await, BotCalls, ChannelCalls, ReviewCalls
<1>5. \A q \in Posts : job'[q].pc = "idle" => job[q].pc = "idle"
  BY <1>4, PollerIsNoPost
<1>6. \/ UNCHANGED queue
      \/ job[c].pc \in ChannelCalls /\ \E item : queue' = [queue EXCEPT ![PostOf(c)] = item]
  BY DEF CallStep, DeliverReviewPhoto, DeliverKeyboard, DeliverChannelPhoto,
         DeliverChannelText, PhotoReplied, PublishReplied, KeyboardReplied, PublishRaised,
         ReviewRaised, SetStatus, Replied, ChannelCalls
<1> QED
  BY <1>1, <1>2, <1>5, <1>6

\* create_post inserts the row of the coroutine that runs.
LEMMA CreateEffect ==
    ASSUME StructInv, NEW p \in Posts, CreatePost(p)
    PROVE  /\ job[p].pc = "idle" /\ job'[p].pc # "idle"
           /\ \A q \in Posts : q # p => job'[q] = job[q] /\ queue'[q] = queue[q]
<1>1. /\ \E pc \in {"channel_photo", "review_photo"} : \E d : Await(p, pc, d)
      /\ \E item : queue' = [queue EXCEPT ![p] = item]
      /\ job[p].pc = "idle"
  BY DEF CreatePost
<1>2. job \in [Coroutines -> Job] /\ queue \in [Posts -> EditorialQueueItem \cup {NoRow}]
  BY DEF StructInv, TypeOK
<1> QED
  BY <1>1, <1>2, PollerIsNoPost DEF Await

\* The steps that leave every row alone and wake no create_post.
LEMMA OtherEffect ==
    ASSUME StructInv,
           \/ \E u \in Users, k \in shown, a \in Actions : Press(u, k, a)
           \/ PollFetch \/ FetchRaised \/ AnswerCallback \/ Crash \/ UNCHANGED vars
    PROVE  /\ UNCHANGED queue
           /\ \A q \in Posts : job'[q].pc = "idle" => job[q].pc = "idle"
<1>1. UNCHANGED queue
  BY DEF Press, PollFetch, FetchRaised, AnswerCallback, Crash, vars
<1>2. job \in [Coroutines -> Job]
  BY DEF StructInv, TypeOK
<1>3. CASE FetchRaised \/ AnswerCallback
  <2>1. \E pc, d : Await(Poller, pc, d)
    BY <1>3 DEF FetchRaised, AnswerCallback, Resume
  <2> QED
    BY <1>1, <1>2, <2>1, PollerIsNoPost DEF Await
<1>4. CASE Crash
  BY <1>1, <1>4, PollerIsNoPost DEF Crash
<1> QED
  BY <1>1, <1>3, <1>4 DEF Press, PollFetch, vars

LEMMA IdleStep == StructInv /\ IdleInv /\ [Next]_vars => IdleInv'
<1> SUFFICES ASSUME StructInv, IdleInv, [Next]_vars PROVE IdleInv'
  OBVIOUS
<1>1. ASSUME NEW p \in Posts, CreatePost(p) PROVE IdleInv'
  BY <1>1, CreateEffect DEF IdleInv, Created
<1>2. CASE HandleUpdate
  BY <1>2, HandlerEffect, TakenRow DEF IdleInv, Created
<1>3. ASSUME NEW c \in Coroutines, CallStep(c) PROVE IdleInv'
  BY <1>3, CallEffect DEF IdleInv, Created
<1> QED
  BY <1>1, <1>2, <1>3, OtherEffect DEF Next, IdleInv, Created

\* Only the owner changes what is queued: a row is touched by the create_post
\* that publishes it or under a press of the owner on that very post.
THEOREM OnlyOwnerDecides == Spec => OwnerDecides
<1> DEFINE Decided(p) ==
              \/ job[p].pc \in ChannelCalls
              \/ /\ job[Poller].pc \in ChannelCalls \cup {"idle"}
                 /\ Current <= last
                 /\ updates[Current].from = Owner
                 /\ updates[Current].post = p
<1>1. IndInv /\ IdleInv /\ [Next]_vars =>
         \A p \in Posts : Created(p) /\ queue'[p] # queue[p] => Decided(p)
  <2> SUFFICES ASSUME IndInv, IdleInv, [Next]_vars, NEW p \in Posts,
                      Created(p), queue'[p] # queue[p]
               PROVE  Decided(p)
    OBVIOUS
  <2>1. StructInv /\ PublishInv /\ PollInv
    BY DEF IndInv, SafetyInv, StructInv
  <2>2. ASSUME NEW q \in Posts, CreatePost(q) PROVE FALSE
    BY <2>1, <2>2, CreateEffect DEF IdleInv
  <2>3. CASE HandleUpdate
    BY <2>1, <2>3, HandlerEffect DEF TakesUpdate
  <2>4. ASSUME NEW c \in Coroutines, CallStep(c) PROVE Decided(p)
    <3>1. p = PostOf(c) /\ job[c].pc \in ChannelCalls
      BY <2>1, <2>4, CallEffect
    <3>2. CASE c = Poller
      BY <2>1, <3>1, <3>2 DEF PublishInv, Publishing, Licensed, PostOf, PollInv, BotCalls
    <3> QED
      BY <3>1, <3>2 DEF PostOf
  <2> QED
    BY <2>1, <2>2, <2>3, <2>4, OtherEffect DEF Next
<1>2. Init => IdleInv
  BY DEF Init, IdleInv, Created
<1>3. IndInv => StructInv
  BY DEF IndInv
<1> QED
  BY <1>1, <1>2, <1>3, Inductive, IdleStep, PTL DEF Spec, OwnerDecides
-----------------------------------------------------------------------------
(* The autopost implements ApprovalGate. *)

Approved == {p \in Posts : Pressed(p) \/ AutoApproved(p)}

\* Whoever sets a status or replaces a bundle leaves the requests alone.
LEMMA EditsKeepRequest ==
    ASSUME TypeOK, NEW p \in Posts, Created(p), NEW q \in Posts,
           \/ UNCHANGED queue
           \/ \E status \in Statuses : SetStatus(q, status)
           \/ \E d : queue' = [queue EXCEPT ![q] = NewBundle(q, d)]
    PROVE  queue'[p].request = queue[p].request
<1>1. queue[p] \in EditorialQueueItem /\ queue \in [Posts -> EditorialQueueItem \cup {NoRow}]
  BY DEF TypeOK, Created
<1>2. CASE UNCHANGED queue
  BY <1>2
<1>3. ASSUME NEW status \in Statuses, SetStatus(q, status) PROVE queue'[p].request = queue[p].request
  <2>1. CASE q = p
    BY <1>1, <1>3, <2>1 DEF SetStatus, EditorialQueueItem
  <2>2. CASE q # p
    BY <1>1, <1>3, <2>2 DEF SetStatus
  <2> QED
    BY <2>1, <2>2
<1>4. ASSUME NEW d, queue' = [queue EXCEPT ![q] = NewBundle(q, d)]
      PROVE  queue'[p].request = queue[p].request
  <2>1. CASE q = p
    BY <1>1, <1>4, <2>1 DEF NewBundle
  <2>2. CASE q # p
    BY <1>1, <1>4, <2>2
  <2> QED
    BY <2>1, <2>2
<1> QED
  BY <1>2, <1>3, <1>4

\* A step that is not a creation keeps the drafts coroutines were created with.
LEMMA DraftKept ==
    ASSUME StructInv, [Next]_vars, NEW p \in Posts, ~CreatePost(p)
    PROVE  job'[p].draft = job[p].draft
<1>1. TypeOK /\ p # Poller /\ p \in Coroutines
  BY PollerIsNoPost DEF StructInv
<1>2. ASSUME NEW q \in Posts, CreatePost(q) PROVE job'[p] = job[p]
  BY <1>2, CreateEffect
<1>3. CASE HandleUpdate
  BY <1>3, HandlerEffect
<1>4. CASE FetchRaised \/ AnswerCallback
  <2>1. \E pc, d : Await(Poller, pc, d)
    BY <1>4 DEF FetchRaised, AnswerCallback, Resume
  <2> QED
    BY <1>1, <2>1 DEF Await, TypeOK
<1>5. ASSUME NEW c \in Coroutines, CallStep(c) PROVE job'[p].draft = job[p].draft
  <2>1. Delivered(c) \/ \E pc \in BotCalls \cup {"answer", "done"} : Resume(c, pc)
    BY <1>5 DEF CallStep, DeliverReviewPhoto, DeliverKeyboard, DeliverChannelPhoto,
       DeliverChannelText, PhotoReplied, PublishReplied, KeyboardReplied, PublishRaised,
       ReviewRaised, Finish, BotCalls, ChannelCalls, ReviewCalls
  <2>2. \A e \in Coroutines : job'[e].draft = job[e].draft
    BY <1>1, <2>1, DeliveredEffect, ResumeEffect
  <2> QED
    BY <1>1, <2>2
<1>6. CASE Crash
  BY <1>1, <1>6 DEF Crash
<1>7. CASE PollFetch \/ UNCHANGED vars \/ \E u \in Users, k \in shown, a \in Actions : Press(u, k, a)
  BY <1>7 DEF PollFetch, vars, Press
<1> QED
  BY <1>2, <1>3, <1>4, <1>5, <1>6, <1>7 DEF Next

\* Once created, a post keeps the request it was created for and its first draft.
LEMMA RequestKept ==
    ASSUME StructInv, [Next]_vars, NEW p \in Posts, job[p].pc # "idle"
    PROVE  queue'[p].request = queue[p].request /\ job'[p].draft = job[p].draft
<1>1. TypeOK /\ Created(p) /\ ~CreatePost(p)
  BY DEF StructInv, RowInv, CreatePost
<1>2. job'[p].draft = job[p].draft
  BY <1>1, DraftKept
<1>3. ASSUME NEW q \in Posts, CreatePost(q) PROVE queue'[p] = queue[p]
  BY <1>1, <1>3, CreateEffect
<1>4. ASSUME HandleUpdate PROVE queue'[p].request = queue[p].request
  <2> DEFINE q == updates[Current].post
  <2>1. q \in Posts
    BY <1>4, HandlerEffect, TakenRow
  <2>2. \/ UNCHANGED queue
        \/ \E status \in Statuses : SetStatus(q, status)
        \/ \E d : queue' = [queue EXCEPT ![q] = NewBundle(q, d)]
    BY <1>4 DEF HandleUpdate, HandleForeign, HandlePublish, HandleRewrite,
       HandleImage, HandleReject, Replace, Statuses
  <2> HIDE DEF q
  <2> QED
    BY <1>1, <2>1, <2>2, EditsKeepRequest
<1>5. ASSUME NEW c \in Coroutines, CallStep(c) PROVE queue'[p].request = queue[p].request
  <2>1. PostOf(c) \in Posts
    BY <1>5, CallEffect
  <2>2. UNCHANGED queue \/ \E status \in Statuses : SetStatus(PostOf(c), status)
    BY <1>5 DEF CallStep, DeliverReviewPhoto, DeliverKeyboard, DeliverChannelPhoto,
       DeliverChannelText, PhotoReplied, PublishReplied, KeyboardReplied, PublishRaised,
       ReviewRaised, Statuses
  <2> QED
    BY <1>1, <2>1, <2>2, EditsKeepRequest
<1> QED
  BY <1>2, <1>3, <1>4, <1>5, OtherEffect DEF Next

\* What the policy makes of a client's case or of news is never GREEN.
LEMMA GreenIsEvergreen ==
    ASSUME NEW r \in Requests, NEW d \in GenerateBundle(r, 1), d.risk = "green"
    PROVE  ~r.current_case /\ ~r.is_news
<1>1. PICK output \in ModelOutput : d.risk = EnforceRisk(r, output)
  BY DEF GenerateBundle, MakeVisual
<1> QED
  BY <1>1 DEF EnforceRisk

LEMMA RiskStep == StructInv /\ RiskInv /\ [Next]_vars => RiskInv'
<1> SUFFICES ASSUME StructInv, RiskInv, [Next]_vars, NEW p \in Posts,
                    job'[p].draft # NoDraft, job'[p].draft.risk = "green"
             PROVE  Evergreen(p)'
  BY DEF RiskInv
<1>1. CASE job[p].pc # "idle"
  BY <1>1, RequestKept DEF RiskInv, Evergreen
<1>2. CASE job[p].pc = "idle"
  <2>1. job[p].draft = NoDraft /\ TypeOK
    BY <1>2 DEF StructInv, RowInv
  <2>2. CreatePost(p)
    BY <2>1, DraftKept
  <2>3. PICK r \in Requests : \E d \in GenerateBundle(r, 1) :
              queue'[p].request = r /\ job'[p].draft = d
    BY <2>1, <2>2 DEF CreatePost, Await, TypeOK, Coroutines
  <2> QED
    BY <2>3, GreenIsEvergreen DEF Evergreen
<1> QED
  BY <1>1, <1>2

\* A post that can go out on its own is about no client's case and no news,
\* from its creation on: no rewrite or new image changes its request.
THEOREM GreenStaysEvergreen == Spec => []RiskInv
<1>1. Init => RiskInv
  BY PollerIsNoPost DEF Init, RiskInv, IdleJob, Coroutines
<1>2. IndInv => StructInv
  BY DEF IndInv
<1> QED
  BY <1>1, <1>2, RiskStep, Inductive, PTL DEF Spec

\* A step that presses nothing and creates nothing approves nothing.
LEMMA ApprovedFrame ==
    ASSUME StructInv, [Next]_vars, UNCHANGED updates,
           \A p \in Posts : job'[p].draft = job[p].draft
    PROVE  Approved' = Approved
<1>1. ASSUME NEW p \in Posts PROVE AutoApproved(p)' = AutoApproved(p)
  <2>1. CASE job[p].pc = "idle"
    BY <2>1 DEF StructInv, RowInv, AutoApproved, AutoPosted
  <2>2. CASE job[p].pc # "idle"
    BY <2>2, RequestKept DEF AutoApproved, AutoPosted, Evergreen
  <2> QED
    BY <2>1, <2>2
<1>2. \A p \in Posts : Pressed(p)' = Pressed(p)
  BY DEF Pressed
<1> QED
  BY <1>1, <1>2 DEF Approved

LEMMA GateStutter ==
    ASSUME StructInv, [Next]_vars, UNCHANGED <<updates, channel>>,
           \A p \in Posts : job'[p].draft = job[p].draft
    PROVE  UNCHANGED <<Approved, Sent("photo"), Sent("text")>>
<1>1. Sent("photo")' = Sent("photo") /\ Sent("text")' = Sent("text")
  BY DEF Sent
<1> QED
  BY <1>1, ApprovedFrame

LEMMA PhotoSent ==
    ASSUME NEW p, NEW d, channel' = channel \cup {[post |-> p, part |-> "photo", draft |-> d]}
    PROVE  Sent("photo")' = Sent("photo") \cup {p} /\ Sent("text")' = Sent("text")
<1> DEFINE m == [post |-> p, part |-> "photo", draft |-> d]
<1>1. m.part = "photo" /\ m.post = p /\ m.part # "text" /\ channel' = channel \cup {m}
  OBVIOUS
<1> HIDE DEF m
<1> QED
  BY <1>1 DEF Sent

LEMMA TextSent ==
    ASSUME NEW p, NEW d, channel' = channel \cup {[post |-> p, part |-> "text", draft |-> d]}
    PROVE  Sent("text")' = Sent("text") \cup {p} /\ Sent("photo")' = Sent("photo")
<1> DEFINE m == [post |-> p, part |-> "text", draft |-> d]
<1>1. m.part = "text" /\ m.post = p /\ m.part # "photo" /\ channel' = channel \cup {m}
  OBVIOUS
<1> HIDE DEF m
<1> QED
  BY <1>1 DEF Sent

\* A licensed publisher's post is approved.
LEMMA LicensedIsApproved ==
    ASSUME IndInv, RiskInv, NEW c \in Coroutines, job[c].pc \in ChannelCalls
    PROVE  PostOf(c) \in Approved /\ Publishing(c)
<1>1. Publishing(c) /\ job[c].pc \in BotCalls /\ StructInv
  BY DEF IndInv, SafetyInv, PublishInv, BotCalls
<1>2. PostOf(c) \in Posts /\ job[c].draft # NoDraft
  BY <1>1, WorkedPost, DraftIsDraft
<1>3. CASE c = Poller
  <2>1. Current \in DOMAIN updates
    BY <1>1, <1>3, CurrentUpdate DEF StructInv, PollInv
  <2> QED
    BY <1>1, <1>2, <1>3, <2>1 DEF Publishing, Licensed, PostOf, Pressed, Approved
<1>4. CASE c # Poller
  <2>1. PostOf(c) = c /\ AutoPosted(c) /\ job[c].draft.risk = "green"
    BY <1>1, <1>2, <1>4 DEF Publishing, Licensed, PostOf, AutoPosted, AutoEligible
  <2>2. AutoApproved(c)
    BY <1>1, <1>2, <2>1 DEF RiskInv, Publishing, AutoApproved
  <2> QED
    BY <1>1, <1>2, <2>1, <2>2 DEF Approved
<1> QED
  BY <1>1, <1>3, <1>4

LEMMA GateStep ==
    IndInv /\ RiskInv /\ [Next]_vars =>
        \/ UNCHANGED <<Approved, Sent("photo"), Sent("text")>>
        \/ \E p \in Posts :
              \/ Approved' = Approved \cup {p} /\ UNCHANGED <<Sent("photo"), Sent("text")>>
              \/ /\ p \in Approved /\ Sent("photo")' = Sent("photo") \cup {p}
                 /\ UNCHANGED <<Approved, Sent("text")>>
              \/ /\ p \in Approved \cap Sent("photo") /\ Sent("text")' = Sent("text") \cup {p}
                 /\ UNCHANGED <<Approved, Sent("photo")>>
<1> DEFINE Stutter == UNCHANGED <<Approved, Sent("photo"), Sent("text")>>
           Approves == \E p \in Posts :
              Approved' = Approved \cup {p} /\ UNCHANGED <<Sent("photo"), Sent("text")>>
           Photo == \E p \in Posts :
              /\ p \in Approved /\ Sent("photo")' = Sent("photo") \cup {p}
              /\ UNCHANGED <<Approved, Sent("text")>>
           Text == \E p \in Posts :
              /\ p \in Approved \cap Sent("photo") /\ Sent("text")' = Sent("text") \cup {p}
              /\ UNCHANGED <<Approved, Sent("photo")>>
<1> SUFFICES ASSUME IndInv, RiskInv, [Next]_vars PROVE Stutter \/ Approves \/ Photo \/ Text
  OBVIOUS
<1>1. TypeOK /\ StructInv
  BY DEF IndInv, StructInv
<1>2. CASE UNCHANGED vars
  BY <1>1, <1>2, GateStutter DEF vars, botVars, pollVars
<1>3. ASSUME NEW p \in Posts, CreatePost(p) PROVE Stutter \/ Approves
  <2>1. UNCHANGED <<updates, channel>>
    BY <1>3 DEF CreatePost, botVars, pollVars
  <2>2. \A q \in Posts : q # p => job'[q] = job[q] /\ queue'[q] = queue[q]
    BY <1>1, <1>3, PollerIsNoPost DEF CreatePost, Await, TypeOK
  <2>3. p \notin Approved
    <3>1. job[p].pc = "idle" /\ AutoAlone(p)
      BY <1>3 DEF CreatePost, IndInv, SafetyInv, PublishInv, Unseen
    <3>2. ~Pressed(p)
      BY <3>1 DEF AutoAlone, Pressed
    <3>3. ~AutoApproved(p)
      BY <1>1, <3>1 DEF StructInv, RowInv, AutoApproved, AutoPosted
    <3> QED
      BY <3>2, <3>3 DEF Approved
  <2>4. Approved' = Approved \/ Approved' = Approved \cup {p}
    BY <2>1, <2>2, <2>3 DEF Approved, Pressed, AutoApproved, AutoPosted, Evergreen
  <2>5. Sent("photo")' = Sent("photo") /\ Sent("text")' = Sent("text")
    BY <2>1 DEF Sent
  <2> QED
    BY <2>4, <2>5
<1>4. ASSUME NEW u \in Users, NEW k \in shown, NEW a \in Actions, Press(u, k, a)
      PROVE  Stutter \/ Approves
  <2> DEFINE press == [from |-> u, action |-> a, post |-> k.post, ver |-> k.ver]
  <2>1. k.post \in Posts /\ k.ver \in Nat \ {0}
    BY <1>1 DEF TypeOK
  <2>2. updates \in Seq(Update) /\ press \in Update /\ updates' = Append(updates, press)
    BY <1>1, <1>4, <2>1 DEF TypeOK, Press, Update
  <2>3. UNCHANGED <<channel, job, queue>>
    BY <1>4 DEF Press, botVars
  <2> HIDE DEF press
  <2>4. /\ DOMAIN updates' = 1 .. Len(updates) + 1 /\ DOMAIN updates = 1 .. Len(updates)
        /\ \A i \in DOMAIN updates : updates'[i] = updates[i]
        /\ updates'[Len(updates) + 1] = press /\ Len(updates) \in Nat
    BY <2>2
  <2>5. press.post = k.post
    BY DEF press
  <2>6. \A p \in Posts : (Pressed(p) => Pressed(p)') /\ (p # k.post => (Pressed(p)' => Pressed(p)))
    BY <2>4, <2>5 DEF Pressed
  <2>7. \A p \in Posts : AutoApproved(p)' = AutoApproved(p)
    BY <2>3 DEF AutoApproved, AutoPosted, Evergreen
  <2>8. Approved' = Approved \/ Approved' = Approved \cup {k.post}
    BY <2>1, <2>6, <2>7 DEF Approved
  <2>9. Sent("photo")' = Sent("photo") /\ Sent("text")' = Sent("text")
    BY <2>3 DEF Sent
  <2> QED
    BY <2>1, <2>8, <2>9
<1>5. CASE PollFetch
  BY <1>1, <1>5, GateStutter DEF PollFetch, botVars
<1>6. CASE FetchRaised \/ AnswerCallback
  <2>1. \A p \in Posts : job'[p] = job[p]
    BY <1>1, <1>6, PollerIsNoPost DEF FetchRaised, AnswerCallback, Resume, Await, TypeOK
  <2> QED
    BY <1>1, <1>6, <2>1, GateStutter DEF FetchRaised, AnswerCallback, botVars
<1>7. CASE HandleUpdate
  <2>1. \A p \in Posts : job'[p] = job[p]
    BY <1>1, <1>7, PollerIsNoPost DEF HandleUpdate, HandleForeign, HandlePublish, HandleRewrite,
       HandleImage, HandleReject, Replace, Answer, Resume, Await, TypeOK
  <2>2. UNCHANGED <<updates, channel>>
    BY <1>7 DEF HandleUpdate, HandleForeign, HandlePublish, HandleRewrite, HandleImage,
       HandleReject, botVars, pollVars
  <2> QED
    BY <1>1, <2>1, <2>2, GateStutter
<1>8. ASSUME NEW c \in Coroutines, CallStep(c) PROVE Stutter \/ Photo \/ Text
  <2>1. UNCHANGED updates
    BY <1>8 DEF CallStep, DeliverReviewPhoto, DeliverKeyboard, DeliverChannelPhoto,
       DeliverChannelText, PhotoReplied, PublishReplied, KeyboardReplied, PublishRaised,
       ReviewRaised, pollVars
  <2>2. Delivered(c) \/ \E pc \in BotCalls \cup {"answer", "done"} : Resume(c, pc)
    BY <1>8 DEF CallStep, DeliverReviewPhoto, DeliverKeyboard, DeliverChannelPhoto,
       DeliverChannelText, PhotoReplied, PublishReplied, KeyboardReplied, PublishRaised,
       ReviewRaised, Finish, BotCalls, ChannelCalls, ReviewCalls
  <2>3. \A e \in Coroutines : job'[e].draft = job[e].draft
    BY <1>1, <2>2, DeliveredEffect, ResumeEffect
  <2>4. Approved' = Approved
    BY <1>1, <2>1, <2>3, ApprovedFrame, PollerIsNoPost
  <2>5. CASE UNCHANGED channel
    BY <1>1, <2>1, <2>3, <2>5, GateStutter, PollerIsNoPost
  <2>6. CASE DeliverChannelPhoto(c)
    <3>1. /\ job[c].pc \in ChannelCalls
          /\ channel' = channel \cup {[post |-> PostOf(c), part |-> "photo", draft |-> job[c].draft]}
      BY <2>6 DEF DeliverChannelPhoto, Pending, ToChannel, ChannelCalls
    <3>2. PostOf(c) \in Approved /\ PostOf(c) \in Posts
      BY <3>1, LicensedIsApproved DEF Approved
    <3>3. Sent("photo")' = Sent("photo") \cup {PostOf(c)} /\ Sent("text")' = Sent("text")
      BY <3>1, PhotoSent
    <3> QED
      BY <2>4, <3>2, <3>3
  <2>7. CASE DeliverChannelText(c)
    <3>1. /\ job[c].pc = "channel_text" /\ job[c].pc \in ChannelCalls
          /\ channel' = channel \cup {[post |-> PostOf(c), part |-> "text", draft |-> job[c].draft]}
      BY <2>7 DEF DeliverChannelText, Pending, ToChannel, ChannelCalls
    <3>2. PostOf(c) \in Approved /\ PostOf(c) \in Posts /\ Publishing(c)
      BY <3>1, LicensedIsApproved DEF Approved
    <3>3. Sent("text")' = Sent("text") \cup {PostOf(c)} /\ Sent("photo")' = Sent("photo")
      BY <3>1, TextSent
    <3>4. PostOf(c) \in Sent("photo")
      BY <3>1, <3>2 DEF Publishing, Has, Sent
    <3> QED
      BY <2>4, <3>2, <3>3, <3>4
  <2>8. UNCHANGED channel \/ DeliverChannelPhoto(c) \/ DeliverChannelText(c)
    BY <1>8 DEF CallStep, DeliverReviewPhoto, DeliverKeyboard, PhotoReplied, PublishReplied,
       KeyboardReplied, PublishRaised, ReviewRaised, botVars
  <2> QED
    BY <2>5, <2>6, <2>7, <2>8
<1>9. CASE Crash
  <2>1. \A p \in Posts : job'[p].draft = job[p].draft
    BY <1>9, PollerIsNoPost DEF Crash
  <2> QED
    BY <1>1, <1>9, <2>1, GateStutter DEF Crash, botVars
<1> QED
  BY <1>2, <1>3, <1>4, <1>5, <1>6, <1>7, <1>8, <1>9 DEF Next

\* Every behaviour of the autopost is one of the approval gate: approval
\* before anything, the photo before the text; and what is about a client's
\* case or news is approved by the owner's press only.
THEOREM ImplementsApprovalGate == Spec => GateSpec
<1>1. Init => Gate!Init
  <2> SUFFICES ASSUME Init PROVE Gate!Init
    OBVIOUS
  <2>1. \A p \in Posts : ~Pressed(p) /\ ~AutoApproved(p)
    BY PollerIsNoPost DEF Init, Pressed, AutoApproved, AutoPosted, IdleJob
  <2> QED
    BY <2>1 DEF Gate!Init, Sent, Init
<1>2. IndInv /\ RiskInv /\ [Next]_vars => [Gate!Next]_(Gate!gateVars)
  BY GateStep DEF Approved, Gate!Next, Gate!Approve, Gate!SendPhoto, Gate!SendText,
     Gate!gateVars
<1> QED
  BY <1>1, <1>2, Inductive, GreenStaysEvergreen, PTL DEF Spec, GateSpec, Gate!Spec

-----------------------------------------------------------------------------
(* The owner's last press wins. *)

\* Turn is a position in the updates or the one after them.
LEMMA TurnBound == ASSUME StructInv PROVE Turn \in Nat /\ Turn <= Len(updates) + 1 /\ Current \in Nat \ {0}
<1>1. /\ acked \in Nat /\ offset \in Nat /\ last \in Nat /\ Len(updates) \in Nat
      /\ acked <= last /\ last <= Len(updates) /\ (offset # 0 => offset <= last + 1)
      /\ (job[Poller].pc = "answer" => Current <= last)
  BY DEF StructInv, TypeOK, PollInv
<1> QED
  BY <1>1 DEF Turn, Current

\* Nobody has decided on a post whose row does not exist or whose create_post
\* is still publishing it.
LEMMA NoDecisionYet ==
    ASSUME StructInv, PublishInv, IdleInv, NEW p \in Posts,
           ~Created(p) \/ job[p].pc \in ChannelCalls \cup {"idle"}
    PROVE  \A i \in DOMAIN updates : updates[i].post # p
BY DEF StructInv, RowInv, PublishInv, Unseen, AutoAlone, IdleInv

\* A step that executes nothing keeps what was honoured.
LEMMA WinsKept ==
    ASSUME StructInv, WinsInv, UNCHANGED updates, Turn' \in Nat, Turn' <= Turn,
           \A p \in Posts : queue'[p] = queue[p] \/ \A i \in DOMAIN updates : updates[i].post # p,
           job'[Poller].pc \in ReviewCalls =>
               /\ job[Poller].pc \in ReviewCalls /\ Current' = Current /\ Current <= last
    PROVE  WinsInv'
<1>1. \A p \in Posts : Decisions(p)' = Decisions(p) /\ \A i \in DOMAIN updates : Final(i, p)' <=> Final(i, p)
  BY DEF Decisions, Final
<1>2. \A i \in DOMAIN updates : i \in Nat
  BY DEF StructInv, TypeOK
<1>3. ASSUME NEW p \in Posts, NEW i \in DOMAIN updates', Final(i, p)', i < Turn'
      PROVE  Honoured(p, updates[i].action)'
  <2>1. Final(i, p) /\ i < Turn /\ updates[i].post = p
    BY <1>1, <1>2, <1>3, TurnBound DEF Final, Decisions
  <2>2. queue'[p] = queue[p]
    BY <2>1, <1>3
  <2>3. Honoured(p, updates[i].action)
    BY <2>1, <1>3 DEF WinsInv
  <2> QED
    BY <2>2, <2>3 DEF Honoured
<1>4. \A p \in Posts : Decisions(p)' # {} => \E i \in DOMAIN updates' : Final(i, p)'
  BY <1>1 DEF WinsInv
<1>5. job'[Poller].pc \in ReviewCalls =>
          /\ updates'[Current'].from = Owner /\ updates'[Current'].action \in {"rewrite", "image"}
          /\ queue'[updates'[Current'].post].status = "review"
  BY CurrentUpdate DEF WinsInv
<1> QED
  BY <1>3, <1>4, <1>5 DEF WinsInv

\* A step of the poller on the update it is at: it executes the press to its
\* end, or it has begun to.
LEMMA WinsHandled ==
    ASSUME StructInv, WinsInv, UNCHANGED pollVars, Current <= last, job[Poller].pc # "answer",
           \A q \in Posts : q # updates[Current].post => queue'[q] = queue[q],
           \/ /\ job'[Poller].pc = "answer"
              /\ Current \in Decisions(updates[Current].post)
              /\ Honoured(updates[Current].post, updates[Current].action)'
           \/ /\ job'[Poller].pc = "answer"
              /\ Current \notin Decisions(updates[Current].post)
              /\ UNCHANGED queue
           \/ /\ job'[Poller].pc # "answer"
              /\ Current \in Decisions(updates[Current].post),
           job'[Poller].pc \in ReviewCalls =>
              /\ updates[Current].from = Owner /\ updates[Current].action \in {"rewrite", "image"}
              /\ queue'[updates[Current].post].status = "review"
    PROVE  WinsInv'
<1>1. \A p \in Posts : Decisions(p)' = Decisions(p) /\ \A i \in DOMAIN updates : Final(i, p)' <=> Final(i, p)
  BY DEF Decisions, Final, pollVars
<1>2. /\ Current' = Current /\ updates' = updates /\ Turn = Current
      /\ Turn' = IF job'[Poller].pc = "answer" THEN Current + 1 ELSE Current
      /\ Current \in Nat
  BY TurnBound DEF Turn, Current, pollVars
<1>3. \A i \in DOMAIN updates : i \in Nat
  BY DEF StructInv, TypeOK
<1>4. ASSUME NEW p \in Posts, NEW i \in DOMAIN updates, Final(i, p), i < Turn'
      PROVE  Honoured(p, updates[i].action)'
  <2>1. i \in Decisions(p) /\ updates[i].post = p /\ \A j \in Decisions(p) : j <= i
    BY <1>4 DEF Final, Decisions
  <2>2. CASE i < Current /\ queue'[p] = queue[p]
    <3>1. Honoured(p, updates[i].action)
      BY <1>2, <1>4, <2>2 DEF WinsInv
    <3> QED
      BY <1>2, <2>2, <3>1 DEF Honoured
  <2>3. CASE i = Current
    <3>1. Turn' = Current + 1 /\ p = updates[Current].post /\ Current \in Decisions(p)
      BY <1>2, <1>4, <2>1, <2>3
    <3>2. Honoured(updates[Current].post, updates[Current].action)'
      BY <1>2, <3>1
    <3> QED
      BY <1>2, <2>3, <3>1, <3>2 DEF Honoured
  <2>4. i < Current \/ i = Current
    BY <1>2, <1>3, <1>4
  <2>5. i < Current => Current \notin Decisions(p)
    BY <1>2, <1>3, <2>1
  <2>6. i < Current => queue'[p] = queue[p]
    BY <2>5
  <2> QED
    BY <2>2, <2>3, <2>4, <2>6
<1>5. \A p \in Posts : \A i \in DOMAIN updates' :
         Final(i, p)' /\ i < Turn' => Honoured(p, updates[i].action)'
  BY <1>1, <1>2, <1>4
<1>6. \A p \in Posts : Decisions(p)' # {} => \E i \in DOMAIN updates' : Final(i, p)'
  BY <1>1, <1>2 DEF WinsInv
<1> QED
  BY <1>2, <1>5, <1>6 DEF WinsInv

\* A new press is the last one, and nobody has executed it.
LEMMA WinsPress ==
    ASSUME StructInv, WinsInv, NEW u \in Users, NEW k \in shown, NEW a \in Actions, Press(u, k, a)
    PROVE  WinsInv'
<1> DEFINE press == [from |-> u, action |-> a, post |-> k.post, ver |-> k.ver]
<1>1. k.post \in Posts /\ k.ver \in Nat \ {0}
  BY DEF StructInv, TypeOK
<1>2. press \in Update
  BY <1>1 DEF Update
<1>3. updates \in Seq(Update) /\ updates' = Append(updates, press)
  BY DEF StructInv, TypeOK, Press
<1>n. PICK n \in Nat : n = Len(updates) + 1
  BY <1>3
<1> HIDE DEF press
<1>4. /\ DOMAIN updates = 1 .. Len(updates) /\ DOMAIN updates' = 1 .. n
      /\ \A i \in DOMAIN updates : updates'[i] = updates[i]
  BY <1>2, <1>3, <1>n
<1>5. UNCHANGED <<queue, job, acked, offset, last>>
  BY DEF Press
<1>6. Current' = Current /\ Turn' = Turn /\ Turn \in Nat /\ Turn <= n
  BY <1>n, <1>5, TurnBound DEF Turn, Current
<1>7. \A p \in Posts : Decisions(p)' \in {Decisions(p), Decisions(p) \cup {n}}
  BY <1>3, <1>4, <1>n DEF Decisions
<1>8. n \notin DOMAIN updates /\ \A i \in DOMAIN updates : i < n /\ i \in Nat
  BY <1>3, <1>4, <1>n
<1>9. ASSUME NEW p \in Posts, NEW i \in DOMAIN updates', Final(i, p)', i < Turn'
      PROVE  Honoured(p, updates[i].action)'
  <2>1. i \in DOMAIN updates /\ updates'[i] = updates[i]
    BY <1>3, <1>4, <1>6, <1>9, <1>n
  <2>2. i \in Decisions(p)' /\ \A j \in Decisions(p)' : j <= i
    BY <1>9 DEF Final
  <2>3. Final(i, p)
    BY <1>7, <1>8, <2>1, <2>2 DEF Final
  <2>4. Honoured(p, updates[i].action)
    BY <1>6, <1>9, <2>1, <2>3 DEF WinsInv
  <2> QED
    BY <1>5, <2>1, <2>4 DEF Honoured
<1>10. ASSUME NEW p \in Posts, Decisions(p)' # {}
       PROVE  \E i \in DOMAIN updates' : Final(i, p)'
  <2>1. CASE Decisions(p)' = Decisions(p)
    <3>1. PICK i \in DOMAIN updates : Final(i, p)
      BY <1>10, <2>1 DEF WinsInv
    <3>2. i \in DOMAIN updates' /\ Final(i, p)'
      BY <1>3, <1>4, <2>1, <3>1, <1>n DEF Final
    <3> QED
      BY <3>2
  <2>2. CASE Decisions(p)' = Decisions(p) \cup {n}
    <3>1. Decisions(p) \subseteq DOMAIN updates
      BY DEF Decisions
    <3>2. \A j \in Decisions(p) : j <= n
      BY <1>3, <1>8, <3>1, <1>n
    <3>3. n \in DOMAIN updates' /\ n <= n
      BY <1>3, <1>4, <1>n
    <3>4. n \in Decisions(p)' /\ \A j \in Decisions(p)' : j <= n
      BY <2>2, <3>2, <3>3
    <3>5. Final(n, p)'
      BY <3>4 DEF Final
    <3> QED
      BY <3>3, <3>5
  <2> QED
    BY <1>7, <2>1, <2>2
<1>11. job'[Poller].pc \in ReviewCalls =>
          /\ updates'[Current'].from = Owner /\ updates'[Current'].action \in {"rewrite", "image"}
          /\ queue'[updates'[Current'].post].status = "review"
  <2> SUFFICES ASSUME job[Poller].pc \in ReviewCalls
               PROVE  /\ updates'[Current].from = Owner /\ updates'[Current].action \in {"rewrite", "image"}
                      /\ queue[updates'[Current].post].status = "review"
    BY <1>5, <1>6
  <2>1. Current \in DOMAIN updates
    BY CurrentUpdate DEF StructInv, PollInv, BotCalls
  <2> QED
    BY <1>4, <2>1 DEF WinsInv
<1> QED
  BY <1>9, <1>10, <1>11 DEF WinsInv

\* handle_callback runs a press to its end, or up to its first Telegram call.
LEMMA WinsHandleUpdate ==
    ASSUME StructInv, WinsInv, HandleUpdate
    PROVE  WinsInv'
<1> DEFINE p == updates[Current].post
           a == updates[Current].action
<1>1. /\ TakesUpdate /\ UNCHANGED pollVars /\ TypeOK /\ Current \in DOMAIN updates
      /\ p \in Posts /\ Created(p) /\ Current <= last /\ job[Poller].pc = "idle"
      /\ queue[p].draft \in EditorialDraft /\ queue[p].request \in EditorialRequest
      /\ queue[p].draft.ver + 1 \in Nat \ {0}
  BY TakenRow, CurrentUpdate DEF HandleUpdate, HandleForeign, HandlePublish, HandleRewrite,
     HandleImage, HandleReject, Handling, TakesUpdate, StructInv
<1>2. \A q \in Posts : q # p => queue'[q] = queue[q]
  BY HandlerEffect
<1>3. Answer => job'[Poller].pc = "answer"
  BY <1>1, ResumeEffect, PollerIsNoPost DEF Answer
<1>4. \A pc \in BotCalls, d \in EditorialDraft : Await(Poller, pc, d) => job'[Poller].pc = pc
  BY <1>1, AwaitEffect, PollerIsNoPost
<1>5. \A status \in Statuses :
         SetStatus(p, status) => queue'[p].status = status /\ queue'[p].draft = queue[p].draft
  BY <1>1, SetStatusEffect
<1>6. updates' = updates /\ Current' = Current
  BY <1>1 DEF pollVars, Current
<1>7. Current \in Decisions(p) <=> updates[Current].from = Owner /\ a # "unknown"
  BY <1>1 DEF Decisions
<1>8. CASE HandleForeign
  <2>1. job'[Poller].pc = "answer" /\ UNCHANGED queue /\ Current \notin Decisions(p)
    BY <1>3, <1>7, <1>8 DEF HandleForeign
  <2> QED
    BY <1>1, <1>2, <2>1, WinsHandled DEF ReviewCalls
<1>9. CASE HandlePublish
  <2>1. a = "publish" /\ Current \in Decisions(p)
    BY <1>7, <1>9 DEF HandlePublish, Handling
  <2>2. CASE ~ChannelSendEnabled /\ SetStatus(p, "ready") /\ Answer
    <3>1. job'[Poller].pc = "answer" /\ Honoured(p, a)'
      BY <1>3, <1>5, <1>6, <2>1, <2>2 DEF Honoured, Statuses
    <3> QED
      BY <1>1, <1>2, <2>1, <3>1, WinsHandled DEF ReviewCalls
  <2>3. CASE ChannelSendEnabled /\ ~VisualGate(queue[p].draft) /\ Answer /\ UNCHANGED queue
    <3>1. job'[Poller].pc = "answer" /\ Honoured(p, a)'
      BY <1>3, <1>6, <2>1, <2>3 DEF Honoured
    <3> QED
      BY <1>1, <1>2, <2>1, <3>1, WinsHandled DEF ReviewCalls
  <2>4. CASE Await(Poller, "channel_photo", queue[p].draft)
    <3>1. job'[Poller].pc = "channel_photo"
      BY <1>1, <1>4, <2>4 DEF BotCalls, ChannelCalls
    <3> QED
      BY <1>1, <1>2, <2>1, <3>1, WinsHandled DEF ReviewCalls
  <2> QED
    BY <1>9, <2>2, <2>3, <2>4 DEF HandlePublish
<1>10. CASE HandleReject
  <2>1. a = "reject" /\ Current \in Decisions(p)
    BY <1>7, <1>10 DEF HandleReject, Handling
  <2>2. job'[Poller].pc = "answer" /\ Honoured(p, a)'
    BY <1>3, <1>5, <1>6, <1>10, <2>1 DEF HandleReject, Honoured, Statuses
  <2> QED
    BY <1>1, <1>2, <2>1, <2>2, WinsHandled DEF ReviewCalls
<1>11. CASE HandleRewrite \/ HandleImage
  <2>1. a \in {"rewrite", "image"} /\ updates[Current].from = Owner /\ Current \in Decisions(p)
    BY <1>7, <1>11 DEF HandleRewrite, HandleImage, Handling
  <2>2. GenerateBundle(queue[p].request, queue[p].draft.ver + 1) \in SUBSET EditorialDraft
    BY <1>1, GenerateBundleSound
  <2>3. RegenerateVisual(queue[p].request, queue[p].draft, queue[p].draft.ver + 1)
            \in SUBSET EditorialDraft
    BY <1>1, RegenerateVisualSound
  <2>4. \/ \E bundles \in SUBSET EditorialDraft : Replace(p, bundles)
        \/ Answer /\ (a = "rewrite" => CallsMayFail)
    BY <1>11, <2>2, <2>3 DEF HandleRewrite, HandleImage, Handling
  <2>5. CASE \E bundles \in SUBSET EditorialDraft : Replace(p, bundles)
    <3>1. PICK d \in EditorialDraft :
             queue' = [queue EXCEPT ![p] = NewBundle(p, d)] /\ Await(Poller, "review_photo", d)
      BY <2>5 DEF Replace
    <3>2. job'[Poller].pc = "review_photo" /\ queue'[p].status = "review"
      BY <1>1, <1>4, <3>1, ReplacedRow DEF BotCalls, ReviewCalls
    <3> QED
      BY <1>1, <1>2, <2>1, <3>2, WinsHandled
  <2>6. CASE Answer /\ (a = "rewrite" => CallsMayFail)
    <3>1. job'[Poller].pc = "answer" /\ Honoured(p, a)'
      BY <1>3, <1>6, <2>1, <2>6 DEF Honoured
    <3> QED
      BY <1>1, <1>2, <2>1, <3>1, WinsHandled DEF ReviewCalls
  <2> QED
    BY <2>4, <2>5, <2>6
<1> QED
  BY <1>8, <1>9, <1>10, <1>11 DEF HandleUpdate

\* The end of a Telegram call: _publish writes the outcome the press asked for.
LEMMA WinsPollerCall ==
    ASSUME StructInv, PublishInv, WinsInv, CallStep(Poller)
    PROVE  WinsInv'
<1> DEFINE p == updates[Current].post
           a == updates[Current].action
<1>1. /\ job[Poller].pc \in BotCalls /\ p \in Posts /\ Created(p) /\ TypeOK
      /\ Current \in DOMAIN updates /\ Current <= last
      /\ \A q \in Posts : q # p => queue'[q] = queue[q]
  BY CallEffect, CurrentUpdate, PollerIsNoPost DEF StructInv, PollInv, PostOf
<1>2. UNCHANGED pollVars /\ updates' = updates /\ Current' = Current
  BY DEF CallStep, DeliverReviewPhoto, DeliverKeyboard, DeliverChannelPhoto,
         DeliverChannelText, PhotoReplied, PublishReplied, KeyboardReplied,
         PublishRaised, ReviewRaised, pollVars, Current
<1>3. /\ job[Poller].pc \in ReviewCalls =>
            updates[Current].from = Owner /\ a \in {"rewrite", "image"} /\ queue[p].status = "review"
      /\ job[Poller].pc \in ChannelCalls => updates[Current].from = Owner /\ a = "publish"
  BY PollerIsNoPost DEF WinsInv, PublishInv, Publishing, Licensed
<1>4. Current \in Decisions(p)
  BY <1>1, <1>3 DEF Decisions, BotCalls
<1>5. Delivered(Poller) => job'[Poller].pc = job[Poller].pc
  BY <1>1, DeliveredEffect, PollerIsNoPost
<1>6. \A pc \in BotCalls \cup {"answer"} : Resume(Poller, pc) => job'[Poller].pc = pc
  BY <1>1, ResumeEffect, PollerIsNoPost
<1>7. CASE \/ DeliverReviewPhoto(Poller) \/ DeliverKeyboard(Poller)
           \/ DeliverChannelPhoto(Poller) \/ DeliverChannelText(Poller)
           \/ PhotoReplied(Poller)
  <2>1. /\ job'[Poller].pc \in BotCalls
        /\ job'[Poller].pc \in ReviewCalls => job[Poller].pc \in ReviewCalls
    BY <1>1, <1>5, <1>6, <1>7 DEF DeliverReviewPhoto, DeliverKeyboard, DeliverChannelPhoto,
       DeliverChannelText, PhotoReplied, Replied, BotCalls, ChannelCalls, ReviewCalls
  <2>2. UNCHANGED queue
    BY <1>7 DEF DeliverReviewPhoto, DeliverKeyboard, DeliverChannelPhoto,
       DeliverChannelText, PhotoReplied
  <2>3. job[Poller].pc # "answer" /\ job'[Poller].pc # "answer"
    BY <1>1, <2>1 DEF BotCalls, ChannelCalls, ReviewCalls
  <2> QED
    BY <1>1, <1>2, <1>3, <1>4, <2>1, <2>2, <2>3, WinsHandled
<1>8. CASE KeyboardReplied(Poller) \/ ReviewRaised(Poller)
  <2>1. /\ job[Poller].pc \in ReviewCalls /\ UNCHANGED queue /\ job'[Poller].pc = "answer"
        /\ ReviewRaised(Poller) => CallsMayFail
    BY <1>6, <1>8 DEF KeyboardReplied, ReviewRaised, Replied, Finish, ReviewCalls
  <2>2. Honoured(p, a)'
    BY <1>2, <1>3, <2>1 DEF Honoured
  <2> QED
    BY <1>1, <1>2, <1>4, <2>1, <2>2, WinsHandled DEF ReviewCalls
<1>9. CASE PublishReplied(Poller) \/ PublishRaised(Poller)
  <2>1. /\ job[Poller].pc \in ChannelCalls /\ job'[Poller].pc = "answer"
        /\ \E status \in {"published", "error"} : SetStatus(p, status)
    BY <1>6, <1>9 DEF PublishReplied, PublishRaised, Replied, Finish, ChannelCalls, PostOf
  <2>2. queue'[p].status \in {"published", "error"}
    BY <1>1, <2>1, SetStatusEffect DEF Statuses
  <2>3. Honoured(p, a)' /\ ChannelSendEnabled
    BY <1>2, <1>3, <2>1, <2>2, PollerIsNoPost DEF Honoured, PublishInv, Publishing
  <2> QED
    BY <1>1, <1>2, <1>4, <2>1, <2>3, WinsHandled DEF ReviewCalls, ChannelCalls
<1> QED
  BY <1>7, <1>8, <1>9 DEF CallStep

LEMMA WinsStep == IndInv /\ IdleInv /\ WinsInv /\ [Next]_vars => WinsInv'
<1> SUFFICES ASSUME IndInv, IdleInv, WinsInv, [Next]_vars PROVE WinsInv'
  OBVIOUS
<1>1. StructInv /\ PublishInv /\ IdleInv /\ job \in [Coroutines -> Job]
  BY DEF IndInv, SafetyInv, StructInv, TypeOK
<1>2. /\ Turn \in Nat /\ Current \in Nat \ {0} /\ acked \in Nat /\ offset \in Nat /\ last \in Nat
      /\ acked <= last /\ (offset # 0 => (acked < offset /\ offset <= last + 1))
      /\ (job[Poller].pc \in BotCalls => Current <= last)
  BY <1>1, TurnBound DEF StructInv, TypeOK, PollInv
<1>3. ASSUME UNCHANGED <<pollVars, job[Poller]>>,
             \A p \in Posts : queue'[p] = queue[p] \/ \A i \in DOMAIN updates : updates[i].post # p
      PROVE  WinsInv'
  <2>1. Turn' = Turn /\ Current' = Current /\ UNCHANGED updates
    BY <1>3 DEF Turn, Current, pollVars
  <2> QED
    BY <1>1, <1>2, <1>3, <2>1, WinsKept DEF BotCalls
<1>4. ASSUME NEW p \in Posts, CreatePost(p) PROVE WinsInv'
  <2>1. \A q \in Posts : queue'[q] = queue[q] \/ \A i \in DOMAIN updates : updates[i].post # q
    BY <1>1, <1>4, CreateEffect, NoDecisionYet
  <2>2. job'[Poller] = job[Poller]
    BY <1>1, <1>4, PollerIsNoPost DEF CreatePost, Await
  <2> QED
    BY <1>3, <1>4, <2>1, <2>2 DEF CreatePost
<1>5. ASSUME NEW p \in Posts, CallStep(p) PROVE WinsInv'
  <2>1. p \in Coroutines /\ p # Poller /\ PostOf(p) = p
    BY PollerIsNoPost DEF PostOf
  <2>2. \A q \in Posts : queue'[q] = queue[q] \/ \A i \in DOMAIN updates : updates[i].post # q
    BY <1>1, <1>5, <2>1, CallEffect, NoDecisionYet
  <2>3. job'[Poller] = job[Poller] /\ UNCHANGED pollVars
    BY <1>1, <1>5, <2>1, PollerIsNoPost DEF CallStep, DeliverReviewPhoto, DeliverKeyboard,
       DeliverChannelPhoto, DeliverChannelText, PhotoReplied, PublishReplied, KeyboardReplied,
       PublishRaised, ReviewRaised, Delivered, Finish, Resume, Await
  <2> QED
    BY <1>3, <2>2, <2>3
<1>6. CASE PollFetch
  <2>1. Turn' = Turn /\ UNCHANGED <<updates, queue, job>> /\ job[Poller].pc = "idle"
    BY <1>2, <1>6 DEF PollFetch, Turn, Current, Confirmed
  <2> QED
    BY <1>1, <1>2, <2>1, WinsKept DEF ReviewCalls
<1>7. CASE FetchRaised
  <2>1. job[Poller].pc = "idle" /\ job'[Poller].pc = "dead"
    BY <1>1, <1>7, PollerIsNoPost DEF FetchRaised, Resume, Await
  <2>2. acked' \in {acked, Confirmed} /\ offset' = 0 /\ UNCHANGED <<updates, queue>>
    BY <1>7 DEF FetchRaised
  <2>3. Turn' = acked' + 1
    BY <2>1, <2>2 DEF Turn, Current
  <2>4. Confirmed \in Nat /\ Confirmed + 1 <= Turn /\ acked + 1 <= Turn
    BY <1>2, <2>1 DEF Turn, Current, Confirmed
  <2>5. CASE acked' = acked
    BY <1>1, <1>2, <2>1, <2>2, <2>3, <2>4, <2>5, WinsKept DEF ReviewCalls
  <2>6. CASE acked' = Confirmed
    BY <1>1, <1>2, <2>1, <2>2, <2>3, <2>4, <2>6, WinsKept DEF ReviewCalls
  <2> QED
    BY <2>2, <2>5, <2>6
<1>8. CASE AnswerCallback
  <2>1. job[Poller].pc = "answer" /\ job'[Poller].pc = "idle"
    BY <1>1, <1>8, PollerIsNoPost DEF AnswerCallback, Await
  <2>2. Turn' = Turn /\ UNCHANGED <<updates, queue>>
    BY <1>2, <1>8, <2>1 DEF AnswerCallback, Turn, Current
  <2> QED
    BY <1>1, <1>2, <2>1, <2>2, WinsKept DEF ReviewCalls
<1>9. CASE Crash
  <2>1. job'[Poller].pc = "idle"
    BY <1>9, PollerIsNoPost DEF Crash, IdleJob
  <2>2. Turn' = acked + 1 /\ UNCHANGED <<updates, queue>>
    BY <2>1, <1>9 DEF Crash, Turn, Current
  <2>3. acked + 1 <= Turn
    BY <1>2 DEF Turn, Current
  <2> QED
    BY <1>1, <1>2, <2>1, <2>2, <2>3, WinsKept DEF ReviewCalls
<1>10. CASE UNCHANGED vars
  BY <1>3, <1>10 DEF vars
<1> QED
  BY <1>1, <1>4, <1>5, <1>6, <1>7, <1>8, <1>9, <1>10, WinsPress, WinsHandleUpdate,
     WinsPollerCall DEF Next, Coroutines

\* Once every press has been executed the row of a post is what the owner's
\* last press on it asked for, through restarts that repeat whole batches.
THEOREM LastPressDecides == Spec => []LatestPressWins
<1>1. Init => IdleInv /\ WinsInv
  BY PollerIsNoPost DEF Init, IdleInv, Created, WinsInv, Decisions, IdleJob, ReviewCalls
<1>2. StructInv /\ WinsInv => LatestPressWins
  <2> SUFFICES ASSUME StructInv, WinsInv, Drained, NEW p \in Posts, Decisions(p) # {}
               PROVE  Honoured(p, LastPress(p))
    BY DEF LatestPressWins, LastPress, Decisions, Honoured
  <2>1. PICK i \in DOMAIN updates : Final(i, p)
    BY DEF WinsInv
  <2>2. Decisions(p) \subseteq DOMAIN updates /\ DOMAIN updates = 1 .. Len(updates) /\ Len(updates) \in Nat
    BY DEF Decisions, StructInv, TypeOK
  <2>3. \E x \in Decisions(p) : \A y \in Decisions(p) : x >= y
    BY <2>1, <2>2 DEF Final
  <2>4. Max(Decisions(p)) \in Decisions(p) /\ \A y \in Decisions(p) : Max(Decisions(p)) >= y
    BY <2>3 DEF Max
  <2>5. Max(Decisions(p)) = i
    BY <2>1, <2>2, <2>4 DEF Final
  <2>6. LastPress(p) = updates[i].action
    BY <2>5 DEF LastPress, Decisions
  <2>7. i < Turn
    BY <2>2, TurnBound DEF Drained, Turn
  <2> QED
    BY <2>1, <2>6, <2>7 DEF WinsInv
<1>3. IndInv => StructInv
  BY DEF IndInv
<1> QED
  BY <1>1, <1>2, <1>3, Inductive, IdleStep, WinsStep, PTL DEF Spec
-----------------------------------------------------------------------------
(* No post is left without a keyboard, while calls do not fail. *)

\* A post with a press on it has been seen, and has not gone out on its own.
LEMMA PressedIsSeen ==
    ASSUME StructInv, PublishInv, Current <= last
    PROVE  ~Unseen(updates[Current].post) /\ ~AutoAlone(updates[Current].post)
BY CurrentUpdate DEF PublishInv, AutoAlone

\* What a step that works on post p does to the other posts.
LEMMA OthersCovered ==
    ASSUME KeyboardInv, NEW p \in Posts, NEW q \in Posts, q # p, UNCHANGED updates,
           job'[q] = job[q], queue'[q] = queue[q], PollerOn(q)' <=> PollerOn(q),
           shown \subseteq shown', \A k \in shown' : k \in shown \/ k.post = p
    PROVE  Covered(q)' /\ Fresh(q)'
<1>1. Covered(q) /\ Fresh(q)
  BY DEF KeyboardInv
<1>2. (Unseen(q)' <=> Unseen(q)) /\ (Created(q)' <=> Created(q))
  BY DEF Unseen, Created
<1>3. Keyboard(q) => Keyboard(q)'
  BY DEF Keyboard
<1>4. AutoAlone(q) => AutoAlone(q)'
  BY DEF AutoAlone
<1> QED
  BY <1>1, <1>2, <1>3, <1>4 DEF Covered, Fresh, Settled

\* A step that changes neither a row nor the owner's chat nor a call.
LEMMA KeyboardKept ==
    ASSUME StructInv, KeyboardInv, UNCHANGED <<queue, shown>>,
           \A p \in Posts : job'[p] = job[p] /\ (AutoAlone(p) => AutoAlone(p)'),
           \/ job[Poller].pc \notin BotCalls /\ job'[Poller].pc \notin BotCalls
           \/ /\ job'[Poller] = job[Poller]
              /\ job[Poller].pc \in BotCalls => PostOf(Poller)' = PostOf(Poller)
    PROVE  KeyboardInv'
<1>1. \A p \in Posts : PollerOn(p)' <=> PollerOn(p)
  BY DEF PollerOn
<1>2. \A p \in Posts : Covered(p)' /\ Fresh(p)'
  BY <1>1 DEF KeyboardInv, Covered, Fresh, Settled, Keyboard, Unseen, Created
<1>3. PollerCovered'
  <2>1. CASE job'[Poller].pc \notin BotCalls
    BY <2>1 DEF PollerCovered, BotCalls
  <2>2. CASE job'[Poller] = job[Poller] /\ (job[Poller].pc \in BotCalls => PostOf(Poller)' = PostOf(Poller))
    BY <2>2 DEF KeyboardInv, PollerCovered, Keyboard, BotCalls
  <2> QED
    BY <2>1, <2>2
<1> QED
  BY <1>2, <1>3 DEF KeyboardInv

\* create_post sends the review of the draft it has just inserted.
LEMMA KeyboardCreatePost ==
    ASSUME StructInv, IdleInv, KeyboardInv, NEW p \in Posts, CreatePost(p)
    PROVE  KeyboardInv'
<1>1. TypeOK /\ p \in Coroutines /\ p # Poller
  BY PollerIsNoPost DEF StructInv
<1>2. UNCHANGED <<botVars, pollVars, crashes>>
  BY DEF CreatePost
<1>3. PICK r \in Requests :
         \E d \in GenerateBundle(r, 1), status \in Statuses, pc \in {"channel_photo", "review_photo"} :
             /\ queue' = [queue EXCEPT ![p] = [status |-> status, request |-> r, draft |-> d]]
             /\ Await(p, pc, d)
  BY DEF CreatePost, Statuses
<1>4. PICK d \in GenerateBundle(r, 1), status \in Statuses, pc \in {"channel_photo", "review_photo"} :
         /\ queue' = [queue EXCEPT ![p] = [status |-> status, request |-> r, draft |-> d]]
         /\ Await(p, pc, d)
  BY <1>3
<1>5. d \in EditorialDraft
  BY GenerateBundleSound, RequestsAssumption
<1>6. /\ queue'[p].draft = d
      /\ \A q \in Posts : q # p => queue'[q] = queue[q]
  BY <1>1, <1>4 DEF TypeOK
<1>7. /\ job'[p].pc = pc /\ job'[p].draft = d
      /\ \A e \in Coroutines : e # p => job'[e] = job[e]
  <2>1. pc \in BotCalls /\ Await(p, pc, d)
    BY <1>4 DEF BotCalls, ChannelCalls, ReviewCalls
  <2> QED
    BY <1>1, <1>5, <2>1, AwaitEffect
<1>8. job'[Poller] = job[Poller] /\ PostOf(Poller)' = PostOf(Poller)
  BY <1>1, <1>2, <1>7, PollerIsNoPost DEF PostOf, pollVars, Current
<1>9. ~Created(p)
  BY DEF IdleInv, CreatePost
<1>10. job[Poller].pc \in BotCalls => PostOf(Poller) \in Posts /\ PostOf(Poller) # p
  BY <1>9, WorkedPost, PollerIsNoPost
<1>11. ASSUME NEW q \in Posts, q # p PROVE Covered(q)' /\ Fresh(q)'
  BY <1>2, <1>6, <1>7, <1>8, <1>11, OthersCovered, PollerIsNoPost DEF PollerOn, botVars, pollVars
<1>12. Covered(p)' /\ Fresh(p)'
  BY <1>6, <1>7 DEF Covered, Fresh, Unseen, ChannelCalls
<1>13. PollerCovered'
  BY <1>2, <1>6, <1>8, <1>10 DEF KeyboardInv, PollerCovered, Keyboard, botVars, BotCalls
<1> QED
  BY <1>11, <1>12, <1>13 DEF KeyboardInv

\* handle_callback: the post has a keyboard, which stays the row's until the
\* draft is replaced, and then the poller sends a new one.
LEMMA KeyboardHandleUpdate ==
    ASSUME StructInv, PublishInv, KeyboardInv, HandleUpdate
    PROVE  KeyboardInv'
<1> DEFINE p == updates[Current].post
<1>1. /\ TakesUpdate /\ UNCHANGED <<botVars, pollVars>> /\ TypeOK
      /\ p \in Posts /\ Created(p) /\ Current <= last /\ job[Poller].pc = "idle"
      /\ queue[p].draft \in EditorialDraft /\ queue[p].request \in EditorialRequest
      /\ queue[p].draft.ver + 1 \in Nat \ {0}
  BY TakenRow DEF HandleUpdate, HandleForeign, HandlePublish, HandleRewrite,
     HandleImage, HandleReject, Handling, TakesUpdate, StructInv
<1>2. \A q \in Posts : job'[q] = job[q] /\ (q # p => queue'[q] = queue[q])
  BY HandlerEffect
<1>3. Answer => job'[Poller].pc = "answer"
  BY <1>1, ResumeEffect, PollerIsNoPost DEF Answer
<1>4. \A pc \in BotCalls, d \in EditorialDraft :
         Await(Poller, pc, d) =>
             job'[Poller].pc = pc /\ job'[Poller].draft = d /\ job'[Poller].sent = FALSE
  BY <1>1, AwaitEffect, PollerIsNoPost
<1>5. \A status \in Statuses : SetStatus(p, status) => queue'[p].draft = queue[p].draft
  BY <1>1, SetStatusEffect
<1>6. GenerateBundle(queue[p].request, queue[p].draft.ver + 1) \in SUBSET EditorialDraft
  BY <1>1, GenerateBundleSound
<1>7. RegenerateVisual(queue[p].request, queue[p].draft, queue[p].draft.ver + 1)
            \in SUBSET EditorialDraft
  BY <1>1, RegenerateVisualSound
<1>8. \/ Answer /\ (UNCHANGED queue \/ \E status \in Statuses : SetStatus(p, status))
      \/ \E bundles \in SUBSET EditorialDraft : Replace(p, bundles)
      \/ SetStatus(p, "publishing") /\ Await(Poller, "channel_photo", queue[p].draft)
  BY <1>6, <1>7 DEF HandleUpdate, HandleForeign, HandlePublish, HandleRewrite, HandleImage,
     HandleReject, Statuses
<1>9. ~Unseen(p) /\ Keyboard(p)
  BY <1>1, PressedIsSeen DEF KeyboardInv, Covered, Settled, PollerOn, BotCalls, ChannelCalls, ReviewCalls
<1>10. PostOf(Poller) = p /\ PostOf(Poller)' = updates[Current].post /\ UNCHANGED <<updates, shown>>
  BY <1>1 DEF PostOf, pollVars, botVars, Current
<1>11. PICK m \in Posts : m = p
  BY <1>1
<1>12. ASSUME NEW q \in Posts, q # m PROVE Covered(q)' /\ Fresh(q)'
  <2>1. ~PollerOn(q) /\ ~PollerOn(q)'
    BY <1>10, <1>11, <1>12 DEF PollerOn
  <2> QED
    BY <1>2, <1>10, <1>11, <1>12, <2>1, OthersCovered
<1>13. Fresh(m)'
  BY <1>2, <1>9, <1>11 DEF Fresh, Unseen
<1>14. CASE Answer /\ (UNCHANGED queue \/ \E status \in Statuses : SetStatus(p, status))
  <2>1. queue'[m].draft = queue[m].draft /\ job'[Poller].pc = "answer"
    BY <1>3, <1>5, <1>11, <1>14
  <2>2. Keyboard(m)'
    BY <1>9, <1>10, <1>11, <2>1 DEF Keyboard
  <2>3. Covered(m)' /\ PollerCovered'
    BY <2>1, <2>2 DEF Covered, Settled, PollerCovered, ReviewCalls, ChannelCalls
  <2> QED
    BY <1>12, <1>13, <2>3 DEF KeyboardInv
<1>15. CASE \E bundles \in SUBSET EditorialDraft : Replace(p, bundles)
  <2>1. PICK d \in EditorialDraft :
           queue' = [queue EXCEPT ![p] = NewBundle(p, d)] /\ Await(Poller, "review_photo", d)
    BY <1>15 DEF Replace
  <2>2. /\ queue'[m].draft = d /\ job'[Poller].draft = d
        /\ job'[Poller].pc = "review_photo" /\ job'[Poller].sent = FALSE
    BY <1>1, <1>4, <1>11, <2>1, ReplacedRow DEF BotCalls, ReviewCalls
  <2>3. PostOf(Poller)' = m
    BY <1>10, <1>11
  <2>4. Covered(m)' /\ PollerCovered'
    BY <2>2, <2>3 DEF Covered, PollerOn, PollerCovered, BotCalls, ReviewCalls, ChannelCalls
  <2> QED
    BY <1>12, <1>13, <2>4 DEF KeyboardInv
<1>16. CASE SetStatus(p, "publishing") /\ Await(Poller, "channel_photo", queue[p].draft)
  <2>1. queue'[m].draft = queue[m].draft /\ job'[Poller].pc = "channel_photo"
    BY <1>1, <1>4, <1>5, <1>11, <1>16 DEF Statuses, BotCalls, ChannelCalls
  <2>2. Keyboard(m)' /\ PostOf(Poller)' = m
    BY <1>9, <1>10, <1>11, <2>1 DEF Keyboard
  <2>3. Covered(m)' /\ PollerCovered'
    BY <2>1, <2>2 DEF Covered, PollerOn, PollerCovered, BotCalls, ReviewCalls, ChannelCalls
  <2> QED
    BY <1>12, <1>13, <2>3 DEF KeyboardInv
<1> QED
  BY <1>8, <1>14, <1>15, <1>16

\* The Telegram calls: while none fails, a review ends with the keyboard of
\* the row's version and a publication leaves the keyboard it was asked on.
LEMMA KeyboardCallStep ==
    ASSUME StructInv, PublishInv, KeyboardInv, ~CallsMayFail, NEW c \in Coroutines, CallStep(c)
    PROVE  KeyboardInv'
<1>1. /\ job[c].pc \in BotCalls /\ UNCHANGED pollVars /\ TypeOK
      /\ PostOf(c) \in Posts /\ Created(PostOf(c)) /\ job[c].draft \in EditorialDraft
  BY WorkedPost DEF CallStep, DeliverReviewPhoto, DeliverKeyboard, DeliverChannelPhoto,
     DeliverChannelText, PhotoReplied, PublishReplied, KeyboardReplied,
     PublishRaised, ReviewRaised, Pending, Replied, BotCalls, ChannelCalls, ReviewCalls, StructInv
<1>2. PICK m \in Posts : m = PostOf(c)
  BY <1>1
<1>3. /\ updates' = updates /\ Current' = Current
      /\ PostOf(Poller)' = updates[Current].post /\ PostOf(Poller) = updates[Current].post
      /\ c # Poller => c = m /\ c \in Posts
      /\ c = Poller => m = updates[Current].post
  BY <1>1, <1>2 DEF pollVars, Current, PostOf, Coroutines
<1>4. job[Poller].pc \in BotCalls /\ PostOf(Poller) = m => ~Unseen(m) /\ ~AutoAlone(m)
  BY <1>3, PressedIsSeen DEF StructInv, PollInv
<1>5. c = Poller => ~Unseen(m) /\ ~AutoAlone(m)
  BY <1>1, <1>3, <1>4
<1>6. Delivered(c) =>
         /\ job'[c].pc = job[c].pc /\ job'[c].sent = TRUE /\ job'[c].draft = job[c].draft
         /\ \A e \in Coroutines : e # c => job'[e] = job[e]
  BY <1>1, DeliveredEffect
<1>7. \A pc \in BotCalls \cup {"answer", "done"} : Resume(c, pc) =>
         /\ job'[c].pc = pc /\ job'[c].sent = FALSE /\ job'[c].draft = job[c].draft
         /\ \A e \in Coroutines : e # c => job'[e] = job[e]
  BY <1>1, ResumeEffect
<1>8. Finish(c) =>
         /\ job'[c].pc = (IF c = Poller THEN "answer" ELSE "done")
         /\ job'[c].draft = job[c].draft
         /\ \A e \in Coroutines : e # c => job'[e] = job[e]
  BY <1>7 DEF Finish
<1>9. Covered(m) /\ Fresh(m) /\ PollerCovered
  BY DEF KeyboardInv
\* Enough for the step: what it does to its own post and to the poller.
<1>10. ASSUME \A e \in Coroutines : e # c => job'[e] = job[e],
              \A q \in Posts : q # m => queue'[q] = queue[q],
              shown \subseteq shown', \A k \in shown' : k \in shown \/ k.post = m,
              Covered(m)', Fresh(m)', PollerCovered'
       PROVE  KeyboardInv'
  <2>1. ASSUME NEW q \in Posts, q # m PROVE Covered(q)' /\ Fresh(q)'
    <3>1. job'[q] = job[q]
      BY <1>3, <1>10, <2>1, PollerIsNoPost
    <3>2. PollerOn(q)' <=> PollerOn(q)
      BY <1>3, <1>10, <2>1, PollerIsNoPost DEF PollerOn
    <3> QED
      BY <1>3, <1>10, <2>1, <3>1, <3>2, OthersCovered
  <2> QED
    BY <1>10, <2>1 DEF KeyboardInv
<1>11. CASE DeliverReviewPhoto(c) \/ DeliverChannelPhoto(c) \/ DeliverChannelText(c)
  <2>1. Delivered(c) /\ job[c].pc # "review_keyboard" /\ UNCHANGED <<queue, shown>>
    BY <1>11 DEF DeliverReviewPhoto, DeliverChannelPhoto, DeliverChannelText, Pending, botVars
  <2>2. \A e \in Coroutines : /\ job'[e].pc = job[e].pc /\ job'[e].draft = job[e].draft
                             /\ (e # c => job'[e] = job[e])
    BY <1>6, <2>1
  <2>3. (Unseen(m)' <=> Unseen(m)) /\ (Created(m)' <=> Created(m)) /\ (PollerOn(m)' <=> PollerOn(m))
    BY <1>3, <2>1, <2>2, PollerIsNoPost DEF Unseen, Created, PollerOn
  <2>4. Covered(m)' /\ Fresh(m)'
    BY <1>3, <1>9, <2>1, <2>2, <2>3, PollerIsNoPost DEF Covered, Fresh, Settled, Keyboard, AutoAlone
  <2>5. PollerCovered'
    BY <1>3, <1>9, <2>1, <2>2, PollerIsNoPost DEF PollerCovered, Keyboard
  <2> QED
    BY <1>10, <2>1, <2>2, <2>4, <2>5
<1>12. CASE DeliverKeyboard(c)
  <2>1. /\ Delivered(c) /\ job[c].pc = "review_keyboard" /\ job[c].sent = FALSE /\ UNCHANGED queue
        /\ shown' = shown \cup {[post |-> m, ver |-> job[c].draft.ver]}
    BY <1>1, <1>2, <1>12 DEF DeliverKeyboard, Pending, TypeOK, Job
  <2>2. queue[m].draft.ver = job[c].draft.ver
    BY <1>3, <1>9, <2>1 DEF Fresh, Unseen, PollerCovered, ReviewCalls
  <2>3. Keyboard(m)'
    BY <2>1, <2>2 DEF Keyboard
  <2>4. \A q \in Posts : Keyboard(q) => Keyboard(q)'
    BY <2>1 DEF Keyboard
  <2>5. Covered(m)' /\ Fresh(m)'
    <3>1. Covered(m)'
      BY <2>3 DEF Covered, Settled
    <3>2. c = m => ~Unseen(m)'
      BY <1>6, <2>1 DEF Unseen, ChannelCalls
    <3>3. c # m => ~Unseen(m)'
      BY <1>3, <1>5, <1>6, <2>1, PollerIsNoPost DEF Unseen
    <3> QED
      BY <3>1, <3>2, <3>3 DEF Fresh
  <2>6. PollerCovered'
    <3>1. CASE c = Poller
      BY <1>3, <1>6, <2>1, <2>2, <2>3, <3>1 DEF PollerCovered, ChannelCalls
    <3>2. CASE c # Poller
      <4>1. job'[Poller] = job[Poller]
        BY <1>6, <2>1, <3>2, PollerIsNoPost
      <4>2. job[Poller].pc \in BotCalls => PostOf(Poller) \in Posts
        BY WorkedPost, PollerIsNoPost
      <4>3. job[Poller].pc \in BotCalls /\ Keyboard(PostOf(Poller)) => Keyboard(PostOf(Poller))'
        BY <1>3, <2>1 DEF Keyboard
      <4> QED
        BY <1>3, <1>9, <2>1, <4>1, <4>3 DEF PollerCovered, BotCalls
    <3> QED
      BY <3>1, <3>2
  <2> QED
    BY <1>6, <1>10, <2>1, <2>5, <2>6
<1>13. CASE PhotoReplied(c)
  <2>1. /\ \/ job[c].pc = "channel_photo" /\ job'[c].pc = "channel_text"
           \/ job[c].pc = "review_photo" /\ job'[c].pc = "review_keyboard"
        /\ job'[c].sent = FALSE /\ job'[c].draft = job[c].draft
        /\ \A e \in Coroutines : e # c => job'[e] = job[e]
        /\ UNCHANGED <<queue, shown>>
    BY <1>7, <1>13 DEF PhotoReplied, Replied, botVars, BotCalls, ChannelCalls, ReviewCalls
  <2>2. job'[c].pc \in BotCalls
    BY <2>1 DEF BotCalls, ChannelCalls, ReviewCalls
  <2>3. (Unseen(m)' <=> Unseen(m)) /\ (Created(m)' <=> Created(m)) /\ (PollerOn(m)' <=> PollerOn(m))
    BY <1>1, <1>3, <2>1, <2>2, PollerIsNoPost DEF Unseen, Created, PollerOn, ChannelCalls
  <2>4. Covered(m)' /\ Fresh(m)'
    BY <1>3, <1>9, <2>1, <2>3, PollerIsNoPost DEF Covered, Fresh, Settled, Keyboard, AutoAlone, ReviewCalls
  <2>5. PollerCovered'
    BY <1>3, <1>9, <2>1, PollerIsNoPost DEF PollerCovered, Keyboard, ReviewCalls, ChannelCalls
  <2> QED
    BY <1>10, <2>1, <2>4, <2>5
<1>14. CASE PublishReplied(c)
  <2>1. /\ job[c].pc \in ChannelCalls /\ SetStatus(m, "published") /\ shown' = shown
        /\ job'[c].pc = (IF c = Poller THEN "answer" ELSE "done")
        /\ \A e \in Coroutines : e # c => job'[e] = job[e]
    BY <1>2, <1>8, <1>14 DEF PublishReplied, Replied, ChannelCalls, botVars
  <2>2. /\ queue'[m].status = "published" /\ queue'[m].draft = queue[m].draft
        /\ \A q \in Posts : q # m => queue'[q] = queue[q]
    BY <1>1, <1>2, <2>1, SetStatusEffect DEF Statuses
  <2>3. CASE c = Poller
    <3>1. Keyboard(m) /\ ~Unseen(m)'
      BY <1>3, <1>5, <1>9, <2>1, <2>3, PollerIsNoPost DEF PollerCovered, Unseen
    <3>2. Keyboard(m)'
      BY <2>1, <2>2, <3>1 DEF Keyboard
    <3>3. Covered(m)' /\ Fresh(m)' /\ PollerCovered'
      BY <2>1, <2>3, <3>1, <3>2 DEF Covered, Settled, Fresh, PollerCovered, ReviewCalls, ChannelCalls
    <3> QED
      BY <1>10, <2>1, <2>2, <3>3
  <2>4. CASE c # Poller
    <3>1. c = m /\ AutoAlone(m) /\ job'[Poller] = job[Poller]
      BY <1>3, <2>1, <2>4, PollerIsNoPost DEF PublishInv, Unseen
    <3>2. AutoAlone(m)' /\ Settled(m)'
      BY <1>3, <2>1, <2>2, <3>1 DEF AutoAlone, Settled
    <3>3. Covered(m)' /\ Fresh(m)'
      BY <2>1, <2>4, <3>1, <3>2 DEF Covered, Fresh, ReviewCalls
    <3>4. job[Poller].pc \in BotCalls => PostOf(Poller) \in Posts /\ PostOf(Poller) # m
      BY <1>4, <3>1, WorkedPost, PollerIsNoPost
    <3>5. PollerCovered'
      BY <1>3, <1>9, <2>1, <2>2, <3>1, <3>4 DEF PollerCovered, Keyboard, BotCalls
    <3> QED
      BY <1>10, <2>1, <2>2, <3>3, <3>5
  <2> QED
    BY <2>3, <2>4
<1>15. CASE KeyboardReplied(c)
  <2>1. /\ job[c].pc = "review_keyboard" /\ job[c].sent = TRUE /\ UNCHANGED <<queue, shown>>
        /\ job'[c].pc = (IF c = Poller THEN "answer" ELSE "done")
        /\ \A e \in Coroutines : e # c => job'[e] = job[e]
    BY <1>1, <1>8, <1>15 DEF KeyboardReplied, Replied, botVars, TypeOK, Job
  <2>2. CASE c = Poller
    <3>1. Keyboard(m) /\ ~Unseen(m)'
      BY <1>3, <1>5, <1>9, <2>1, <2>2, PollerIsNoPost DEF PollerCovered, Unseen, ReviewCalls
    <3>2. Keyboard(m)'
      BY <2>1, <3>1 DEF Keyboard
    <3>3. Covered(m)' /\ Fresh(m)' /\ PollerCovered'
      BY <2>1, <2>2, <3>1, <3>2 DEF Covered, Settled, Fresh, PollerCovered, ReviewCalls, ChannelCalls
    <3> QED
      BY <1>10, <2>1, <3>3
  <2>3. CASE c # Poller
    <3>1. c = m /\ job'[Poller] = job[Poller] /\ ~Unseen(m) /\ ~Unseen(m)'
      BY <1>3, <2>1, <2>3, PollerIsNoPost DEF Unseen, ChannelCalls
    <3>2. Covered(m)' /\ Fresh(m)'
      BY <1>3, <1>9, <2>1, <3>1 DEF Covered, Fresh, Settled, Keyboard, AutoAlone, PollerOn, Created
    <3>3. PollerCovered'
      BY <1>3, <1>9, <2>1, <3>1 DEF PollerCovered, Keyboard
    <3> QED
      BY <1>10, <2>1, <3>2, <3>3
  <2> QED
    BY <2>2, <2>3
<1> QED
  BY <1>11, <1>12, <1>13, <1>14, <1>15 DEF CallStep, PublishRaised, ReviewRaised

LEMMA KeyboardStep ==
    ASSUME ~CallsMayFail, MaxCrashes = 0
    PROVE  IndInv /\ IdleInv /\ KeyboardInv /\ [Next]_vars => KeyboardInv'
<1> SUFFICES ASSUME IndInv, IdleInv, KeyboardInv, [Next]_vars PROVE KeyboardInv'
  OBVIOUS
<1>1. StructInv /\ PublishInv /\ job \in [Coroutines -> Job] /\ crashes \in Nat
  BY DEF IndInv, SafetyInv, StructInv, TypeOK
<1>2. ASSUME NEW u \in Users, NEW k \in shown, NEW a \in Actions, Press(u, k, a)
      PROVE  KeyboardInv'
  <2> DEFINE press == [from |-> u, action |-> a, post |-> k.post, ver |-> k.ver]
  <2>1. updates \in Seq(Update) /\ updates' = Append(updates, press) /\ press \in Update
    BY <1>1, <1>2 DEF StructInv, TypeOK, Press, Update
  <2>2. press.post = k.post
    OBVIOUS
  <2> HIDE DEF press
  <2>3. /\ \A i \in DOMAIN updates : updates'[i] = updates[i]
        /\ \A i \in DOMAIN updates' : i \in DOMAIN updates \/ updates'[i] = press
    BY <2>1
  <2>4. UNCHANGED <<queue, shown, job, acked, offset, last>>
    BY <1>2 DEF Press, botVars
  <2>5. \A p \in Posts : AutoAlone(p) => AutoAlone(p)'
    BY <1>2, <2>2, <2>3, <2>4 DEF AutoAlone
  <2>6. job[Poller].pc \in BotCalls => PostOf(Poller)' = PostOf(Poller)
    BY <1>1, <2>3, <2>4, CurrentUpdate DEF StructInv, PollInv, PostOf, Current
  <2> QED
    BY <1>1, <2>4, <2>5, <2>6, KeyboardKept
<1>3. CASE PollFetch \/ FetchRaised \/ AnswerCallback
  <2>1. /\ UNCHANGED <<queue, shown, updates>> /\ job[Poller].pc \in {"idle", "answer"}
        /\ job' = job \/ \E pc \in {"idle", "dead"} : \E d : Await(Poller, pc, d)
    BY <1>3 DEF PollFetch, FetchRaised, AnswerCallback, Resume, botVars
  <2>2. /\ \A p \in Posts : job'[p] = job[p] /\ (AutoAlone(p) => AutoAlone(p)')
        /\ job'[Poller].pc \in {"idle", "answer", "dead"}
    BY <1>1, <2>1, PollerIsNoPost DEF Await, AutoAlone
  <2>3. job[Poller].pc \notin BotCalls /\ job'[Poller].pc \notin BotCalls
    BY <2>1, <2>2 DEF BotCalls, ChannelCalls, ReviewCalls
  <2> QED
    BY <1>1, <2>1, <2>2, <2>3, KeyboardKept
<1>4. CASE UNCHANGED vars
  <2>1. /\ UNCHANGED <<queue, shown, updates, job>> /\ PostOf(Poller)' = PostOf(Poller)
        /\ \A p \in Posts : AutoAlone(p) => AutoAlone(p)'
    BY <1>4 DEF vars, botVars, pollVars, PostOf, Current, AutoAlone
  <2> QED
    BY <1>1, <2>1, KeyboardKept
<1>5. ~Crash
  BY <1>1 DEF Crash
<1> QED
  BY <1>1, <1>2, <1>3, <1>4, <1>5, KeyboardCreatePost, KeyboardHandleUpdate, KeyboardCallStep
     DEF Next

\* No post waits for the owner without a keyboard of the version its row
\* holds, as long as no call fails and the process does not restart.
THEOREM EveryPostHasItsKeyboard ==
    ASSUME ~CallsMayFail, MaxCrashes = 0
    PROVE  Spec => []NothingOrphaned
<1>1. Init => IdleInv /\ KeyboardInv
  BY PollerIsNoPost DEF Init, IdleInv, Created, KeyboardInv, Covered, Fresh, PollerCovered,
     IdleJob, ReviewCalls, ChannelCalls
<1>2. IdleInv /\ KeyboardInv => NothingOrphaned
  <2> SUFFICES ASSUME IdleInv, KeyboardInv, NEW p \in Posts,
                      queue[p].status \in {"review", "ready", "error"}, ~Working(p)
               PROVE  Keyboard(p)
    BY DEF NothingOrphaned, Reviewable, Keyboard
  <2>1. Created(p) /\ ~Unseen(p) /\ ~PollerOn(p)
    BY DEF IdleInv, Created, NoRow, Unseen, Working, PollerOn, BotCalls, ChannelCalls, ReviewCalls
  <2> QED
    BY <2>1 DEF KeyboardInv, Covered, Settled
<1>3. IndInv => StructInv
  BY DEF IndInv
<1> QED
  BY <1>1, <1>2, <1>3, Inductive, IdleStep, KeyboardStep, PTL DEF Spec
-----------------------------------------------------------------------------
(* How often a post's text goes out. *)

LEMMA FinitePart ==
    ASSUME NEW n \in Nat, NEW S \in SUBSET (1 .. n), NEW T \in SUBSET S
    PROVE  /\ IsFiniteSet(S) /\ IsFiniteSet(T)
           /\ Cardinality(S) \in Nat /\ Cardinality(T) \in Nat /\ Cardinality(T) <= Cardinality(S)
<1>1. IsFiniteSet(1 .. n)
  BY FS_Interval
<1>2. IsFiniteSet(S)
  BY <1>1, FS_Subset
<1> QED
  BY <1>2, FS_Subset, FS_CardinalityType

LEMMA MoreRuns ==
    ASSUME NEW c \in Nat, NEW k \in Nat
    PROVE  /\ (1 + c) * k \in Nat
           /\ (1 + c) * (k + 1) = (1 + c) * k + 1 + c
           /\ (1 + (c + 1)) * k = (1 + c) * k + k
OBVIOUS

LEMMA CountTypes ==
    ASSUME StructInv, NEW p \in Posts
    PROVE  /\ Len(updates) \in Nat /\ DOMAIN updates = 1 .. Len(updates)
           /\ OwnerPresses(p) \subseteq 1 .. Len(updates)
           /\ PendingPresses(p) \subseteq OwnerPresses(p)
           /\ crashes \in Nat /\ copies[p] \in Nat
<1>1. updates \in Seq(Update) /\ crashes \in Nat /\ copies \in [Posts -> Nat]
  BY DEF StructInv, TypeOK
<1> QED
  BY <1>1 DEF OwnerPresses, PendingPresses

\* A step that sends no text and executes nothing anew.
LEMMA CopiesKept ==
    ASSUME StructInv, NEW p \in Posts, CopiesCounted(p), UNCHANGED <<updates, crashes>>,
           copies'[p] = copies[p], PendingPresses(p)' \subseteq PendingPresses(p),
           AutoPosted(p) => AutoPosted(p)',
           Awaited(p)' => Awaited(p) \/ (AutoPosted(p)' /\ ~AutoPosted(p))
    PROVE  CopiesCounted(p)'
<1>1. PICK n \in Nat, c \in Nat, k \in Nat : n = Len(updates) /\ c = crashes /\ k = copies[p]
  BY CountTypes
<1>p. PICK P \in SUBSET (1 .. n) : P = OwnerPresses(p) /\ P = OwnerPresses(p)'
  BY <1>1, CountTypes DEF OwnerPresses
<1>q. PICK Q \in SUBSET P : Q = PendingPresses(p)
  BY <1>p, CountTypes
<1>r. PICK R \in SUBSET Q : R = PendingPresses(p)'
  BY <1>p, <1>q
<1>2. PICK a \in {0, 1}, b \in {0, 1}, d \in {0, 1}, e \in {0, 1} :
         a = One(Awaited(p)) /\ b = One(AutoPosted(p)) /\ d = One(Awaited(p))' /\ e = One(AutoPosted(p))'
  BY DEF One
<1>3. d + b <= a + e
  BY <1>2 DEF One
<1>4. Cardinality(R) <= Cardinality(Q) /\ Cardinality(R) \in Nat /\ Cardinality(Q) \in Nat
      /\ Cardinality(P) \in Nat
  BY FinitePart
<1>5. PICK m \in Nat : m = (1 + c) * Cardinality(P)
  BY <1>4, MoreRuns
<1>6. k + Cardinality(Q) + a <= m + b
  BY <1>1, <1>p, <1>q, <1>2, <1>5 DEF CopiesCounted
<1>7. k + Cardinality(R) + d <= m + e
  BY <1>3, <1>4, <1>6
<1> QED
  BY <1>1, <1>p, <1>r, <1>2, <1>5, <1>7 DEF CopiesCounted

\* The text goes out: for the press being executed, or the automatic one.
LEMMA CopySent ==
    ASSUME StructInv, NEW p \in Posts, CopiesCounted(p), UNCHANGED <<updates, crashes>>,
           copies'[p] = copies[p] + 1, AutoPosted(p) => AutoPosted(p)',
           \/ /\ Awaited(p) /\ ~Awaited(p)'
              /\ PendingPresses(p)' \subseteq PendingPresses(p)
           \/ /\ Awaited(p)' => Awaited(p)
              /\ Current \in PendingPresses(p)
              /\ PendingPresses(p)' \subseteq PendingPresses(p) \ {Current}
    PROVE  CopiesCounted(p)'
<1>1. PICK n \in Nat, c \in Nat, k \in Nat : n = Len(updates) /\ c = crashes /\ k = copies[p]
  BY CountTypes
<1>p. PICK P \in SUBSET (1 .. n) : P = OwnerPresses(p) /\ P = OwnerPresses(p)'
  BY <1>1, CountTypes DEF OwnerPresses
<1>q. PICK Q \in SUBSET P : Q = PendingPresses(p)
  BY <1>p, CountTypes
<1>r. PICK R \in SUBSET Q : R = PendingPresses(p)'
  BY <1>p, <1>q
<1>2. PICK a \in {0, 1}, b \in {0, 1}, d \in {0, 1}, e \in {0, 1} :
         a = One(Awaited(p)) /\ b = One(AutoPosted(p)) /\ d = One(Awaited(p))' /\ e = One(AutoPosted(p))'
  BY DEF One
<1>3. Cardinality(R) <= Cardinality(Q) /\ Cardinality(R) \in Nat /\ Cardinality(Q) \in Nat
      /\ Cardinality(P) \in Nat
  BY FinitePart
<1>4. Cardinality(R) + d + 1 + b <= Cardinality(Q) + a + e
  <2>1. CASE Awaited(p) /\ ~Awaited(p)'
    <3>1. a = 1 /\ d = 0 /\ b <= e
      BY <1>2, <2>1 DEF One
    <3> QED
      BY <1>3, <3>1
  <2>2. CASE /\ Awaited(p)' => Awaited(p)
             /\ Current \in PendingPresses(p)
             /\ PendingPresses(p)' \subseteq PendingPresses(p) \ {Current}
    <3>1. d <= a /\ b <= e
      BY <1>2, <2>2 DEF One
    <3>2. PICK i \in Q : R \subseteq Q \ {i}
      BY <1>q, <1>r, <2>2
    <3>3. IsFiniteSet(Q) /\ Cardinality(Q \ {i}) = Cardinality(Q) - 1 /\ IsFiniteSet(Q \ {i})
      BY FinitePart, FS_RemoveElement
    <3>a. R \in SUBSET (Q \ {i})
      BY <3>2
    <3>b. Cardinality(R) <= Cardinality(Q \ {i})
      BY <3>3, <3>a, FS_Subset
    <3>4. Cardinality(R) <= Cardinality(Q) - 1
      BY <3>3, <3>b
    <3> QED
      BY <1>2, <1>3, <3>1, <3>4
  <2> QED
    BY <2>1, <2>2
<1>5. PICK m \in Nat : m = (1 + c) * Cardinality(P)
  BY <1>3, MoreRuns
<1>6. k + Cardinality(Q) + a <= m + b
  BY <1>1, <1>p, <1>q, <1>2, <1>5 DEF CopiesCounted
<1>7. k + 1 + Cardinality(R) + d <= m + e
  BY <1>2, <1>3, <1>4, <1>6
<1> QED
  BY <1>1, <1>p, <1>r, <1>2, <1>5, <1>7 DEF CopiesCounted

\* A restart may execute every press on the post again.
LEMMA CopiesCrash ==
    ASSUME StructInv, NEW p \in Posts, CopiesCounted(p), UNCHANGED <<updates, copies>>,
           crashes' = crashes + 1, PendingPresses(p)' \subseteq OwnerPresses(p),
           AutoPosted(p)' <=> AutoPosted(p), Awaited(p)' => Awaited(p)
    PROVE  CopiesCounted(p)'
<1>1. PICK n \in Nat, c \in Nat, k \in Nat : n = Len(updates) /\ c = crashes /\ k = copies[p]
  BY CountTypes
<1>p. PICK P \in SUBSET (1 .. n) : P = OwnerPresses(p) /\ P = OwnerPresses(p)'
  BY <1>1, CountTypes DEF OwnerPresses
<1>q. PICK Q \in SUBSET P : Q = PendingPresses(p)
  BY <1>p, CountTypes
<1>r. PICK R \in SUBSET P : R = PendingPresses(p)'
  BY <1>p, <1>q
<1>2. PICK a \in {0, 1}, b \in {0, 1}, d \in {0, 1} :
         a = One(Awaited(p)) /\ b = One(AutoPosted(p)) /\ d = One(Awaited(p))' /\ b = One(AutoPosted(p))'
  BY DEF One
<1>3. d <= a
  BY <1>2 DEF One
<1>4. Cardinality(R) <= Cardinality(P) /\ Cardinality(R) \in Nat /\ Cardinality(P) \in Nat
      /\ Cardinality(Q) \in Nat
  BY FinitePart
<1>5. PICK m \in Nat : m = (1 + c) * Cardinality(P)
  BY <1>4, MoreRuns
<1>6. k + Cardinality(Q) + a <= m + b
  BY <1>1, <1>p, <1>q, <1>2, <1>5 DEF CopiesCounted
<1>7. (1 + (c + 1)) * Cardinality(P) = m + Cardinality(P)
  BY <1>4, <1>5, MoreRuns
<1>8. k + Cardinality(R) + d <= m + Cardinality(P) + b
  BY <1>2, <1>3, <1>4, <1>6
<1> QED
  BY <1>1, <1>p, <1>r, <1>2, <1>7, <1>8 DEF CopiesCounted

\* A new press adds at least as much to the bound as to what is pending.
LEMMA CopiesPress ==
    ASSUME StructInv, NEW p \in Posts, CopiesCounted(p), UNCHANGED <<copies, crashes, job>>,
           \/ /\ OwnerPresses(p)' = OwnerPresses(p)
              /\ PendingPresses(p)' \subseteq PendingPresses(p)
           \/ /\ OwnerPresses(p)' = OwnerPresses(p) \cup {Len(updates) + 1}
              /\ PendingPresses(p)' \subseteq PendingPresses(p) \cup {Len(updates) + 1}
    PROVE  CopiesCounted(p)'
<1>1. PICK n \in Nat, c \in Nat, k \in Nat : n = Len(updates) /\ c = crashes /\ k = copies[p]
  BY CountTypes
<1>p. PICK P \in SUBSET (1 .. n) : P = OwnerPresses(p)
  BY <1>1, CountTypes
<1>q. PICK Q \in SUBSET P : Q = PendingPresses(p)
  BY <1>p, CountTypes
<1>2. PICK a \in {0, 1}, b \in {0, 1} :
         a = One(Awaited(p)) /\ b = One(AutoPosted(p)) /\ a = One(Awaited(p))' /\ b = One(AutoPosted(p))'
  BY DEF One, Awaited, AutoPosted
<1>3. Cardinality(P) \in Nat /\ Cardinality(Q) \in Nat /\ IsFiniteSet(P) /\ IsFiniteSet(Q)
  BY FinitePart
<1>4. PICK m \in Nat : m = (1 + c) * Cardinality(P)
  BY <1>3, MoreRuns
<1>5. k + Cardinality(Q) + a <= m + b
  BY <1>1, <1>p, <1>q, <1>2, <1>4 DEF CopiesCounted
<1>6. CASE OwnerPresses(p)' = P /\ PendingPresses(p)' \subseteq Q
  <2>1. PICK R \in SUBSET Q : R = PendingPresses(p)'
    BY <1>6
  <2>2. Cardinality(R) <= Cardinality(Q) /\ Cardinality(R) \in Nat
    BY FinitePart
  <2>3. k + Cardinality(R) + a <= m + b
    BY <1>2, <1>3, <1>5, <2>2
  <2> QED
    BY <1>1, <1>2, <1>4, <1>6, <2>1, <2>3 DEF CopiesCounted
<1>7. CASE OwnerPresses(p)' = P \cup {n + 1} /\ PendingPresses(p)' \subseteq Q \cup {n + 1}
  <2>1. PICK R \in SUBSET (Q \cup {n + 1}) : R = PendingPresses(p)'
    BY <1>7
  <2>a. n + 1 \notin P /\ n + 1 \notin Q
    OBVIOUS
  <2>2. Cardinality(P \cup {n + 1}) = Cardinality(P) + 1
    BY <1>3, <2>a, FS_AddElement
  <2>3. Cardinality(Q \cup {n + 1}) = Cardinality(Q) + 1 /\ IsFiniteSet(Q \cup {n + 1})
    BY <1>3, <2>a, FS_AddElement
  <2>b. IsFiniteSet(R) /\ Cardinality(R) <= Cardinality(Q \cup {n + 1})
    BY <2>3, FS_Subset
  <2>4. Cardinality(R) <= Cardinality(Q) + 1 /\ Cardinality(R) \in Nat
    BY <2>3, <2>b, FS_CardinalityType
  <2>5. (1 + c) * (Cardinality(P) + 1) = m + 1 + c
    BY <1>3, <1>4, MoreRuns
  <2>6. k + Cardinality(R) + a <= m + 1 + c + b
    BY <1>2, <1>3, <1>5, <2>4
  <2> QED
    BY <1>1, <1>2, <1>7, <2>1, <2>2, <2>5, <2>6 DEF CopiesCounted
<1> QED
  BY <1>1, <1>p, <1>q, <1>6, <1>7

\* What can still be executed does not grow while the poller works.
LEMMA PendingShrinks ==
    ASSUME NEW p \in Posts, UNCHANGED updates,
           job'[Poller].pc # "dead" =>
               /\ job[Poller].pc # "dead"
               /\ \A i \in DOMAIN updates : ToExecute(i)' => ToExecute(i)
    PROVE  PendingPresses(p)' \subseteq PendingPresses(p)
BY DEF PendingPresses, OwnerPresses

\* A step that does not move the poller.
LEMMA CopiesElsewhere ==
    ASSUME StructInv, NEW p \in Posts, CopiesCounted(p),
           UNCHANGED <<updates, crashes, Current, job[Poller]>>, copies'[p] = copies[p],
           AutoPosted(p) => AutoPosted(p)',
           Awaited(p)' => Awaited(p) \/ (AutoPosted(p)' /\ ~AutoPosted(p))
    PROVE  CopiesCounted(p)'
<1>1. \A i \in DOMAIN updates : ToExecute(i)' => ToExecute(i)
  BY DEF ToExecute, Awaited
<1>2. PendingPresses(p)' \subseteq PendingPresses(p)
  BY <1>1, PendingShrinks
<1> QED
  BY <1>2, CopiesKept

\* A step of the poller that sends no text.
LEMMA CopiesPolled ==
    ASSUME StructInv, NEW p \in Posts, CopiesCounted(p),
           UNCHANGED <<updates, crashes, job[p]>>, copies'[p] = copies[p],
           PendingPresses(p)' \subseteq PendingPresses(p)
    PROVE  CopiesCounted(p)'
<1>1. (AutoPosted(p)' <=> AutoPosted(p)) /\ (Awaited(p)' <=> Awaited(p))
  BY DEF AutoPosted, Awaited
<1> QED
  BY <1>1, CopiesKept

LEMMA CopiesCreatePost ==
    ASSUME StructInv, CopiesInv, NEW p \in Posts, CreatePost(p)
    PROVE  CopiesInv'
<1>1. /\ UNCHANGED <<copies, pollVars, crashes>> /\ job[p].pc = "idle"
      /\ \E d \in EditorialDraft :
            \/ Await(p, "channel_photo", d) /\ AutoPublishGreen /\ AutoEligible(d)
            \/ Await(p, "review_photo", d)
  BY GenerateBundleSound, RequestsAssumption DEF CreatePost, botVars
<1>2. PICK d \in EditorialDraft, pc \in {"channel_photo", "review_photo"} :
         /\ Await(p, pc, d)
         /\ pc = "channel_photo" => AutoPublishGreen /\ AutoEligible(d)
  BY <1>1
<1>3. /\ job'[p].pc = pc /\ job'[p].draft = d /\ job'[Poller] = job[Poller]
      /\ \A q \in Posts : q # p => job'[q] = job[q]
  <2>1. pc \in BotCalls /\ p \in Coroutines /\ p # Poller /\ TypeOK
    BY PollerIsNoPost DEF BotCalls, ChannelCalls, ReviewCalls, StructInv
  <2> QED
    BY <1>2, <2>1, AwaitEffect, PollerIsNoPost
<1>4. ~AutoPosted(p)
  BY <1>1 DEF StructInv, RowInv, AutoPosted
<1>5. Awaited(p)' => AutoPosted(p)'
  BY <1>2, <1>3, DraftIsDraft DEF Awaited, AutoPosted
<1>6. UNCHANGED <<updates, Current>>
  BY <1>1 DEF pollVars, Current
<1>7. CopiesCounted(p)'
  BY <1>1, <1>3, <1>4, <1>5, <1>6, CopiesElsewhere DEF CopiesInv
<1>8. ASSUME NEW q \in Posts, q # p PROVE CopiesCounted(q)'
  <2>1. (AutoPosted(q)' <=> AutoPosted(q)) /\ (Awaited(q)' <=> Awaited(q))
    BY <1>3, <1>8 DEF AutoPosted, Awaited
  <2> QED
    BY <1>1, <1>3, <1>6, <2>1, CopiesElsewhere DEF CopiesInv
<1> QED
  BY <1>7, <1>8 DEF CopiesInv

\* A Telegram call starts no publication; only its text counts.
LEMMA CallMoves ==
    ASSUME StructInv, NEW c \in Coroutines, CallStep(c)
    PROVE  /\ job[c].pc \in BotCalls /\ job'[c].pc \notin {"idle", "dead"}
           /\ job'[c].draft = job[c].draft /\ (Awaited(c)' => Awaited(c))
           /\ \A e \in Coroutines : e # c => job'[e] = job[e]
           /\ UNCHANGED <<pollVars, crashes, updates, Current>>
           /\ \/ UNCHANGED copies
              \/ /\ Awaited(c) /\ ~Awaited(c)' /\ job[c].pc = "channel_text"
                 /\ copies' = [copies EXCEPT ![PostOf(c)] = @ + 1]
<1>1. /\ job[c].pc \in BotCalls /\ UNCHANGED <<pollVars, crashes>> /\ TypeOK
  BY DEF CallStep, DeliverReviewPhoto, DeliverKeyboard, DeliverChannelPhoto,
     DeliverChannelText, PhotoReplied, PublishReplied, KeyboardReplied,
     PublishRaised, ReviewRaised, Pending, Replied, BotCalls, ChannelCalls, ReviewCalls, StructInv
<1>2. UNCHANGED <<updates, Current>>
  BY <1>1 DEF pollVars, Current
<1>3. Delivered(c) =>
         /\ job'[c].pc = job[c].pc /\ job'[c].sent = TRUE /\ job'[c].draft = job[c].draft
         /\ \A e \in Coroutines : e # c => job'[e] = job[e]
  BY <1>1, DeliveredEffect
<1>4. \A pc \in BotCalls \cup {"answer", "done"} : Resume(c, pc) =>
         /\ job'[c].pc = pc /\ job'[c].sent = FALSE /\ job'[c].draft = job[c].draft
         /\ \A e \in Coroutines : e # c => job'[e] = job[e]
  BY <1>1, ResumeEffect
<1>5. Finish(c) =>
         /\ job'[c].pc \in {"answer", "done"} /\ job'[c].draft = job[c].draft
         /\ \A e \in Coroutines : e # c => job'[e] = job[e]
  BY <1>4 DEF Finish
<1>6. CASE DeliverReviewPhoto(c) \/ DeliverKeyboard(c) \/ DeliverChannelPhoto(c)
  <2>1. Delivered(c) /\ job[c].pc # "channel_text" /\ UNCHANGED copies
    BY <1>6 DEF DeliverReviewPhoto, DeliverKeyboard, DeliverChannelPhoto, Pending, botVars
  <2> QED
    BY <1>1, <1>2, <1>3, <2>1 DEF Awaited, BotCalls, ChannelCalls, ReviewCalls
<1>7. CASE DeliverChannelText(c)
  <2>1. /\ Delivered(c) /\ job[c].pc = "channel_text" /\ ~job[c].sent
        /\ copies' = [copies EXCEPT ![PostOf(c)] = @ + 1]
    BY <1>7 DEF DeliverChannelText, Pending
  <2> QED
    BY <1>1, <1>2, <1>3, <2>1 DEF Awaited
<1>8. CASE PhotoReplied(c)
  <2>1. /\ \/ job[c].pc = "channel_photo" /\ job'[c].pc = "channel_text"
           \/ job'[c].pc = "review_keyboard"
        /\ job'[c].draft = job[c].draft /\ UNCHANGED copies
        /\ \A e \in Coroutines : e # c => job'[e] = job[e]
    BY <1>4, <1>8 DEF PhotoReplied, Replied, botVars, BotCalls, ChannelCalls, ReviewCalls
  <2> QED
    BY <1>1, <1>2, <2>1 DEF Awaited
<1>9. CASE PublishReplied(c) \/ KeyboardReplied(c) \/ PublishRaised(c) \/ ReviewRaised(c)
  <2>1. Finish(c) /\ UNCHANGED copies
    BY <1>9 DEF PublishReplied, KeyboardReplied, PublishRaised, ReviewRaised, botVars
  <2> QED
    BY <1>1, <1>2, <1>5, <2>1 DEF Awaited
<1> QED
  BY <1>6, <1>7, <1>8, <1>9 DEF CallStep

LEMMA CopiesCallStep ==
    ASSUME StructInv, PublishInv, CopiesInv, NEW c \in Coroutines, CallStep(c)
    PROVE  CopiesInv'
<1>1. /\ job[c].pc \in BotCalls /\ job'[c].pc \notin {"idle", "dead"}
      /\ job'[c].draft = job[c].draft /\ (Awaited(c)' => Awaited(c))
      /\ \A e \in Coroutines : e # c => job'[e] = job[e]
      /\ UNCHANGED <<pollVars, crashes, updates, Current>>
  BY CallMoves
<1>2. PostOf(c) \in Posts /\ copies \in [Posts -> Nat]
  BY <1>1, WorkedPost DEF StructInv, TypeOK
<1>3. CASE c = Poller
  <2>1. \A q \in Posts : job'[q] = job[q]
    BY <1>1, <1>3, PollerIsNoPost
  <2>2. job[Poller].pc \notin {"idle", "dead"} /\ job'[Poller].pc \notin {"idle", "dead"}
    BY <1>1, <1>3 DEF BotCalls, ChannelCalls, ReviewCalls
  <2>3. \A i \in DOMAIN updates : ToExecute(i)' => ToExecute(i)
    BY <1>1, <1>3, <2>2 DEF ToExecute
  <2>4. \A q \in Posts : PendingPresses(q)' \subseteq PendingPresses(q)
    BY <1>1, <2>2, <2>3, PendingShrinks
  <2>5. \A q \in Posts : copies'[q] = copies[q] => CopiesCounted(q)'
    BY <1>1, <2>1, <2>4, CopiesPolled DEF CopiesInv
  <2>6. CASE UNCHANGED copies
    BY <2>5, <2>6 DEF CopiesInv
  <2>7. CASE /\ Awaited(c) /\ ~Awaited(c)' /\ job[c].pc = "channel_text"
             /\ copies' = [copies EXCEPT ![PostOf(c)] = @ + 1]
    <3>1. PICK m \in Posts : m = PostOf(c)
      BY <1>2
    <3>2. copies'[m] = copies[m] + 1 /\ \A q \in Posts : q # m => copies'[q] = copies[q]
      BY <1>2, <2>7, <3>1
    <3>3. /\ Current \in DOMAIN updates /\ updates[Current].post = m
          /\ updates[Current].from = Owner /\ updates[Current].action = "publish"
      BY <1>1, <1>3, <2>7, <3>1, CurrentUpdate, PollerIsNoPost
         DEF PublishInv, Publishing, Licensed, ChannelCalls, PostOf, StructInv, PollInv
    <3>4. Current \in PendingPresses(m)
      BY <1>3, <2>2, <2>7, <3>3 DEF PendingPresses, OwnerPresses, ToExecute
    <3>5. Current \in Nat
      BY TurnBound
    <3>6. Current' = Current /\ ~(Current > Current)
      BY <1>1, <3>5
    <3>7. \A i \in PendingPresses(m)' : i # Current
      BY <1>3, <2>2, <2>7, <3>6 DEF PendingPresses, ToExecute
    <3>8. (AutoPosted(m)' <=> AutoPosted(m)) /\ (Awaited(m)' <=> Awaited(m))
      BY <2>1 DEF AutoPosted, Awaited
    <3>9. CopiesCounted(m)'
      BY <1>1, <2>4, <3>2, <3>4, <3>7, <3>8, CopySent DEF CopiesInv
    <3> QED
      BY <2>5, <3>2, <3>9 DEF CopiesInv
  <2> QED
    BY <2>6, <2>7, CallMoves
<1>4. CASE c # Poller
  <2>1. c \in Posts /\ PostOf(c) = c /\ job'[Poller] = job[Poller]
        /\ \A q \in Posts : q # c => job'[q] = job[q]
    BY <1>1, <1>4, PollerIsNoPost DEF Coroutines, PostOf
  <2>2. \A q \in Posts : (AutoPosted(q)' <=> AutoPosted(q)) /\ (Awaited(q)' => Awaited(q))
    BY <1>1, <2>1 DEF AutoPosted, Awaited
  <2>3. \A q \in Posts : copies'[q] = copies[q] => CopiesCounted(q)'
    BY <1>1, <2>1, <2>2, CopiesElsewhere DEF CopiesInv
  <2>4. CASE UNCHANGED copies
    BY <2>3, <2>4 DEF CopiesInv
  <2>5. CASE /\ Awaited(c) /\ ~Awaited(c)' /\ job[c].pc = "channel_text"
             /\ copies' = [copies EXCEPT ![PostOf(c)] = @ + 1]
    <3>1. copies'[c] = copies[c] + 1 /\ \A q \in Posts : q # c => copies'[q] = copies[q]
      BY <1>2, <2>1, <2>5
    <3>2. \A i \in DOMAIN updates : ToExecute(i)' => ToExecute(i)
      BY <1>1, <2>1 DEF ToExecute, Awaited
    <3>3. PendingPresses(c)' \subseteq PendingPresses(c)
      BY <1>1, <2>1, <3>2, PendingShrinks
    <3>4. CopiesCounted(c)'
      BY <1>1, <2>1, <2>2, <2>5, <3>1, <3>3, CopySent DEF CopiesInv
    <3> QED
      BY <2>3, <3>1, <3>4 DEF CopiesInv
  <2> QED
    BY <2>4, <2>5, CallMoves
<1> QED
  BY <1>3, <1>4

LEMMA CopiesNewPress ==
    ASSUME StructInv, CopiesInv, NEW u \in Users, NEW k \in shown, NEW a \in Actions, Press(u, k, a)
    PROVE  CopiesInv'
<1> DEFINE press == [from |-> u, action |-> a, post |-> k.post, ver |-> k.ver]
<1>1. k.post \in Posts /\ k.ver \in Nat \ {0}
  BY DEF StructInv, TypeOK
<1>2. updates \in Seq(Update) /\ updates' = Append(updates, press) /\ press \in Update
  BY <1>1 DEF StructInv, TypeOK, Press, Update
<1> HIDE DEF press
<1>3. PICK n \in Nat : n = Len(updates) + 1
  BY <1>2
<1>4. /\ DOMAIN updates = 1 .. Len(updates) /\ DOMAIN updates' = DOMAIN updates \cup {n}
      /\ \A i \in DOMAIN updates : updates'[i] = updates[i] /\ i # n
  BY <1>2, <1>3
<1>5. UNCHANGED <<job, acked, offset, last, copies, crashes>>
  BY DEF Press, botVars
<1>6. \A i \in Nat : ToExecute(i)' <=> ToExecute(i)
  BY <1>5 DEF ToExecute, Current, Awaited
<1>7. ASSUME NEW p \in Posts PROVE CopiesCounted(p)'
  <2>1. OwnerPresses(p)' = OwnerPresses(p) \/ OwnerPresses(p)' = OwnerPresses(p) \cup {n}
    BY <1>4 DEF OwnerPresses
  <2>2. ASSUME NEW i \in PendingPresses(p)', i # n PROVE i \in PendingPresses(p)
    <3>1. i \in OwnerPresses(p) /\ i \in DOMAIN updates
      BY <2>1, <2>2 DEF PendingPresses, OwnerPresses
    <3>2. i \in Nat
      BY <1>4, <3>1
    <3> QED
      BY <1>5, <1>6, <2>2, <3>1, <3>2 DEF PendingPresses
  <2>3. PendingPresses(p)' \subseteq OwnerPresses(p)'
    BY DEF PendingPresses
  <2>4. n \notin OwnerPresses(p)
    BY <1>4 DEF OwnerPresses
  <2>5. CASE OwnerPresses(p)' = OwnerPresses(p)
    <3>1. PendingPresses(p)' \subseteq PendingPresses(p)
      BY <2>2, <2>3, <2>4, <2>5
    <3> QED
      BY <1>5, <2>5, <3>1, CopiesPress DEF CopiesInv
  <2>6. CASE OwnerPresses(p)' = OwnerPresses(p) \cup {n}
    <3>1. PendingPresses(p)' \subseteq PendingPresses(p) \cup {Len(updates) + 1}
      BY <1>3, <2>2
    <3> QED
      BY <1>3, <1>5, <2>6, <3>1, CopiesPress DEF CopiesInv
  <2> QED
    BY <2>1, <2>5, <2>6
<1> QED
  BY <1>7 DEF CopiesInv

LEMMA CopiesStep == IndInv /\ CopiesInv /\ [Next]_vars => CopiesInv'
<1> SUFFICES ASSUME IndInv, CopiesInv, [Next]_vars PROVE CopiesInv'
  OBVIOUS
<1>1. StructInv /\ PublishInv /\ job \in [Coroutines -> Job]
  BY DEF IndInv, SafetyInv, StructInv, TypeOK
<1>2. /\ Current \in Nat \ {0} /\ acked \in Nat /\ offset \in Nat
      /\ \A i \in DOMAIN updates : i \in Nat
  BY <1>1, TurnBound DEF StructInv, TypeOK
\* Enough for a step of the poller that sends nothing.
<1>3. ASSUME UNCHANGED <<updates, crashes, copies>>, \A q \in Posts : job'[q] = job[q],
             job'[Poller].pc # "dead" =>
                 /\ job[Poller].pc # "dead"
                 /\ \A i \in DOMAIN updates : ToExecute(i)' => ToExecute(i)
      PROVE  CopiesInv'
  BY <1>1, <1>3, PendingShrinks, CopiesPolled DEF CopiesInv
<1>4. CASE PollFetch
  <2>1. UNCHANGED <<updates, crashes, copies, job>> /\ Current' = Current
    BY <1>2, <1>4 DEF PollFetch, botVars, Current, Confirmed
  <2> QED
    BY <1>3, <2>1 DEF ToExecute, Awaited
<1>5. CASE FetchRaised
  <2>1. job'[Poller].pc = "dead" /\ \A q \in Posts : job'[q] = job[q]
    BY <1>1, <1>5, PollerIsNoPost DEF FetchRaised, Resume, Await
  <2> QED
    BY <1>3, <1>5, <2>1 DEF FetchRaised, botVars
<1>6. CASE AnswerCallback
  <2>1. job[Poller].pc = "answer" /\ job'[Poller].pc = "idle" /\ \A q \in Posts : job'[q] = job[q]
    BY <1>1, <1>6, PollerIsNoPost DEF AnswerCallback, Await
  <2>2. Current' = Current + 1
    BY <1>2, <1>6 DEF AnswerCallback, Current
  <2>3. ASSUME NEW i \in DOMAIN updates, ToExecute(i)' PROVE ToExecute(i)
    <3>1. i > Current + 1 \/ i = Current + 1
      BY <2>2, <2>3 DEF ToExecute
    <3>2. i > Current
      BY <1>2, <3>1
    <3> QED
      BY <3>2 DEF ToExecute
  <2> QED
    BY <1>3, <1>6, <2>1, <2>3 DEF AnswerCallback, botVars
<1>7. CASE HandleUpdate
  <2>1. job[Poller].pc = "idle" /\ \A q \in Posts : job'[q] = job[q]
    BY <1>1, <1>7, HandlerEffect DEF TakesUpdate
  <2>2. UNCHANGED <<updates, crashes, copies, Current>>
    BY <1>7 DEF HandleUpdate, HandleForeign, HandlePublish, HandleRewrite, HandleImage,
       HandleReject, botVars, pollVars, Current
  <2>3. \A i \in DOMAIN updates : ToExecute(i)' => ToExecute(i)
    BY <2>1, <2>2 DEF ToExecute
  <2> QED
    BY <1>3, <2>1, <2>2, <2>3
<1>8. CASE Crash
  <2>1. /\ UNCHANGED <<updates, copies>> /\ crashes' = crashes + 1
        /\ \A q \in Posts : job'[q].draft = job[q].draft
        /\ \A q \in Posts : job'[q] = job[q] \/ job'[q].pc = "done"
    BY <1>8, PollerIsNoPost DEF Crash, botVars
  <2>2. ASSUME NEW q \in Posts PROVE CopiesCounted(q)'
    <3>1. (AutoPosted(q)' <=> AutoPosted(q)) /\ (Awaited(q)' => Awaited(q))
      BY <2>1 DEF AutoPosted, Awaited
    <3>2. PendingPresses(q)' \subseteq OwnerPresses(q)
      BY <2>1 DEF PendingPresses, OwnerPresses
    <3> QED
      BY <1>1, <2>1, <3>1, <3>2, CopiesCrash DEF CopiesInv
  <2> QED
    BY <2>2 DEF CopiesInv
<1>9. CASE UNCHANGED vars
  <2>1. UNCHANGED <<updates, crashes, copies, job, Current>>
    BY <1>9 DEF vars, botVars, pollVars, Current
  <2> QED
    BY <1>3, <2>1 DEF ToExecute, Awaited
<1> QED
  BY <1>1, <1>4, <1>5, <1>6, <1>7, <1>8, <1>9, CopiesCreatePost, CopiesNewPress,
     CopiesCallStep DEF Next

\* A post's text goes out at most once for each publish press of the owner
\* and each run of the process, plus once on its own, whatever fails when.
THEOREM RepetitionIsBounded == Spec => []CopiesBounded
<1>1. Init => CopiesInv
  <2> SUFFICES ASSUME Init, NEW p \in Posts PROVE CopiesCounted(p)
    BY DEF CopiesInv
  <2>1. OwnerPresses(p) = {} /\ PendingPresses(p) = {} /\ copies[p] = 0 /\ crashes = 0
    BY DEF Init, OwnerPresses, PendingPresses
  <2>2. ~AutoPosted(p) /\ ~Awaited(p)
    BY PollerIsNoPost DEF Init, AutoPosted, Awaited, IdleJob
  <2>3. Cardinality({}) = 0
    BY FS_EmptySet
  <2> QED
    BY <2>1, <2>2, <2>3 DEF CopiesCounted, One
<1>2. StructInv /\ CopiesInv => CopiesBounded
  <2> SUFFICES ASSUME StructInv, NEW p \in Posts, CopiesCounted(p)
               PROVE  copies[p] <= (1 + crashes) * Cardinality(OwnerPresses(p)) + One(AutoPosted(p))
    BY DEF CopiesInv, CopiesBounded, One
  <2>1. PICK n \in Nat, c \in Nat, k \in Nat : n = Len(updates) /\ c = crashes /\ k = copies[p]
    BY CountTypes
  <2>2. PICK P \in SUBSET (1 .. n) : P = OwnerPresses(p)
    BY <2>1, CountTypes
  <2>3. PICK Q \in SUBSET P : Q = PendingPresses(p)
    BY <2>2, CountTypes
  <2>4. Cardinality(P) \in Nat /\ Cardinality(Q) \in Nat
    BY FinitePart
  <2>5. PICK m \in Nat : m = (1 + c) * Cardinality(P)
    BY <2>4, MoreRuns
  <2>6. PICK b \in {0, 1}, d \in {0, 1} : b = One(AutoPosted(p)) /\ d = One(Awaited(p))
    BY DEF One
  <2>7. k + Cardinality(Q) + d <= m + b
    BY <2>1, <2>2, <2>3, <2>5, <2>6 DEF CopiesCounted
  <2>8. k <= m + b
    BY <2>4, <2>6, <2>7
  <2> QED
    BY <2>1, <2>2, <2>5, <2>6, <2>8
<1>3. IndInv => StructInv
  BY DEF IndInv
<1> QED
  BY <1>1, <1>2, <1>3, Inductive, CopiesStep, PTL DEF Spec
=============================================================================
