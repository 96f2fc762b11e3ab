----------------------------- MODULE VoiceCommands -----------------------------
(***************************************************************************)
(* Spoken commands and their approval: the Apple client                    *)
(* (VoiceSessionViewModel, VoiceRecognizer, RemoteCommandClient) and the    *)
(* command endpoint that serves it (main.command, MemoryCommandExecutor).   *)
(*                                                                         *)
(* The view model runs on the main actor: what it does between two awaits   *)
(* is one step, and the task a tap starts runs before the next tap.  It     *)
(* awaits the permissions of the microphone and the answer of a request;    *)
(* the recognizer calls back through tasks of their own.  The endpoint runs *)
(* in a thread per request and goes on when the client has given up.        *)
(***************************************************************************)
EXTENDS Naturals, FiniteSets

CONSTANTS
    Devices,
    Commands,     \* what can be recognised
    Matters,
    None,
    Says,         \* the words of each command that the memory router looks at
    Target,       \* the id of a memory each command names, if it is to forget one
    Score,        \* of each command against each matter
    CallsMayFail, \* requests time out or are lost, the providers raise
    MaxStarts,    \* bound: taps waiting for the permissions
    MaxCallbacks, \* bound: callbacks of a recognizer that have not run
    MaxSends      \* bound: requests of each device

ASSUME NoneAssumption == None \notin Commands /\ None \notin Matters
ASSUME WordsAssumption ==
    Says \in [Commands -> [starts : {"remember", "forget", "other"}, more : BOOLEAN, recalls : BOOLEAN]]
ASSUME TargetAssumption == Target \in [Commands -> Nat]
ASSUME ScoreAssumption == Score \in [Commands -> [Matters -> Nat]]
ASSUME BoundAssumption ==
    {MaxStarts, MaxCallbacks, MaxSends} \subseteq Nat /\ CallsMayFail \in BOOLEAN /\ "error" \notin Commands

VARIABLES
    client,      \* the published state of each view model
    recognizer,  \* the recognizer of each device
    sent,        \* requests each device has made
    calls,       \* requests the endpoint has not answered or lost
    memory,      \* the long-term memories
    minted,      \* ids given to memories
    matters,     \* the matter catalogue
    proposed,    \* history: what each device was asked to approve
    confirmed,   \* history: the requests a tap on the confirm button made
    effects      \* history: the requests that changed the memory

server == <<memory, minted, matters, proposed, effects>>
vars == <<client, recognizer, sent, calls, server, confirmed>>

-----------------------------------------------------------------------------
\* screen: transcript; pending: pendingCommand; awaiting: the number of the
\* request whose answer send awaits, 0 if not isSending.
ClientState ==
    [screen : Commands \cup {None}, listening : BOOLEAN, approvalRequired : BOOLEAN,
     pending : Commands \cup {None}, awaiting : Nat]
\* on: isListening; starts: start() calls that await the permissions; callbacks:
\* tasks of the recognition handler that have not run.
RecognizerState ==
    [on : BOOLEAN, transcript : Commands \cup {None}, starts : Nat,
     callbacks : SUBSET (Commands \cup {"error"})]
Call ==
    [dev : Devices, n : Nat, command : Commands, approved : BOOLEAN,
     pc : {"sent", "search", "embed", "write", "answered"}, matter : Matters \cup {None},
     reply : {"none", "done", "approve", "error"}]
Memory == [id : Nat, command : Commands, matter : Matters \cup {None}]
Request == [dev : Devices, n : Nat, command : Commands]
RequestOf(k) == [dev |-> k.dev, n |-> k.n, command |-> k.command]

Init ==
    /\ client = [d \in Devices |-> [screen |-> None, listening |-> FALSE, approvalRequired |-> FALSE,
                                    pending |-> None, awaiting |-> 0]]
    /\ recognizer = [d \in Devices |-> [on |-> FALSE, transcript |-> None, starts |-> 0, callbacks |-> {}]]
    /\ sent = [d \in Devices |-> 0]
    /\ calls = {} /\ memory = {} /\ minted = 0
    /\ matters \in SUBSET Matters
    /\ proposed = {} /\ confirmed = {} /\ effects = {}

IsSending(d) == client[d].awaiting # 0

-----------------------------------------------------------------------------
(* Listening *)

\* ContentView offers the voice button while nothing waits for approval, and
\* disables it while a request is being answered.
VoiceButton(d) == ~client[d].approvalRequired /\ ~IsSending(d)

Start(d) ==
    /\ VoiceButton(d) /\ ~client[d].listening
    /\ recognizer[d].starts < MaxStarts
    /\ recognizer' = [recognizer EXCEPT ![d].starts = @ + 1]
    /\ UNCHANGED <<client, sent, calls, server, confirmed>>

\* The permissions are there, or refused; VoiceRecognizer.start returns at once
\* when it is listening already, and may throw.
Permitted(d) ==
    LET waiting == [recognizer EXCEPT ![d].starts = @ - 1]
    IN  /\ recognizer[d].starts > 0
        /\ \/ /\ recognizer[d].on
              /\ recognizer' = waiting
              /\ client' = [client EXCEPT ![d].listening = TRUE]
           \/ /\ ~recognizer[d].on
              /\ recognizer' = [waiting EXCEPT ![d].on = TRUE, ![d].transcript = None]
              /\ client' = [client EXCEPT ![d].listening = TRUE]
           \/ recognizer' = waiting /\ UNCHANGED client
           \/ /\ ~recognizer[d].on
              /\ recognizer' = [waiting EXCEPT ![d].transcript = None]
              /\ UNCHANGED client
        /\ UNCHANGED <<sent, calls, server, confirmed>>

\* The recognition handler is called with a transcription or an error.
Recognize(d) ==
    /\ recognizer[d].on /\ Cardinality(recognizer[d].callbacks) < MaxCallbacks
    /\ \E c \in Commands \cup {"error"} :
         recognizer' = [recognizer EXCEPT ![d].callbacks = @ \cup {c}]
    /\ UNCHANGED <<client, sent, calls, server, confirmed>>

\* VoiceRecognizer.stop: cancelling the task makes its handler be called.
Stopped(r) ==
    [r EXCEPT !.on = FALSE, !.callbacks = IF r.on THEN @ \cup {"error"} ELSE @]

\* A task of the handler runs, however late: it does not know its session.
Callback(d) ==
    /\ \E c \in recognizer[d].callbacks :
         LET rest == [recognizer[d] EXCEPT !.callbacks = @ \ {c}]
         IN  recognizer' = [recognizer EXCEPT ![d] =
               IF c = "error" THEN Stopped(rest) ELSE [rest EXCEPT !.transcript = c]]
    /\ UNCHANGED <<client, sent, calls, server, confirmed>>

-----------------------------------------------------------------------------
(* Sending *)

\* send, up to its await; does nothing while another request is awaited.
NewCall(d, c, approved) ==
    [dev |-> d, n |-> sent[d] + 1, command |-> c, approved |-> approved, pc |-> "sent",
     matter |-> None, reply |-> "none"]
Send(d, c, approved) ==
    /\ sent[d] < MaxSends
    /\ sent' = [sent EXCEPT ![d] = @ + 1]
    /\ calls' = calls \cup {NewCall(d, c, approved)}

\* Mutant: the recognizer is left running.
StopAndSendListening(d) ==
    /\ VoiceButton(d) /\ client[d].listening /\ recognizer[d].transcript = None
    /\ client' = [client EXCEPT ![d].screen = None, ![d].listening = FALSE]
    /\ UNCHANGED <<recognizer, sent, calls, server, confirmed>>

StopAndSend(d) ==
    LET c == recognizer[d].transcript
        shown == [client[d] EXCEPT !.listening = FALSE, !.screen = c]
    IN  /\ VoiceButton(d) /\ client[d].listening
        /\ recognizer' = [recognizer EXCEPT ![d] = Stopped(@)]
        /\ \/ /\ c = None
              /\ client' = [client EXCEPT ![d] = shown]
              /\ UNCHANGED <<sent, calls>>
           \/ /\ c # None
              /\ Send(d, c, FALSE)
              /\ client' = [client EXCEPT ![d] = [shown EXCEPT !.awaiting = sent[d] + 1]]
        /\ UNCHANGED <<server, confirmed>>

\* The two buttons of a pending approval.
ConfirmPendingCommand(d) ==
    LET c == client[d].pending
    IN  /\ client[d].approvalRequired /\ c # None /\ ~IsSending(d)
        /\ Send(d, c, TRUE)
        /\ client' = [client EXCEPT ![d].awaiting = sent[d] + 1]
        /\ confirmed' = confirmed \cup {[dev |-> d, n |-> sent[d] + 1, command |-> c]}
        /\ UNCHANGED <<recognizer, server>>

CancelPendingCommand(d) ==
    /\ client[d].approvalRequired
    /\ client' = [client EXCEPT ![d].pending = None, ![d].approvalRequired = FALSE]
    /\ UNCHANGED <<recognizer, sent, calls, server, confirmed>>

-----------------------------------------------------------------------------
(* The endpoint *)

\* NaturalLanguageMemoryRouter: a note starts with its prefix, and so does a
\* deletion; a question may contain its marker anywhere.  A prefix with nothing
\* after it is answered with a question back, and does nothing.
Intent ==
    [c \in Commands |->
        IF Says[c].starts # "other" THEN IF Says[c].more THEN Says[c].starts ELSE "incomplete"
        ELSE IF Says[c].recalls THEN "recall" ELSE "other"]

\* PersistentMatterCatalog.resolve_reference: the best match, if it is the only
\* one and good enough.
Scored(c) == {m \in matters : Score[c][m] > 0}
Best(c) == {m \in Scored(c) : \A other \in Scored(c) : Score[c][other] <= Score[c][m]}
Clear(c) == \E m \in Best(c) : Best(c) = {m} /\ Score[c][m] >= 20
Ambiguous(c) == Scored(c) # {} /\ ~Clear(c)
Resolved(c) == IF Clear(c) THEN CHOOSE m \in Best(c) : TRUE ELSE None

Becomes(k, then) == calls' = (calls \ {k}) \cup {then}
Reply(k, reply) == Becomes(k, [k EXCEPT !.pc = "answered", !.reply = reply])

\* An unapproved change of the memory is described and not made.
Propose(k) ==
    /\ ~k.approved /\ Intent[k.command] \in {"remember", "forget"}
    /\ Reply(k, "approve")
    /\ proposed' = proposed \cup {[dev |-> k.dev, command |-> k.command]}

\* Mutant: the memory is changed whether or not that was approved.
PerformUnapproved(k) ==
    \/ Intent[k.command] = "remember" /\ Becomes(k, [k EXCEPT !.pc = "embed", !.matter = Resolved(k.command)])
    \/ Intent[k.command] = "forget" /\ Becomes(k, [k EXCEPT !.pc = "write"])
Perform(k) ==
    /\ k.approved
    /\ \/ Intent[k.command] = "remember" /\ Becomes(k, [k EXCEPT !.pc = "embed", !.matter = Resolved(k.command)])
       \/ Intent[k.command] = "forget" /\ Becomes(k, [k EXCEPT !.pc = "write"])

\* A question to the memory needs no approval.
Recall(k) ==
    /\ Intent[k.command] = "recall"
    /\ Becomes(k, [k EXCEPT !.pc = "search", !.matter = Resolved(k.command)])

\* Routing.  The intents that change nothing are answered, most failures of
\* theirs included; the rest, and a catalogue that raises, is an error status.
Receive(k) ==
    /\ k.pc = "sent"
    /\ \/ CallsMayFail /\ Reply(k, "error") /\ UNCHANGED proposed
       \/ /\ Intent[k.command] \in {"incomplete", "other"} \/ Ambiguous(k.command)
          /\ Reply(k, "done") /\ UNCHANGED proposed
       \/ /\ ~Ambiguous(k.command)
          /\ Propose(k) \/ ((Recall(k) \/ Perform(k)) /\ UNCHANGED proposed)
    /\ UNCHANGED <<client, recognizer, sent, memory, minted, matters, effects, confirmed>>

\* LongTermMemoryService.recall embeds the question and searches the memories; a
\* row of another owner or matter is an error, and errors are as in Write.
Search(k) ==
    /\ k.pc = "search"
    /\ \/ Reply(k, "done")
       \/ CallsMayFail /\ Reply(k, "error")
    /\ UNCHANGED <<client, recognizer, sent, server, confirmed>>

\* LongTermMemoryService.remember asks for an embedding first.
Embed(k) ==
    /\ k.pc = "embed"
    /\ \/ Becomes(k, [k EXCEPT !.pc = "write"])
       \/ CallsMayFail /\ \E reply \in {"done", "error"} : Reply(k, reply)
    /\ UNCHANGED <<client, recognizer, sent, server, confirmed>>

Effect(k) ==
    /\ effects' = effects \cup {RequestOf(k)}
    /\ \/ /\ Intent[k.command] = "remember"
          /\ memory' = memory \cup {[id |-> minted, command |-> k.command, matter |-> k.matter]}
          /\ minted' = minted + 1
       \/ /\ Intent[k.command] = "forget"
          /\ memory' = {r \in memory : r.id # Target[k.command]}
          /\ UNCHANGED minted

\* Mutant: a write that raises is tried again, executed or not.
WriteRepeated(k) ==
    /\ k.pc = "write"
    /\ \/ Effect(k) /\ Reply(k, "done")
       \/ CallsMayFail /\ Effect(k) /\ UNCHANGED calls
    /\ UNCHANGED <<client, recognizer, sent, matters, proposed, confirmed>>

\* The insert or the delete; a ValueError or RuntimeError is answered, any
\* other exception is an error status.  What raises may have been executed.
Write(k) ==
    /\ k.pc = "write"
    /\ \/ Effect(k) /\ Reply(k, "done")
       \/ /\ CallsMayFail
          /\ Effect(k) \/ UNCHANGED <<effects, memory, minted>>
          /\ \E reply \in {"done", "error"} : Reply(k, reply)
    /\ UNCHANGED <<client, recognizer, sent, matters, proposed, confirmed>>

-----------------------------------------------------------------------------
(* The answer *)

\* Mutant: an answer the view model does not await any more is applied.
AnswerLate(k) ==
    /\ k.pc = "answered" /\ calls' = calls \ {k}
    /\ client' = [client EXCEPT ![k.dev] =
         [@ EXCEPT !.awaiting = 0, !.approvalRequired = (k.reply = "approve"),
                   !.pending = IF k.reply = "approve" THEN k.command ELSE None]]
    /\ UNCHANGED <<recognizer, sent, server, confirmed>>

\* send, after its await; an error status is thrown and leaves what waits for
\* approval alone.  An answer nobody awaits is dropped with its connection.
Answer(k) ==
    LET d == k.dev
        idle == [client[d] EXCEPT !.awaiting = 0]
    IN  /\ k.pc = "answered"
        /\ calls' = calls \ {k}
        /\ \/ client[d].awaiting # k.n /\ UNCHANGED client
           \/ /\ client[d].awaiting = k.n /\ k.reply = "error"
              /\ client' = [client EXCEPT ![d] = idle]
           \/ /\ client[d].awaiting = k.n /\ k.reply = "approve"
              /\ client' = [client EXCEPT ![d] =
                   [idle EXCEPT !.approvalRequired = TRUE, !.pending = k.command]]
           \/ /\ client[d].awaiting = k.n /\ k.reply = "done"
              /\ client' = [client EXCEPT ![d] =
                   [idle EXCEPT !.approvalRequired = FALSE, !.pending = None]]
        /\ UNCHANGED <<recognizer, sent, server, confirmed>>

\* timeoutInterval, or a connection that breaks: the endpoint may go on.
TimeOut(d) ==
    /\ CallsMayFail /\ IsSending(d)
    /\ client' = [client EXCEPT ![d].awaiting = 0]
    /\ UNCHANGED <<recognizer, sent, calls, server, confirmed>>

\* A request that never arrives.
Lose(k) ==
    /\ CallsMayFail /\ k.pc = "sent"
    /\ calls' = calls \ {k}
    /\ UNCHANGED <<client, recognizer, sent, server, confirmed>>

\* POST /v1/matters, by anybody.
CreateMatter(m) ==
    /\ m \notin matters
    /\ matters' = matters \cup {m}
    /\ UNCHANGED <<client, recognizer, sent, calls, memory, minted, proposed, effects, confirmed>>

DeviceStep(d) ==
    \/ Start(d) \/ Permitted(d) \/ Recognize(d) \/ Callback(d) \/ StopAndSend(d)
    \/ ConfirmPendingCommand(d) \/ CancelPendingCommand(d) \/ TimeOut(d)
CallStep(k) == Receive(k) \/ Search(k) \/ Embed(k) \/ Write(k) \/ Answer(k) \/ Lose(k)
Next ==
    \/ \E d \in Devices : DeviceStep(d)
    \/ \E k \in calls : CallStep(k)
    \/ \E m \in Matters : CreateMatter(m)

Spec == Init /\ [][Next]_vars

-----------------------------------------------------------------------------
(* Properties *)

TypeOK ==
    /\ client \in [Devices -> ClientState]
    /\ recognizer \in [Devices -> RecognizerState]
    /\ sent \in [Devices -> Nat]
    /\ calls \subseteq Call /\ memory \subseteq Memory /\ minted \in Nat
    /\ matters \subseteq Matters
    /\ proposed \subseteq [dev : Devices, command : Commands]
    /\ confirmed \subseteq Request /\ effects \subseteq Request

\* What changes the memory is a request that a tap on the confirm button made,
\* for a command that the endpoint had described to that device before: no
\* timeout, repetition or second device gets around "approval first".
OnlyConfirmed ==
    \A e \in effects :
        /\ e \in confirmed
        /\ [dev |-> e.dev, command |-> e.command] \in proposed

\* The confirm button is there exactly when there is something to confirm, and
\* what it would confirm is the command the screen shows, although answers come
\* late and the recognizer's callbacks belong to any session.
PendingIsShown ==
    \A d \in Devices :
        /\ client[d].approvalRequired <=> client[d].pending # None
        /\ client[d].pending # None => client[d].pending = client[d].screen

\* The microphone is never on while the view model reports it off, however many
\* start() calls were waiting for the permissions.
MicrophoneIsShown == \A d \in Devices : recognizer[d].on => client[d].listening

-----------------------------------------------------------------------------
(* The inductive strengthening the proofs rest on. *)

\* An approved request was confirmed and proposed; the one that is awaited is
\* about the command on the screen.
CallInv(k) ==
    /\ 0 < k.n /\ k.n <= sent[k.dev]
    /\ k.approved => RequestOf(k) \in confirmed
    /\ k.pc \in {"embed", "write"} => k.approved
    /\ k.approved \/ k.reply = "approve" => [dev |-> k.dev, command |-> k.command] \in proposed
    /\ k.n = client[k.dev].awaiting => k.command = client[k.dev].screen
ClientInv(d) ==
    /\ client[d].awaiting <= sent[d]
    /\ client[d].pending # None => [dev |-> d, command |-> client[d].pending] \in proposed
SafetyInv ==
    /\ OnlyConfirmed /\ PendingIsShown /\ MicrophoneIsShown
    /\ \A k \in calls : CallInv(k)
    /\ \A d \in Devices : ClientInv(d)

\* A number is used once, a request that is not answered has changed nothing
\* yet, ids are not given again, and what a call is filed under it names.
OnceInv ==
    /\ \A d \in Devices : sent[d] <= MaxSends
    /\ \A r \in confirmed : r.n <= sent[r.dev]
    /\ \A j, k \in calls : j.dev = k.dev /\ j.n = k.n => j = k
    /\ \A k \in calls : k.pc # "answered" => RequestOf(k) \notin effects
    /\ \A k \in calls : k.matter # None => Score[k.command][k.matter] >= 20
    /\ \A row \in memory : row.id < minted

-----------------------------------------------------------------------------
(* Refinement *)

\* Device, endpoint and store together implement the approval of commands:
\* timeouts, lost answers and repeated taps never change the memory twice for
\* one confirmation, and a matter that appears between the description and the
\* confirmation files a note only where its words fit
\* (VoiceSessionViewModel.confirmPendingCommand, MemoryCommandExecutor.execute).
Approval == INSTANCE CommandApproval WITH
    Requests <- [dev : Devices, n : 1..MaxSends, command : Commands],
    Notes <- {c \in Commands : Intent[c] = "remember"},
    Fits <- {p \in Commands \X (Matters \cup {None}) : p[2] # None => Score[p[1]][p[2]] >= 20}
ApprovalSpec == Approval!Spec
=============================================================================
