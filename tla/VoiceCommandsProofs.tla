-------------------------- MODULE VoiceCommandsProofs --------------------------
(***************************************************************************)
(* Theorems about VoiceCommands, for any devices, commands, matters and     *)
(* bounds.  TypeOK is inductive by itself; the safety properties are proved *)
(* together from SafetyInv.                                                 *)
(***************************************************************************)
EXTENDS VoiceCommands, TLAPS

-----------------------------------------------------------------------------
(* Types *)

LEMMA StoppedType ==
    ASSUME NEW r \in RecognizerState
    PROVE  /\ Stopped(r) \in RecognizerState
           /\ ~Stopped(r).on
BY DEF Stopped, RecognizerState

LEMMA ResolvedType ==
    ASSUME TypeOK, NEW c \in Commands
    PROVE  Resolved(c) \in Matters \cup {None}
<1>1. CASE Clear(c)
  <2>1. PICK m \in Best(c) : Best(c) = {m}
    BY <1>1 DEF Clear
  <2> QED
    BY <1>1, <2>1 DEF Resolved, Best, Scored, TypeOK
<1> QED
  BY <1>1 DEF Resolved

\* A new request is well formed.
LEMMA NewCallType ==
    ASSUME TypeOK, NEW d \in Devices, NEW c \in Commands, NEW approved \in BOOLEAN
    PROVE  NewCall(d, c, approved) \in Call
BY DEF NewCall, Call, TypeOK

LEMMA SendType ==
    ASSUME TypeOK, NEW d \in Devices, NEW c \in Commands, NEW approved \in BOOLEAN,
           Send(d, c, approved)
    PROVE  sent' \in [Devices -> Nat] /\ calls' \subseteq Call
BY NewCallType DEF Send, TypeOK

\* What the endpoint makes of a request is well formed.
LEMMA CallStepsType ==
    ASSUME TypeOK, NEW k \in calls,
           NEW reply \in {"none", "done", "approve", "error"}
    PROVE  /\ k \in Call /\ RequestOf(k) \in Request
           /\ [k EXCEPT !.pc = "answered", !.reply = reply] \in Call
           /\ [k EXCEPT !.pc = "write"] \in Call
           /\ [k EXCEPT !.pc = "embed", !.matter = Resolved(k.command)] \in Call
           /\ [k EXCEPT !.pc = "search", !.matter = Resolved(k.command)] \in Call
<1>1. k \in Call
  BY DEF TypeOK
<1>2. Resolved(k.command) \in Matters \cup {None}
  BY <1>1, ResolvedType DEF Call
<1> QED
  BY <1>1, <1>2 DEF Call, RequestOf, Request

LEMMA TypeDevice ==
    ASSUME TypeOK, NEW d \in Devices, DeviceStep(d)
    PROVE  TypeOK'
<1> USE DEF TypeOK
<1>0. recognizer[d] \in RecognizerState /\ client[d] \in ClientState
  OBVIOUS
<1>1. CASE Start(d)
  BY <1>0, <1>1 DEF Start, server, RecognizerState
<1>2. CASE Permitted(d)
  <2> DEFINE waiting == [recognizer EXCEPT ![d].starts = @ - 1]
  <2>1. waiting \in [Devices -> RecognizerState]
    <3>1. recognizer[d].starts \in Nat /\ recognizer[d].starts > 0
      BY <1>0, <1>2 DEF Permitted, RecognizerState
    <3>2. [recognizer[d] EXCEPT !.starts = @ - 1] \in RecognizerState
      BY <1>0, <3>1 DEF RecognizerState
    <3> QED
      BY <3>2
  <2>2. /\ [waiting EXCEPT ![d].on = TRUE, ![d].transcript = None] \in [Devices -> RecognizerState]
        /\ [waiting EXCEPT ![d].transcript = None] \in [Devices -> RecognizerState]
    <3> HIDE DEF waiting
    <3> QED
      BY <2>1 DEF RecognizerState
  <2>3. [client EXCEPT ![d].listening = TRUE] \in [Devices -> ClientState]
    BY <1>0 DEF ClientState
  <2>4. recognizer' \in [Devices -> RecognizerState] /\ client' \in [Devices -> ClientState]
    BY <1>2, <2>1, <2>2, <2>3 DEF Permitted
  <2> QED
    BY <1>2, <2>4 DEF Permitted, server
<1>3. CASE Recognize(d)
  BY <1>0, <1>3 DEF Recognize, server, RecognizerState
<1>4. CASE Callback(d)
  <2>1. PICK c \in recognizer[d].callbacks :
          recognizer' = [recognizer EXCEPT ![d] =
            IF c = "error" THEN Stopped([recognizer[d] EXCEPT !.callbacks = @ \ {c}])
            ELSE [[recognizer[d] EXCEPT !.callbacks = @ \ {c}] EXCEPT !.transcript = c]]
    BY <1>4 DEF Callback
  <2>2. [recognizer[d] EXCEPT !.callbacks = @ \ {c}] \in RecognizerState
    BY <1>0 DEF RecognizerState
  <2>3. c # "error" =>
          [[recognizer[d] EXCEPT !.callbacks = @ \ {c}] EXCEPT !.transcript = c] \in RecognizerState
    BY <1>0, <2>1 DEF RecognizerState
  <2>4. Stopped([recognizer[d] EXCEPT !.callbacks = @ \ {c}]) \in RecognizerState
    BY <2>2, StoppedType
  <2>5. recognizer' \in [Devices -> RecognizerState]
    BY <2>1, <2>3, <2>4
  <2> QED
    BY <1>4, <2>5 DEF Callback, server
<1>5. CASE StopAndSend(d)
  <2> DEFINE c == recognizer[d].transcript
  <2>1. Stopped(recognizer[d]) \in RecognizerState
    BY <1>0, StoppedType
  <2>2. recognizer' \in [Devices -> RecognizerState]
    BY <1>5, <2>1 DEF StopAndSend
  <2>3. c \in Commands \cup {None}
    BY <1>0 DEF RecognizerState
  <2>4. CASE c = None
    <3>1. client' = [client EXCEPT ![d] = [client[d] EXCEPT !.listening = FALSE, !.screen = c]]
      BY <1>5, <2>4 DEF StopAndSend
    <3>2. [client[d] EXCEPT !.listening = FALSE, !.screen = c] \in ClientState
      BY <1>0, <2>3 DEF ClientState
    <3> QED
      BY <1>5, <2>2, <2>4, <3>1, <3>2 DEF StopAndSend, server
  <2>5. CASE c # None
    <3> DEFINE shown == [client[d] EXCEPT !.listening = FALSE, !.screen = c]
    <3>0. shown \in ClientState
      BY <1>0, <2>3 DEF ClientState
    <3>1. client' = [client EXCEPT ![d] = [shown EXCEPT !.awaiting = sent[d] + 1]]
      BY <1>5, <2>5 DEF StopAndSend
    <3> HIDE DEF shown
    <3>2. [shown EXCEPT !.awaiting = sent[d] + 1] \in ClientState
      BY <3>0 DEF ClientState
    <3>3. PICK said \in Commands : Send(d, said, FALSE)
      BY <1>5, <2>3, <2>5 DEF StopAndSend
    <3>5. sent' \in [Devices -> Nat] /\ calls' \subseteq Call
      BY <3>3, SendType
    <3> QED
      BY <1>5, <2>2, <3>1, <3>2, <3>5 DEF StopAndSend, server
  <2> QED
    BY <2>4, <2>5
<1>6. CASE ConfirmPendingCommand(d)
  <2> DEFINE c == client[d].pending
  <2>1. c \in Commands
    BY <1>0, <1>6 DEF ConfirmPendingCommand, ClientState
  <2>2. PICK said \in Commands : Send(d, said, TRUE)
    BY <1>6, <2>1 DEF ConfirmPendingCommand
  <2>3. sent' \in [Devices -> Nat] /\ calls' \subseteq Call
    BY <2>2, SendType
  <2>4. client' \in [Devices -> ClientState]
    BY <1>0, <1>6 DEF ConfirmPendingCommand, ClientState
  <2>5. [dev |-> d, n |-> sent[d] + 1, command |-> c] \in Request
    BY <2>1 DEF Request
  <2>6. confirmed' \subseteq Request
    BY <1>6, <2>5 DEF ConfirmPendingCommand
  <2> QED
    BY <1>6, <2>3, <2>4, <2>6 DEF ConfirmPendingCommand, server
<1>7. CASE CancelPendingCommand(d)
  BY <1>0, <1>7 DEF CancelPendingCommand, server, ClientState
<1>8. CASE TimeOut(d)
  BY <1>0, <1>8 DEF TimeOut, server, ClientState
<1> QED
  BY <1>1, <1>2, <1>3, <1>4, <1>5, <1>6, <1>7, <1>8 DEF DeviceStep

LEMMA TypeCall ==
    ASSUME TypeOK, NEW k \in calls, CallStep(k)
    PROVE  TypeOK'
<1>1. k \in Call /\ RequestOf(k) \in Request
  BY CallStepsType
<1>2. \A reply \in {"done", "approve", "error"} :
        [k EXCEPT !.pc = "answered", !.reply = reply] \in Call
  BY CallStepsType
<1>3. /\ [k EXCEPT !.pc = "write"] \in Call
      /\ [k EXCEPT !.pc = "embed", !.matter = Resolved(k.command)] \in Call
      /\ [k EXCEPT !.pc = "search", !.matter = Resolved(k.command)] \in Call
  BY CallStepsType
<1>4. k.dev \in Devices /\ k.command \in Commands /\ k.matter \in Matters \cup {None}
  BY <1>1 DEF Call
<1> USE DEF TypeOK
<1>5. CASE Receive(k)
  <2>1. [dev |-> k.dev, command |-> k.command] \in [dev : Devices, command : Commands]
    BY <1>4
  <2>2. calls' \subseteq Call /\ proposed' \subseteq [dev : Devices, command : Commands]
    BY <1>2, <1>3, <1>5, <2>1 DEF Receive, Propose, Recall, Perform, Reply, Becomes
  <2> QED
    BY <1>5, <2>2 DEF Receive
<1>a. CASE Search(k)
  BY <1>2, <1>a DEF Search, Reply, Becomes, server
<1>6. CASE Embed(k)
  BY <1>2, <1>3, <1>6 DEF Embed, Reply, Becomes, server
<1>7. CASE Write(k)
  <2>1. calls' \subseteq Call
    BY <1>2, <1>7 DEF Write, Reply, Becomes
  <2>2. [id |-> minted, command |-> k.command, matter |-> k.matter] \in Memory
    BY <1>4 DEF Memory
  <2>3. memory' \subseteq Memory /\ minted' \in Nat /\ effects' \subseteq Request
    BY <1>1, <1>7, <2>2 DEF Write, Effect
  <2> QED
    BY <1>7, <2>1, <2>3 DEF Write
<1>8. CASE Answer(k)
  <2>1. client[k.dev] \in ClientState
    BY <1>4
  <2> DEFINE idle == [client[k.dev] EXCEPT !.awaiting = 0]
  <2>2. idle \in ClientState
    BY <2>1 DEF ClientState
  <2>3. \/ UNCHANGED client
        \/ client' = [client EXCEPT ![k.dev] = idle]
        \/ client' = [client EXCEPT ![k.dev] = [idle EXCEPT !.approvalRequired = TRUE, !.pending = k.command]]
        \/ client' = [client EXCEPT ![k.dev] = [idle EXCEPT !.approvalRequired = FALSE, !.pending = None]]
    BY <1>8 DEF Answer
  <2> HIDE DEF idle
  <2>6. /\ [idle EXCEPT !.approvalRequired = TRUE, !.pending = k.command] \in ClientState
        /\ [idle EXCEPT !.approvalRequired = FALSE, !.pending = None] \in ClientState
    BY <1>4, <2>2 DEF ClientState
  <2>4. client' \in [Devices -> ClientState]
    BY <2>2, <2>3, <2>6
  <2>5. calls' \subseteq Call
    BY <1>8 DEF Answer
  <2> QED
    BY <1>8, <2>4, <2>5 DEF Answer, server
<1>9. CASE Lose(k)
  BY <1>9 DEF Lose, server
<1> QED
  BY <1>5, <1>a, <1>6, <1>7, <1>8, <1>9 DEF CallStep

\* Everything keeps its type.
THEOREM TypeCorrect == Spec => []TypeOK
<1>1. Init => TypeOK
  BY DEF Init, TypeOK, ClientState, RecognizerState
<1>2. TypeOK /\ [Next]_vars => TypeOK'
  <2> SUFFICES ASSUME TypeOK, [Next]_vars PROVE TypeOK'
    OBVIOUS
  <2>1. CASE \E d \in Devices : DeviceStep(d)
    BY <2>1, TypeDevice
  <2>2. CASE \E k \in calls : CallStep(k)
    BY <2>2, TypeCall
  <2>3. CASE \E m \in Matters : CreateMatter(m)
    BY <2>3 DEF CreateMatter, TypeOK
  <2>4. CASE UNCHANGED vars
    BY <2>4 DEF vars, server, TypeOK
  <2> QED
    BY <2>1, <2>2, <2>3, <2>4 DEF Next
<1> QED
  BY <1>1, <1>2, PTL DEF Spec

-----------------------------------------------------------------------------
(* Safety *)

\* A request of a device whose awaited request it cannot be keeps its invariant
\* when the screen changes or another request becomes the awaited one.
LEMMA CallKept ==
    ASSUME NEW k, CallInv(k),
           sent[k.dev] <= sent'[k.dev], sent[k.dev] \in Nat, sent'[k.dev] \in Nat, k.n \in Nat,
           confirmed \subseteq confirmed', proposed \subseteq proposed',
           \/ /\ client'[k.dev].awaiting = client[k.dev].awaiting
              /\ client'[k.dev].screen = client[k.dev].screen
           \/ client'[k.dev].awaiting = 0
           \/ client'[k.dev].awaiting > sent[k.dev] /\ client'[k.dev].awaiting \in Nat
    PROVE  CallInv(k)'
BY DEF CallInv, RequestOf

\* The safety invariant, when a device does something that makes no request.
LEMMA QuietDevice ==
    ASSUME TypeOK, SafetyInv, NEW d \in Devices,
           UNCHANGED <<sent, calls, server, confirmed>>,
           client' \in [Devices -> ClientState],
           \A e \in Devices : e # d => client'[e] = client[e] /\ recognizer'[e] = recognizer[e],
           \/ /\ client'[d].awaiting = client[d].awaiting
              /\ client'[d].screen = client[d].screen
           \/ client'[d].awaiting = 0,
           recognizer'[d].on => client'[d].listening,
           client'[d].approvalRequired <=> client'[d].pending # None,
           client'[d].pending # None =>
             client'[d].pending = client'[d].screen /\ client'[d].pending = client[d].pending
    PROVE  SafetyInv'
<1>1. ASSUME NEW k \in calls PROVE CallInv(k)'
  <2>1. CallInv(k) /\ k.dev \in Devices /\ k.n \in Nat /\ sent[k.dev] \in Nat
    BY <1>1 DEF SafetyInv, TypeOK, Call
  <2>2. \/ /\ client'[k.dev].awaiting = client[k.dev].awaiting
           /\ client'[k.dev].screen = client[k.dev].screen
        \/ client'[k.dev].awaiting = 0
    BY <2>1
  <2> QED
    BY <2>1, <2>2, CallKept DEF server
<1>2. ASSUME NEW e \in Devices PROVE ClientInv(e)'
  <2>1. ClientInv(e) /\ sent[e] \in Nat
    BY DEF SafetyInv, TypeOK
  <2> QED
    BY <2>1 DEF ClientInv, server
<1>3. OnlyConfirmed'
  BY DEF SafetyInv, OnlyConfirmed, server
<1>4. PendingIsShown' /\ MicrophoneIsShown'
  BY DEF SafetyInv, PendingIsShown, MicrophoneIsShown
<1> QED
  BY <1>1, <1>2, <1>3, <1>4 DEF SafetyInv

\* The safety invariant, when a device makes a request.
LEMMA SendingDevice ==
    ASSUME TypeOK, SafetyInv, NEW d \in Devices, NEW c \in Commands, NEW approved \in BOOLEAN,
           Send(d, c, approved), UNCHANGED server,
           client' \in [Devices -> ClientState],
           \A e \in Devices : e # d => client'[e] = client[e] /\ recognizer'[e] = recognizer[e],
           client'[d].awaiting = sent[d] + 1, client'[d].screen = c,
           client'[d].pending = client[d].pending,
           client'[d].approvalRequired = client[d].approvalRequired,
           client[d].pending # None => client[d].pending = c,
           recognizer'[d].on => client'[d].listening,
           confirmed \subseteq confirmed',
           approved => /\ [dev |-> d, n |-> sent[d] + 1, command |-> c] \in confirmed'
                       /\ [dev |-> d, command |-> c] \in proposed
    PROVE  SafetyInv'
<1>0. /\ sent[d] \in Nat /\ sent'[d] = sent[d] + 1
      /\ \A e \in Devices : e # d => sent'[e] = sent[e]
  BY DEF Send, TypeOK
<1>1. ASSUME NEW k \in calls PROVE CallInv(k)'
  <2>1. CallInv(k) /\ k.dev \in Devices /\ k.n \in Nat /\ sent[k.dev] \in Nat
    BY <1>1 DEF SafetyInv, TypeOK, Call
  <2>2. sent[k.dev] <= sent'[k.dev] /\ sent'[k.dev] \in Nat
    BY <1>0, <2>1
  <2>3. \/ /\ client'[k.dev].awaiting = client[k.dev].awaiting
           /\ client'[k.dev].screen = client[k.dev].screen
        \/ client'[k.dev].awaiting > sent[k.dev] /\ client'[k.dev].awaiting \in Nat
    BY <1>0, <2>1
  <2> QED
    BY <2>1, <2>2, <2>3, CallKept DEF server
<1>n. PICK new \in {NewCall(d, c, approved)} : calls' = calls \cup {new}
  BY DEF Send
<1>2. CallInv(new)'
  <2>1. /\ new.dev = d /\ new.n = sent[d] + 1 /\ new.command = c /\ new.approved = approved
        /\ new.pc = "sent" /\ new.reply = "none"
    BY <1>n DEF NewCall
  <2> QED
    BY <1>0, <2>1 DEF CallInv, RequestOf, server
<1>3. ASSUME NEW k \in calls' PROVE CallInv(k)'
  BY <1>n, <1>1, <1>2
<1>4. ASSUME NEW e \in Devices PROVE ClientInv(e)'
  <2>1. ClientInv(e) /\ sent[e] \in Nat
    BY DEF SafetyInv, TypeOK
  <2> QED
    BY <1>0, <2>1 DEF ClientInv, server
<1>5. OnlyConfirmed'
  BY DEF SafetyInv, OnlyConfirmed, server
<1>6. PendingIsShown' /\ MicrophoneIsShown'
  BY DEF SafetyInv, PendingIsShown, MicrophoneIsShown
<1> QED
  BY <1>3, <1>4, <1>5, <1>6 DEF SafetyInv

LEMMA SafetyOfDevice ==
    ASSUME TypeOK, TypeOK', SafetyInv, NEW d \in Devices, DeviceStep(d)
    PROVE  SafetyInv'
<1>0. /\ client[d] \in ClientState /\ client' \in [Devices -> ClientState]
      /\ recognizer[d] \in RecognizerState /\ sent[d] \in Nat
      /\ DOMAIN client = Devices /\ DOMAIN recognizer = Devices
  BY DEF TypeOK
<1>i. /\ client[d].approvalRequired <=> client[d].pending # None
      /\ client[d].pending # None => client[d].pending = client[d].screen
      /\ recognizer[d].on => client[d].listening
      /\ client[d].pending # None => [dev |-> d, command |-> client[d].pending] \in proposed
  BY DEF SafetyInv, PendingIsShown, MicrophoneIsShown, ClientInv
<1>1. CASE Start(d)
  BY <1>0, <1>i, <1>1, QuietDevice DEF Start, RecognizerState
<1>2. CASE Permitted(d)
  <2>1. \A e \in Devices : e # d => client'[e] = client[e] /\ recognizer'[e] = recognizer[e]
    BY <1>0, <1>2 DEF Permitted
  <2>2. /\ client'[d].awaiting = client[d].awaiting /\ client'[d].screen = client[d].screen
        /\ client'[d].approvalRequired = client[d].approvalRequired
        /\ client'[d].pending = client[d].pending
    BY <1>0, <1>2 DEF Permitted, ClientState
  <2>3. recognizer'[d].on => client'[d].listening
    BY <1>0, <1>i, <1>2 DEF Permitted, ClientState, RecognizerState
  <2> QED
    BY <1>0, <1>i, <1>2, <2>1, <2>2, <2>3, QuietDevice DEF Permitted
<1>3. CASE Recognize(d)
  BY <1>0, <1>i, <1>3, QuietDevice DEF Recognize, RecognizerState
<1>4. CASE Callback(d)
  <2>1. recognizer'[d].on => recognizer[d].on
    <3>1. PICK c \in recognizer[d].callbacks :
            recognizer'[d] = IF c = "error" THEN Stopped([recognizer[d] EXCEPT !.callbacks = @ \ {c}])
              ELSE [[recognizer[d] EXCEPT !.callbacks = @ \ {c}] EXCEPT !.transcript = c]
      BY <1>0, <1>4 DEF Callback
    <3>2. [recognizer[d] EXCEPT !.callbacks = @ \ {c}] \in RecognizerState
      BY <1>0 DEF RecognizerState
    <3>3. CASE c = "error"
      BY <3>1, <3>2, <3>3, StoppedType
    <3>4. CASE c # "error"
      BY <1>0, <3>1, <3>4 DEF RecognizerState
    <3> QED
      BY <3>3, <3>4
  <2>2. \A e \in Devices : e # d => recognizer'[e] = recognizer[e]
    BY <1>0, <1>4 DEF Callback
  <2> QED
    BY <1>0, <1>i, <1>4, <2>1, <2>2, QuietDevice DEF Callback
<1>5. CASE StopAndSend(d)
  <2>1. ~recognizer'[d].on
    BY <1>0, <1>5, StoppedType DEF StopAndSend
  <2>2. \A e \in Devices : e # d => client'[e] = client[e] /\ recognizer'[e] = recognizer[e]
    BY <1>0, <1>5 DEF StopAndSend
  <2>3. client[d].pending = None /\ ~client[d].approvalRequired /\ client[d].awaiting = 0
    BY <1>i, <1>5 DEF StopAndSend, VoiceButton, IsSending
  <2>4. CASE recognizer[d].transcript = None
    <3>1. /\ client'[d].awaiting = 0 /\ client'[d].pending = None /\ ~client'[d].approvalRequired
          /\ UNCHANGED <<sent, calls>>
      BY <1>0, <1>5, <2>3, <2>4 DEF StopAndSend, ClientState
    <3> QED
      BY <1>0, <1>5, <2>1, <2>2, <3>1, QuietDevice DEF StopAndSend
  <2>5. CASE recognizer[d].transcript # None
    <3>c. PICK c \in Commands : c = recognizer[d].transcript
      BY <1>0, <2>5 DEF RecognizerState
    <3>s. PICK shown \in ClientState :
            shown = [client[d] EXCEPT !.listening = FALSE, !.screen = c]
      BY <1>0 DEF ClientState
    <3>k. Send(d, c, FALSE) /\ client' = [client EXCEPT ![d] = [shown EXCEPT !.awaiting = sent[d] + 1]]
      BY <1>5, <2>5, <3>c, <3>s DEF StopAndSend
    <3>t. /\ shown.screen = c /\ shown.pending = client[d].pending
          /\ shown.approvalRequired = client[d].approvalRequired
      BY <1>0, <3>s DEF ClientState
    <3>1. /\ client'[d].screen = c /\ client'[d].awaiting = sent[d] + 1
          /\ client'[d].pending = client[d].pending
          /\ client'[d].approvalRequired = client[d].approvalRequired
      BY <1>0, <3>k, <3>t DEF ClientState
    <3>2. UNCHANGED server /\ confirmed' = confirmed
      BY <1>5 DEF StopAndSend
    <3> QED
      BY <1>0, <2>1, <2>2, <2>3, <3>k, <3>1, <3>2, SendingDevice
  <2> QED
    BY <2>4, <2>5
<1>6. CASE ConfirmPendingCommand(d)
  <2>1. PICK c \in Commands :
          /\ c = client[d].pending /\ Send(d, c, TRUE)
          /\ client'[d].awaiting = sent[d] + 1
          /\ client'[d].screen = client[d].screen /\ client'[d].pending = client[d].pending
          /\ client'[d].approvalRequired = client[d].approvalRequired
          /\ client'[d].listening = client[d].listening
          /\ confirmed' = confirmed \cup {[dev |-> d, n |-> sent[d] + 1, command |-> c]}
    BY <1>0, <1>6 DEF ConfirmPendingCommand, ClientState
  <2>2. /\ UNCHANGED <<server, recognizer>>
        /\ \A e \in Devices : e # d => client'[e] = client[e]
    BY <1>0, <1>6 DEF ConfirmPendingCommand
  <2>3. c # None
    BY NoneAssumption
  <2> QED
    BY <1>0, <1>i, <2>1, <2>2, <2>3, SendingDevice
<1>7. CASE CancelPendingCommand(d)
  <2>1. /\ client'[d].awaiting = client[d].awaiting /\ client'[d].screen = client[d].screen
        /\ ~client'[d].approvalRequired /\ client'[d].pending = None
        /\ client'[d].listening = client[d].listening
        /\ \A e \in Devices : e # d => client'[e] = client[e]
    BY <1>0, <1>7 DEF CancelPendingCommand, ClientState
  <2> QED
    BY <1>0, <1>i, <1>7, <2>1, QuietDevice DEF CancelPendingCommand
<1>8. CASE TimeOut(d)
  <2>1. /\ client'[d].awaiting = 0 /\ client'[d].screen = client[d].screen
        /\ client'[d].approvalRequired = client[d].approvalRequired
        /\ client'[d].pending = client[d].pending
        /\ client'[d].listening = client[d].listening
        /\ \A e \in Devices : e # d => client'[e] = client[e]
    BY <1>0, <1>8 DEF TimeOut, ClientState
  <2> QED
    BY <1>0, <1>i, <1>8, <2>1, QuietDevice DEF TimeOut
<1> QED
  BY <1>1, <1>2, <1>3, <1>4, <1>5, <1>6, <1>7, <1>8 DEF DeviceStep

\* The safety invariant, when the endpoint works on a request: the request may
\* become another of the same number, and may have been approved only if it was.
LEMMA WorkingEndpoint ==
    ASSUME TypeOK, SafetyInv, NEW k \in calls,
           UNCHANGED <<client, recognizer, sent, confirmed>>,
           proposed \subseteq proposed',
           NEW then \in Call,
           calls' = (calls \ {k}) \cup {then},
           then.dev = k.dev, then.n = k.n, then.command = k.command,
           then.approved = k.approved,
           then.pc \in {"embed", "write"} => k.approved,
           then.reply = "approve" =>
             k.reply = "approve" \/ [dev |-> k.dev, command |-> k.command] \in proposed',
           \A e \in effects' \ effects : e = RequestOf(k) /\ k.approved
    PROVE  SafetyInv'
<1>0. CallInv(k) /\ k \in Call
  BY DEF SafetyInv, TypeOK
<1>1. CallInv(then)'
  BY <1>0 DEF CallInv, RequestOf
<1>2. ASSUME NEW j \in calls PROVE CallInv(j)'
  BY <1>2 DEF SafetyInv, CallInv, RequestOf
<1>3. ASSUME NEW j \in calls' PROVE CallInv(j)'
  BY <1>1, <1>2
<1>4. OnlyConfirmed'
  <2>1. ASSUME NEW e \in effects'
        PROVE  e \in confirmed' /\ [dev |-> e.dev, command |-> e.command] \in proposed'
    <3>1. CASE e \in effects
      BY <3>1 DEF SafetyInv, OnlyConfirmed
    <3>2. CASE e \notin effects
      BY <1>0, <2>1, <3>2 DEF CallInv, RequestOf
    <3> QED
      BY <3>1, <3>2
  <2> QED
    BY <2>1 DEF OnlyConfirmed
<1>5. PendingIsShown' /\ MicrophoneIsShown' /\ \A d \in Devices : ClientInv(d)'
  BY DEF SafetyInv, PendingIsShown, MicrophoneIsShown, ClientInv
<1> QED
  BY <1>3, <1>4, <1>5 DEF SafetyInv

\* What an answer leaves of a request.
LEMMA RepliedCall ==
    ASSUME TypeOK, NEW k \in calls, NEW reply \in {"done", "error"},
           calls' = (calls \ {k}) \cup {[k EXCEPT !.pc = "answered", !.reply = reply]}
    PROVE  \E then \in Call :
             /\ calls' = (calls \ {k}) \cup {then}
             /\ then.dev = k.dev /\ then.n = k.n /\ then.command = k.command
             /\ then.approved = k.approved
             /\ then.pc = "answered" /\ then.reply \in {"done", "error"}
<1> DEFINE then == [k EXCEPT !.pc = "answered", !.reply = reply]
<1>1. k \in Call /\ then \in Call
  BY CallStepsType
<1>2. /\ then.dev = k.dev /\ then.n = k.n /\ then.command = k.command
      /\ then.approved = k.approved /\ then.pc = "answered" /\ then.reply \in {"done", "error"}
  BY <1>1 DEF Call
<1>3. calls' = (calls \ {k}) \cup {then}
  OBVIOUS
<1> HIDE DEF then
<1> QED
  BY <1>1, <1>2, <1>3

LEMMA SafetyOfCall ==
    ASSUME TypeOK, TypeOK', SafetyInv, NEW k \in calls, CallStep(k)
    PROVE  SafetyInv'
<1>0. /\ k \in Call /\ CallInv(k) /\ k.dev \in Devices /\ k.n \in Nat /\ k.n > 0
      /\ client[k.dev] \in ClientState /\ client'[k.dev] \in ClientState
      /\ DOMAIN client = Devices /\ client' \in [Devices -> ClientState]
  BY DEF SafetyInv, CallInv, TypeOK, Call
<1>1. CASE Receive(k)
  <2>1. PICK then \in Call :
          /\ calls' = (calls \ {k}) \cup {then}
          /\ then.dev = k.dev /\ then.n = k.n /\ then.command = k.command
          /\ then.approved = k.approved
          /\ then.pc \in {"embed", "write"} => k.approved
          /\ then.reply = "approve" =>
               k.reply = "approve" \/ [dev |-> k.dev, command |-> k.command] \in proposed'
    <3> DEFINE done == [k EXCEPT !.pc = "answered", !.reply = "done"]
               error == [k EXCEPT !.pc = "answered", !.reply = "error"]
               ask == [k EXCEPT !.pc = "answered", !.reply = "approve"]
               embed == [k EXCEPT !.pc = "embed", !.matter = Resolved(k.command)]
               search == [k EXCEPT !.pc = "search", !.matter = Resolved(k.command)]
               write == [k EXCEPT !.pc = "write"]
    <3>1. done \in Call /\ error \in Call /\ ask \in Call /\ embed \in Call /\ search \in Call /\ write \in Call
      BY CallStepsType
    <3>2. /\ \A then \in {done, error, ask, embed, search, write} :
                /\ then.dev = k.dev /\ then.n = k.n /\ then.command = k.command
                /\ then.approved = k.approved
          /\ done.pc = "answered" /\ done.reply = "done"
          /\ error.pc = "answered" /\ error.reply = "error"
          /\ search.pc = "search" /\ search.reply = k.reply
          /\ ask.pc = "answered" /\ embed.reply = k.reply /\ write.reply = k.reply
      BY <1>0 DEF Call
    <3>3. \/ calls' = (calls \ {k}) \cup {done}
          \/ calls' = (calls \ {k}) \cup {error}
          \/ /\ calls' = (calls \ {k}) \cup {ask}
             /\ proposed' = proposed \cup {[dev |-> k.dev, command |-> k.command]}
          \/ calls' = (calls \ {k}) \cup {search}
          \/ calls' = (calls \ {k}) \cup {embed} /\ k.approved
          \/ calls' = (calls \ {k}) \cup {write} /\ k.approved
      BY <1>1 DEF Receive, Propose, Recall, Perform, Reply, Becomes
    <3> HIDE DEF done, error, ask, embed, search, write
    <3>4. CASE calls' = (calls \ {k}) \cup {done}
      BY <3>1, <3>2, <3>4
    <3>5. CASE calls' = (calls \ {k}) \cup {error}
      BY <3>1, <3>2, <3>5
    <3>6. CASE /\ calls' = (calls \ {k}) \cup {ask}
               /\ proposed' = proposed \cup {[dev |-> k.dev, command |-> k.command]}
      BY <3>1, <3>2, <3>6
    <3>7. CASE calls' = (calls \ {k}) \cup {embed} /\ k.approved
      BY <3>1, <3>2, <3>7
    <3>8. CASE calls' = (calls \ {k}) \cup {write} /\ k.approved
      BY <3>1, <3>2, <3>8
    <3>9. CASE calls' = (calls \ {k}) \cup {search}
      BY <3>1, <3>2, <3>9
    <3> QED
      BY <3>3, <3>4, <3>5, <3>6, <3>7, <3>8, <3>9
  <2>2. proposed \subseteq proposed' /\ effects' = effects
        /\ UNCHANGED <<client, recognizer, sent, confirmed>>
    BY <1>1 DEF Receive, Propose
  <2> QED
    BY <2>1, <2>2, WorkingEndpoint
<1>2. CASE Embed(k)
  <2>1. PICK then \in Call :
          /\ calls' = (calls \ {k}) \cup {then}
          /\ then.dev = k.dev /\ then.n = k.n /\ then.command = k.command
          /\ then.approved = k.approved
          /\ then.pc \in {"embed", "write"} => k.approved
          /\ then.reply = "approve" => k.reply = "approve"
    <3>1. CASE calls' = (calls \ {k}) \cup {[k EXCEPT !.pc = "write"]}
      <4> DEFINE write == [k EXCEPT !.pc = "write"]
      <4>1. write \in Call
        BY CallStepsType
      <4>2. /\ write.dev = k.dev /\ write.n = k.n /\ write.command = k.command
            /\ write.approved = k.approved /\ write.reply = k.reply
        BY <1>0 DEF Call
      <4>3. k.approved /\ calls' = (calls \ {k}) \cup {write}
        BY <1>0, <1>2, <3>1 DEF CallInv, Embed
      <4> HIDE DEF write
      <4> QED
        BY <4>1, <4>2, <4>3
    <3>2. CASE \E reply \in {"done", "error"} :
                 calls' = (calls \ {k}) \cup {[k EXCEPT !.pc = "answered", !.reply = reply]}
      <4>1. PICK reply \in {"done", "error"} :
              calls' = (calls \ {k}) \cup {[k EXCEPT !.pc = "answered", !.reply = reply]}
        BY <3>2
      <4> QED
        BY <4>1, RepliedCall
    <3> QED
      BY <1>2, <3>1, <3>2 DEF Embed, Reply, Becomes
  <2> QED
    BY <1>2, <2>1, WorkingEndpoint DEF Embed, server
<1>a. CASE Search(k)
  <2>1. PICK reply \in {"done", "error"} :
          calls' = (calls \ {k}) \cup {[k EXCEPT !.pc = "answered", !.reply = reply]}
    BY <1>a DEF Search, Reply, Becomes
  <2>2. PICK then \in Call :
          /\ calls' = (calls \ {k}) \cup {then}
          /\ then.dev = k.dev /\ then.n = k.n /\ then.command = k.command
          /\ then.approved = k.approved /\ then.pc = "answered" /\ then.reply \in {"done", "error"}
    BY <2>1, RepliedCall
  <2>3. UNCHANGED <<client, recognizer, sent, confirmed, proposed, effects>>
    BY <1>a DEF Search, server
  <2> QED
    BY <2>2, <2>3, WorkingEndpoint
<1>3. CASE Write(k)
  <2>1. PICK reply \in {"done", "error"} :
          calls' = (calls \ {k}) \cup {[k EXCEPT !.pc = "answered", !.reply = reply]}
    BY <1>3 DEF Write, Reply, Becomes
  <2>2. PICK then \in Call :
          /\ calls' = (calls \ {k}) \cup {then}
          /\ then.dev = k.dev /\ then.n = k.n /\ then.command = k.command
          /\ then.approved = k.approved /\ then.pc = "answered" /\ then.reply \in {"done", "error"}
    BY <2>1, RepliedCall
  <2>3. k.approved /\ \A e \in effects' \ effects : e = RequestOf(k)
    BY <1>0, <1>3 DEF CallInv, Write, Effect
  <2>4. UNCHANGED <<client, recognizer, sent, confirmed, proposed>>
    BY <1>3 DEF Write
  <2> QED
    BY <2>2, <2>3, <2>4, WorkingEndpoint
<1>4. CASE Answer(k) \/ Lose(k)
  <2>0. UNCHANGED <<recognizer, sent, server, confirmed>> /\ calls' = calls \ {k}
    BY <1>4 DEF Answer, Lose
  <2> DEFINE idle == [client[k.dev] EXCEPT !.awaiting = 0]
             ask == [idle EXCEPT !.approvalRequired = TRUE, !.pending = k.command]
             done == [idle EXCEPT !.approvalRequired = FALSE, !.pending = None]
  <2>a. \/ client' = client
        \/ client' = [client EXCEPT ![k.dev] = idle]
        \/ /\ client' = [client EXCEPT ![k.dev] = ask]
           /\ client[k.dev].awaiting = k.n /\ k.reply = "approve" /\ k.command # None
        \/ client' = [client EXCEPT ![k.dev] = done]
    BY <1>0, <1>4, NoneAssumption DEF Answer, Lose, Call
  <2>b. /\ idle \in ClientState
        /\ idle.screen = client[k.dev].screen /\ idle.listening = client[k.dev].listening
        /\ idle.awaiting = 0 /\ idle.approvalRequired = client[k.dev].approvalRequired
        /\ idle.pending = client[k.dev].pending
    BY <1>0 DEF ClientState
  <2>c. /\ idle.screen = client[k.dev].screen /\ idle.listening = client[k.dev].listening
        /\ idle.awaiting = 0 /\ idle.approvalRequired = client[k.dev].approvalRequired
        /\ idle.pending = client[k.dev].pending
        /\ ask.screen = client[k.dev].screen /\ ask.listening = client[k.dev].listening
        /\ ask.awaiting = 0 /\ ask.approvalRequired /\ ask.pending = k.command
        /\ done.screen = client[k.dev].screen /\ done.listening = client[k.dev].listening
        /\ done.awaiting = 0 /\ ~done.approvalRequired /\ done.pending = None
    <3> HIDE DEF idle
    <3> QED
      BY <2>b DEF ClientState
  <2> HIDE DEF idle, ask, done
  <2>1. /\ \A e \in Devices : e # k.dev => client'[e] = client[e]
        /\ client'[k.dev].screen = client[k.dev].screen
        /\ client'[k.dev].listening = client[k.dev].listening
        /\ client'[k.dev].awaiting \in {0, client[k.dev].awaiting}
    BY <1>0, <2>a, <2>c
  <2>2. \/ /\ client'[k.dev].approvalRequired = client[k.dev].approvalRequired
           /\ client'[k.dev].pending = client[k.dev].pending
        \/ ~client'[k.dev].approvalRequired /\ client'[k.dev].pending = None
        \/ /\ client'[k.dev].approvalRequired /\ client'[k.dev].pending = k.command
           /\ client[k.dev].awaiting = k.n /\ k.reply = "approve" /\ k.command # None
    BY <1>0, <2>a, <2>c
  <2>3. ASSUME NEW j \in calls PROVE CallInv(j)'
    <3>1. CallInv(j) /\ j.dev \in Devices /\ j.n \in Nat /\ sent[j.dev] \in Nat
      BY <2>3 DEF SafetyInv, TypeOK, Call
    <3>2. \/ /\ client'[j.dev].awaiting = client[j.dev].awaiting
             /\ client'[j.dev].screen = client[j.dev].screen
          \/ client'[j.dev].awaiting = 0
      BY <2>1, <3>1
    <3> QED
      BY <2>0, <3>1, <3>2, CallKept DEF server
  <2>4. ASSUME NEW d \in Devices PROVE ClientInv(d)'
    <3>1. ClientInv(d) /\ sent[d] \in Nat
      BY DEF SafetyInv, TypeOK
    <3>2. client'[d].awaiting <= sent'[d]
      BY <1>0, <2>0, <2>1, <3>1 DEF ClientInv
    <3>3. client'[d].pending # None => [dev |-> d, command |-> client'[d].pending] \in proposed'
      BY <1>0, <2>0, <2>1, <2>2, <3>1 DEF ClientInv, CallInv, server
    <3> QED
      BY <3>2, <3>3 DEF ClientInv
  <2>5. PendingIsShown'
    BY <1>0, <2>1, <2>2 DEF SafetyInv, PendingIsShown, CallInv
  <2>6. OnlyConfirmed' /\ MicrophoneIsShown'
    BY <2>0, <2>1 DEF SafetyInv, OnlyConfirmed, MicrophoneIsShown, server
  <2> QED
    BY <2>0, <2>3, <2>4, <2>5, <2>6 DEF SafetyInv
<1> QED
  BY <1>1, <1>a, <1>2, <1>3, <1>4 DEF CallStep

THEOREM Safety == Spec => []SafetyInv
<1>1. Init => SafetyInv
  BY DEF Init, SafetyInv, OnlyConfirmed, PendingIsShown, MicrophoneIsShown, ClientInv
<1>2. TypeOK /\ TypeOK' /\ SafetyInv /\ [Next]_vars => SafetyInv'
  <2> SUFFICES ASSUME TypeOK, TypeOK', SafetyInv, [Next]_vars PROVE SafetyInv'
    OBVIOUS
  <2>1. CASE \E d \in Devices : DeviceStep(d)
    BY <2>1, SafetyOfDevice
  <2>2. CASE \E k \in calls : CallStep(k)
    BY <2>2, SafetyOfCall
  <2>3. CASE UNCHANGED <<client, recognizer, sent, calls, confirmed, proposed, effects>>
    BY <2>3 DEF SafetyInv, OnlyConfirmed, PendingIsShown, MicrophoneIsShown, ClientInv, CallInv, RequestOf
  <2> QED
    BY <2>1, <2>2, <2>3 DEF Next, CreateMatter, vars, server
<1> QED
  BY <1>1, <1>2, TypeCorrect, PTL DEF Spec

-----------------------------------------------------------------------------
\* Approval first: the memory changes by what was described to a device and
\* confirmed on it (main.command, MemoryCommandExecutor.execute).
THEOREM ApprovalFirst == Spec => []OnlyConfirmed
BY Safety, PTL DEF SafetyInv

\* The confirm button belongs to the command on the screen
\* (VoiceSessionViewModel.send, ContentView).
THEOREM ConfirmsWhatIsShown == Spec => []PendingIsShown
BY Safety, PTL DEF SafetyInv

\* A microphone that is on is reported on (VoiceSessionViewModel.start,
\* VoiceRecognizer).
THEOREM NoHiddenMicrophone == Spec => []MicrophoneIsShown
BY Safety, PTL DEF SafetyInv

-----------------------------------------------------------------------------
(* Once *)

\* A matter that is found is one the words name well enough.
LEMMA ResolvedFits ==
    ASSUME NEW c \in Commands, Resolved(c) # None
    PROVE  Score[c][Resolved(c)] >= 20
<1>1. Clear(c)
  BY DEF Resolved
<1>2. PICK m \in Best(c) : Best(c) = {m} /\ Score[c][m] >= 20
  BY <1>1 DEF Clear
<1> QED
  BY <1>1, <1>2 DEF Resolved

\* What the endpoint and the connection do to a request: it goes, or becomes
\* one of the same number; what is answered is not worked on again, and the
\* memory changes together with the answer.
LEMMA CallEffect ==
    ASSUME TypeOK, NEW k \in calls, CallStep(k)
    PROVE  /\ UNCHANGED <<sent, confirmed>>
           /\ \/ calls' = calls \ {k} /\ UNCHANGED <<proposed, effects, memory, minted>>
              \/ \E then \in Call :
                   /\ calls' = (calls \ {k}) \cup {then}
                   /\ then.dev = k.dev /\ then.n = k.n /\ then.command = k.command
                   /\ then.matter = k.matter \/ then.matter = Resolved(k.command)
                   /\ k.pc # "answered"
                   /\ \/ /\ UNCHANGED <<effects, memory, minted>>
                         /\ \/ UNCHANGED proposed
                            \/ proposed' = proposed \cup {[dev |-> k.dev, command |-> k.command]}
                      \/ then.pc = "answered" /\ Effect(k) /\ UNCHANGED proposed
<1>1. k \in Call
  BY DEF TypeOK
<1> DEFINE reply(r) == [k EXCEPT !.pc = "answered", !.reply = r]
           write == [k EXCEPT !.pc = "write"]
           embed == [k EXCEPT !.pc = "embed", !.matter = Resolved(k.command)]
           search == [k EXCEPT !.pc = "search", !.matter = Resolved(k.command)]
           Same(then) == /\ then.dev = k.dev /\ then.n = k.n /\ then.command = k.command
                         /\ then.matter = k.matter \/ then.matter = Resolved(k.command)
<1>2. /\ \A r \in {"done", "approve", "error"} : reply(r) \in Call
      /\ write \in Call /\ embed \in Call /\ search \in Call
  BY CallStepsType
<1>3. /\ \A r \in {"done", "approve", "error"} : Same(reply(r)) /\ reply(r).pc = "answered"
      /\ Same(write) /\ Same(embed) /\ Same(search)
  BY <1>1 DEF Call
<1>4. CASE Receive(k)
  <2>1. UNCHANGED <<sent, confirmed, effects, memory, minted>> /\ k.pc # "answered"
    BY <1>4 DEF Receive
  <2>2. \/ \E r \in {"done", "error"} : calls' = (calls \ {k}) \cup {reply(r)} /\ UNCHANGED proposed
        \/ /\ calls' = (calls \ {k}) \cup {reply("approve")}
           /\ proposed' = proposed \cup {[dev |-> k.dev, command |-> k.command]}
        \/ /\ \E then \in {write, embed, search} : calls' = (calls \ {k}) \cup {then}
           /\ UNCHANGED proposed
    BY <1>4 DEF Receive, Propose, Perform, Recall, Reply, Becomes
  <2> HIDE DEF reply, write, embed, search
  <2>3. PICK then \in Call :
          /\ Same(then) /\ calls' = (calls \ {k}) \cup {then}
          /\ \/ UNCHANGED proposed
             \/ proposed' = proposed \cup {[dev |-> k.dev, command |-> k.command]}
    BY <1>2, <1>3, <2>2
  <2> QED
    BY <2>1, <2>3
<1>5. CASE Search(k) \/ Embed(k)
  <2>1. UNCHANGED <<sent, confirmed, proposed, effects, memory, minted>> /\ k.pc # "answered"
    BY <1>5 DEF Search, Embed, server
  <2>2. \/ \E r \in {"done", "error"} : calls' = (calls \ {k}) \cup {reply(r)}
        \/ calls' = (calls \ {k}) \cup {write}
    BY <1>5 DEF Search, Embed, Reply, Becomes
  <2> HIDE DEF reply, write
  <2>3. PICK then \in Call : Same(then) /\ calls' = (calls \ {k}) \cup {then}
    BY <1>2, <1>3, <2>2
  <2> QED
    BY <2>1, <2>3
<1>6. CASE Write(k)
  <2>1. UNCHANGED <<sent, confirmed, proposed>> /\ k.pc # "answered"
    BY <1>6 DEF Write
  <2>2. PICK r \in {"done", "error"} : calls' = (calls \ {k}) \cup {reply(r)}
    BY <1>6 DEF Write, Reply, Becomes
  <2>3. Effect(k) \/ UNCHANGED <<effects, memory, minted>>
    BY <1>6 DEF Write
  <2> HIDE DEF reply
  <2>4. PICK then \in Call :
          Same(then) /\ calls' = (calls \ {k}) \cup {then} /\ then.pc = "answered"
    BY <1>2, <1>3, <2>2
  <2> QED
    BY <2>1, <2>3, <2>4
<1>7. CASE Answer(k) \/ Lose(k)
  BY <1>7 DEF Answer, Lose, server
<1> QED
  BY <1>4, <1>5, <1>6, <1>7 DEF CallStep

\* What a device does to the requests: nothing, or one of a new number.
LEMMA DeviceEffect ==
    ASSUME TypeOK, NEW d \in Devices, DeviceStep(d)
    PROVE  /\ UNCHANGED <<proposed, effects, memory, minted>>
           /\ \/ UNCHANGED <<sent, calls, confirmed>>
              \/ \E c \in Commands, approved \in BOOLEAN :
                   /\ Send(d, c, approved)
                   /\ \/ UNCHANGED confirmed
                      \/ /\ c = client[d].pending /\ c # None
                         /\ confirmed' = confirmed \cup {[dev |-> d, n |-> sent[d] + 1, command |-> c]}
<1>1. client[d] \in ClientState /\ recognizer[d] \in RecognizerState
  BY DEF TypeOK
<1>2. CASE StopAndSend(d)
  BY <1>1, <1>2 DEF StopAndSend, server, RecognizerState
<1>3. CASE ConfirmPendingCommand(d)
  BY <1>1, <1>3 DEF ConfirmPendingCommand, server, ClientState
<1>4. CASE \/ Start(d) \/ Permitted(d) \/ Recognize(d) \/ Callback(d)
           \/ CancelPendingCommand(d) \/ TimeOut(d)
  BY <1>4 DEF Start, Permitted, Recognize, Callback, CancelPendingCommand, TimeOut, server
<1> QED
  BY <1>2, <1>3, <1>4 DEF DeviceStep

LEMMA OnceOfDevice ==
    ASSUME TypeOK, SafetyInv, OnceInv, NEW d \in Devices, DeviceStep(d)
    PROVE  OnceInv'
<1>1. CASE UNCHANGED <<sent, calls, confirmed>>
  BY <1>1, DeviceEffect DEF OnceInv, RequestOf
<1>2. ASSUME NEW c \in Commands, NEW approved \in BOOLEAN, Send(d, c, approved),
             confirmed' \subseteq confirmed \cup {[dev |-> d, n |-> sent[d] + 1, command |-> c]}
      PROVE  OnceInv'
  <2>1. /\ sent[d] \in Nat /\ sent[d] < MaxSends /\ sent'[d] = sent[d] + 1 /\ MaxSends \in Nat
        /\ \A e \in Devices : sent[e] \in Nat /\ (e # d => sent'[e] = sent[e])
    BY <1>2, BoundAssumption DEF Send, TypeOK
  <2>2. PICK new \in {NewCall(d, c, approved)} : calls' = calls \cup {new}
    BY <1>2 DEF Send
  <2>3. new.dev = d /\ new.n = sent[d] + 1 /\ new.command = c /\ new.matter = None
    BY <2>2 DEF NewCall
  <2>4. \A k \in calls : k.dev \in Devices /\ k.n \in Nat /\ k.n <= sent[k.dev]
    BY DEF SafetyInv, CallInv, TypeOK, Call
  <2>5. \A r \in confirmed : r.dev \in Devices /\ r.n \in Nat /\ r.n <= sent[r.dev]
    BY DEF OnceInv, TypeOK, Request
  <2>6. \A e \in Devices : sent'[e] <= MaxSends
    BY <2>1 DEF OnceInv
  <2>7. \A r \in confirmed' : r.n <= sent'[r.dev]
    <3> TAKE r \in confirmed'
    <3>1. CASE r \in confirmed
      BY <2>1, <2>5, <3>1
    <3>2. CASE r = [dev |-> d, n |-> sent[d] + 1, command |-> c]
      BY <2>1, <3>2
    <3> QED
      BY <1>2, <3>1, <3>2
  <2>8. \A j, k \in calls' : j.dev = k.dev /\ j.n = k.n => j = k
    <3>1. \A k \in calls : ~(k.dev = new.dev /\ k.n = new.n)
      BY <2>1, <2>3, <2>4
    <3> QED
      BY <2>2, <3>1 DEF OnceInv
  <2>9. \A k \in calls' : k.pc # "answered" => RequestOf(k) \notin effects'
    <3>1. RequestOf(new) \notin confirmed
      <4>1. RequestOf(new).dev = d /\ RequestOf(new).n = sent[d] + 1
        BY <2>3 DEF RequestOf
      <4> QED
        BY <2>1, <2>5, <4>1
    <3> QED
      BY <2>2, <3>1, DeviceEffect DEF OnceInv, SafetyInv, OnlyConfirmed
  <2>10. \A k \in calls' : k.matter # None => Score[k.command][k.matter] >= 20
    BY <2>2, <2>3 DEF OnceInv
  <2> QED
    BY <2>6, <2>7, <2>8, <2>9, <2>10, DeviceEffect DEF OnceInv, RequestOf
<1> QED
  BY <1>1, <1>2, DeviceEffect

LEMMA OnceOfCall ==
    ASSUME TypeOK, SafetyInv, OnceInv, NEW k \in calls, CallStep(k)
    PROVE  OnceInv'
<1>1. k \in Call /\ k.command \in Commands /\ minted \in Nat /\ \A row \in memory : row.id \in Nat
  BY DEF TypeOK, Call, Memory
<1>2. CASE calls' = calls \ {k} /\ UNCHANGED <<proposed, effects, memory, minted>>
  BY <1>2, CallEffect DEF OnceInv, RequestOf
<1>3. ASSUME NEW then \in Call,
             calls' = (calls \ {k}) \cup {then},
             then.dev = k.dev, then.n = k.n, then.command = k.command,
             then.matter = k.matter \/ then.matter = Resolved(k.command),
             k.pc # "answered",
             UNCHANGED <<effects, memory, minted>> \/ (then.pc = "answered" /\ Effect(k))
      PROVE  OnceInv'
  <2>1. RequestOf(then) = RequestOf(k)
    BY <1>3 DEF RequestOf
  <2>2. \A i, j \in calls' : i.dev = j.dev /\ i.n = j.n => i = j
    BY <1>3 DEF OnceInv
  <2>3. \A j \in calls' : j.matter # None => Score[j.command][j.matter] >= 20
    BY <1>1, <1>3, ResolvedFits DEF OnceInv
  <2>4. \A j \in calls' : j.pc # "answered" => RequestOf(j) \notin effects'
    <3>1. \A j \in calls \ {k} : RequestOf(j) # RequestOf(k)
      BY DEF OnceInv, RequestOf
    <3>2. effects' = effects \/ (then.pc = "answered" /\ effects' = effects \cup {RequestOf(k)})
      BY <1>3 DEF Effect
    <3> QED
      BY <1>3, <2>1, <3>1, <3>2 DEF OnceInv
  <2>5. \A row \in memory' : row.id < minted'
    <3>1. CASE UNCHANGED <<memory, minted>>
      BY <3>1 DEF OnceInv
    <3>2. CASE Effect(k)
      BY <1>1, <3>2 DEF Effect, OnceInv
    <3> QED
      BY <1>3, <3>1, <3>2
  <2>6. UNCHANGED <<sent, confirmed>>
    BY CallEffect
  <2> QED
    BY <2>2, <2>3, <2>4, <2>5, <2>6 DEF OnceInv
<1> QED
  BY <1>2, <1>3, CallEffect

\* A confirmation changes the memory at most once, and what it files fits.
THEOREM ChangedOnce == Spec => []OnceInv
<1>1. Init => OnceInv
  BY BoundAssumption DEF Init, OnceInv
<1>2. TypeOK /\ SafetyInv /\ OnceInv /\ [Next]_vars => OnceInv'
  <2> SUFFICES ASSUME TypeOK, SafetyInv, OnceInv, [Next]_vars PROVE OnceInv'
    OBVIOUS
  <2>1. CASE \E d \in Devices : DeviceStep(d)
    BY <2>1, OnceOfDevice
  <2>2. CASE \E k \in calls : CallStep(k)
    BY <2>2, OnceOfCall
  <2>3. CASE UNCHANGED <<sent, calls, confirmed, effects, memory, minted>>
    BY <2>3 DEF OnceInv, RequestOf
  <2> QED
    BY <2>1, <2>2, <2>3 DEF Next, CreateMatter, vars, server
<1> QED
  BY <1>1, <1>2, TypeCorrect, Safety, PTL DEF Spec

-----------------------------------------------------------------------------
(* The device, the endpoint and the store implement CommandApproval. *)

ApprovalRequests == [dev : Devices, n : 1..MaxSends, command : Commands]

\* The request of a call is one of the abstract specification's.
LEMMA CallRequest ==
    ASSUME TypeOK, SafetyInv, OnceInv, NEW k \in calls
    PROVE  /\ RequestOf(k) \in ApprovalRequests
           /\ Approval!Proposal(RequestOf(k)) = [dev |-> k.dev, command |-> k.command]
<1>1. /\ k.dev \in Devices /\ k.command \in Commands /\ k.n \in Nat /\ 0 < k.n
      /\ k.n <= sent[k.dev]
  BY DEF SafetyInv, CallInv, TypeOK, Call
<1>2. sent[k.dev] <= MaxSends /\ sent[k.dev] \in Nat /\ MaxSends \in Nat
  BY <1>1, BoundAssumption DEF OnceInv, TypeOK
<1>3. k.n \in 1..MaxSends
  BY <1>1, <1>2
<1> QED
  BY <1>1, <1>3 DEF RequestOf, ApprovalRequests, Approval!Proposal

\* A write performs the request.
LEMMA EffectPerforms ==
    ASSUME TypeOK, SafetyInv, OnceInv, NEW k \in calls, CallStep(k), k.pc # "answered",
           Effect(k), UNCHANGED <<proposed, confirmed>>, k.approved
    PROVE  Approval!Perform(RequestOf(k))
<1>1. /\ RequestOf(k) \in confirmed /\ RequestOf(k) \notin effects
      /\ RequestOf(k).command = k.command /\ k.command \in Commands
      /\ k.matter \in Matters \cup {None} /\ (k.matter # None => Score[k.command][k.matter] >= 20)
  BY DEF SafetyInv, CallInv, OnceInv, RequestOf, TypeOK, Call
<1>2. CASE Intent[k.command] = "remember"
  <2>1. PICK row \in {[id |-> minted, command |-> k.command, matter |-> k.matter]} :
          memory' = memory \cup {row}
    BY <1>2 DEF Effect
  <2>2. row.id = minted /\ row.command = k.command /\ row.matter = k.matter
    OBVIOUS
  <2>3. \A old \in memory : old.id # row.id
    BY <2>2 DEF OnceInv, TypeOK, Memory
  <2>4. <<row.command, row.matter>> \in
          {p \in Commands \X (Matters \cup {None}) : p[2] # None => Score[p[1]][p[2]] >= 20}
    BY <1>1, <2>2
  <2>5. Approval!Remember(RequestOf(k))
    BY <1>1, <2>1, <2>2, <2>3, <2>4 DEF Approval!Remember
  <2> QED
    BY <1>1, <1>2, <2>5 DEF Approval!Perform, Effect
<1>3. CASE Intent[k.command] = "forget"
  BY <1>1, <1>3 DEF Approval!Perform, Approval!Forget, Effect
<1> QED
  BY <1>2, <1>3 DEF Effect

LEMMA ApprovalOfCall ==
    ASSUME TypeOK, SafetyInv, OnceInv, NEW k \in calls, CallStep(k)
    PROVE  [Approval!Next]_(Approval!approvalVars)
<1>1. RequestOf(k) \in ApprovalRequests
      /\ Approval!Proposal(RequestOf(k)) = [dev |-> k.dev, command |-> k.command]
  BY CallRequest
<1>2. CASE UNCHANGED <<proposed, confirmed, effects, memory>>
  BY <1>2 DEF Approval!approvalVars
<1>3. CASE /\ UNCHANGED <<confirmed, effects, memory>>
           /\ proposed' = proposed \cup {[dev |-> k.dev, command |-> k.command]}
  BY <1>1, <1>3 DEF Approval!Propose, Approval!Next, ApprovalRequests
<1>4. CASE Effect(k) /\ UNCHANGED <<proposed, confirmed>> /\ k.pc = "write"
  <2>1. k.approved
    BY <1>4 DEF SafetyInv, CallInv
  <2>2. Approval!Perform(RequestOf(k))
    BY <1>4, <2>1, EffectPerforms
  <2> QED
    BY <1>1, <2>2 DEF Approval!Next, ApprovalRequests
<1>5. UNCHANGED <<effects, memory>> \/ (Effect(k) /\ k.pc = "write" /\ UNCHANGED proposed)
  BY DEF CallStep, Receive, Search, Embed, Write, Answer, Lose, server
<1> QED
  BY <1>2, <1>3, <1>4, <1>5, CallEffect

LEMMA ApprovalOfDevice ==
    ASSUME TypeOK, SafetyInv, OnceInv, NEW d \in Devices, DeviceStep(d)
    PROVE  [Approval!Next]_(Approval!approvalVars)
<1>1. CASE UNCHANGED confirmed
  BY <1>1, DeviceEffect DEF Approval!approvalVars
<1>2. CASE confirmed' # confirmed
  <2>1. PICK c \in Commands, approved \in BOOLEAN :
          /\ Send(d, c, approved) /\ c = client[d].pending /\ c # None
          /\ confirmed' = confirmed \cup {[dev |-> d, n |-> sent[d] + 1, command |-> c]}
    BY <1>2, DeviceEffect
  <2> DEFINE r == [dev |-> d, n |-> sent[d] + 1, command |-> c]
  <2>2. sent[d] \in Nat /\ sent[d] < MaxSends /\ MaxSends \in Nat
    BY <2>1, BoundAssumption DEF Send, TypeOK
  <2>3. r \in ApprovalRequests
    <3>1. sent[d] + 1 \in 1..MaxSends
      BY <2>2
    <3> QED
      BY <3>1 DEF ApprovalRequests
  <2>4. Approval!Proposal(r) \in proposed
    BY <2>1 DEF SafetyInv, ClientInv, Approval!Proposal
  <2>5. r \notin confirmed
    <3>1. r.n = sent[d] + 1 /\ r.dev = d
      OBVIOUS
    <3> QED
      BY <2>2, <3>1 DEF OnceInv
  <2>6. Approval!Confirm(r)
    BY <2>1, <2>4, <2>5, DeviceEffect DEF Approval!Confirm
  <2> QED
    BY <2>3, <2>6 DEF Approval!Next, ApprovalRequests
<1> QED
  BY <1>1, <1>2

\* Described, confirmed, done once: the whole of it implements CommandApproval.
THEOREM ImplementsApproval == Spec => ApprovalSpec
<1>1. Init => Approval!Init
  BY DEF Init, Approval!Init
<1>2. TypeOK /\ SafetyInv /\ OnceInv /\ [Next]_vars => [Approval!Next]_(Approval!approvalVars)
  <2> SUFFICES ASSUME TypeOK, SafetyInv, OnceInv, [Next]_vars
               PROVE  [Approval!Next]_(Approval!approvalVars)
    OBVIOUS
  <2>1. CASE \E d \in Devices : DeviceStep(d)
    BY <2>1, ApprovalOfDevice
  <2>2. CASE \E k \in calls : CallStep(k)
    BY <2>2, ApprovalOfCall
  <2>3. CASE UNCHANGED <<proposed, confirmed, effects, memory>>
    BY <2>3 DEF Approval!approvalVars
  <2> QED
    BY <2>1, <2>2, <2>3 DEF Next, CreateMatter, vars, server
<1> QED
  BY <1>1, <1>2, TypeCorrect, Safety, ChangedOnce, PTL DEF Spec, ApprovalSpec, Approval!Spec
=============================================================================
