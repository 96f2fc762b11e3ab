---------------------------- MODULE WorkspaceReader ----------------------------
(***************************************************************************)
(* Reading the mail and the calendar by command: /v1/command, the Workspace *)
(* service and its HTTP client, composed with the OAuth broker.  The inbox  *)
(* takes one GET for the list and one for every message of it, and every    *)
(* GET asks the broker for the access token again: callbacks, refreshes and *)
(* withdrawals come in between.                                            *)
(***************************************************************************)
EXTENDS GoogleOAuth

CONSTANTS
    FixedSubject,   \* JAFAR_GOOGLE_OAUTH_SUBJECT, or None
    MaxMessages,    \* bound: messages in the inbox
    MaxCommands     \* bound: commands

ASSUME SubjectAssumption == FixedSubject \in Subjects \cup {None}
ASSUME ReaderBounds == MaxMessages \in Nat /\ MaxCommands \in Nat

VARIABLES
    reading,    \* the command each thread works on
    commands

readerVars == <<vars, reading, commands>>

\* asked: the subject the command is for; subject: the one whose tokens the
\* transport asks for; pc is "get" for a request to Google; got: the messages
\* or events read so far; under: the consents they were read with.
Reading ==
    [pc : {"idle", "token", "refresh", "get"}, intent : {"mail", "calendar"},
     asked : Subjects \cup {None}, subject : Subjects \cup {None}, token : Consents \cup {None},
     list : BOOLEAN, listed : 0 .. MaxMessages, got : 0 .. MaxMessages, under : SUBSET Consents,
     status : {"none", "answered", "auth_required", "failed"}]

NotReading ==
    [pc |-> "idle", intent |-> "mail", asked |-> None, subject |-> None, token |-> None,
     list |-> TRUE, listed |-> 0, got |-> 0, under |-> {}, status |-> "none"]

ReaderTypeOK == reading \in [Threads -> Reading] /\ commands \in 0 .. MaxCommands

ReaderInit == Init /\ reading = [t \in Threads |-> NotReading] /\ commands = 0

Step(t, r) == reading' = [reading EXCEPT ![t] = r]
End(t, status) == Step(t, [NotReading EXCEPT !.status = status])

\* resolve_google_oauth_subject.
Resolve(u) == IF FixedSubject = None THEN u ELSE FixedSubject

-----------------------------------------------------------------------------
\* NaturalLanguageWorkspaceRouter: mail comes first.
Intent(markers) == IF "mail" \in markers THEN "mail" ELSE "calendar"

\* Mutant: the transport keeps the subject it was first built for.
ReadCommandCached(t, u, markers) ==
    /\ At(t, "idle") /\ reading[t].pc = "idle" /\ commands < MaxCommands
    /\ \E v \in Subjects :
          Step(t, [NotReading EXCEPT !.pc = "token", !.intent = Intent(markers),
                                     !.asked = Resolve(u), !.subject = v])
    /\ commands' = commands + 1
    /\ UNCHANGED vars

ReadCommand(t, u, markers) ==
    /\ At(t, "idle") /\ reading[t].pc = "idle" /\ commands < MaxCommands
    /\ Step(t, [NotReading EXCEPT !.pc = "token", !.intent = Intent(markers),
                                  !.asked = Resolve(u), !.subject = Resolve(u)])
    /\ commands' = commands + 1
    /\ UNCHANGED vars

\* access_token without a refresh: a token that is fresh, or none.
TokenAtHand(t) ==
    LET tokens == row[reading[t].subject]
    IN /\ reading[t].pc = "token"
       /\ \/ tokens.fresh /\ Step(t, [reading[t] EXCEPT !.pc = "get", !.token = tokens.access])
          \/ ~tokens.fresh /\ tokens.refresh = None /\ End(t, "auth_required")
          \/ CallsMayFail /\ End(t, "failed")
       /\ UNCHANGED <<vars, commands>>

BeginRefresh(t) ==
    /\ reading[t].pc = "token"
    /\ LoadToken(t, reading[t].subject)
    /\ Step(t, [reading[t] EXCEPT !.pc = "refresh"])
    /\ UNCHANGED commands

\* A refresh that Google denies is an authorization error, any other failure is not.
RefreshForReader(t) ==
    /\ reading[t].pc = "refresh"
    /\ Refresh(t)
    /\ \/ thread'[t].pc = "save_refresh" /\ UNCHANGED reading
       \/ /\ thread'[t].pc = "idle"
          /\ \/ thread[t].tokens.refresh \in revoked /\ End(t, "auth_required")
             \/ CallsMayFail /\ End(t, "failed")
    /\ UNCHANGED commands

SaveForReader(t) ==
    /\ reading[t].pc = "refresh"
    /\ SaveRefresh(t)
    /\ \/ /\ Upsert(thread[t].subject, thread[t].tokens)
          /\ Step(t, [reading[t] EXCEPT !.pc = "get", !.token = thread[t].tokens.access])
       \/ CallsMayFail /\ End(t, "failed")
    /\ UNCHANGED commands

-----------------------------------------------------------------------------
\* GoogleHTTPClient.get, and what the two providers make of it.

Used(t) == [reading[t] EXCEPT !.under = @ \cup {reading[t].token}, !.token = None]
Answered(t, r) == Step(t, [r EXCEPT !.pc = "idle", !.status = "answered"])

\* list_inbox and list_events: the list of messages, or all the events at once.
GetList(t) ==
    /\ reading[t].pc = "get" /\ reading[t].list /\ reading[t].token \notin revoked
    /\ \E n \in 0 .. MaxMessages :
          IF reading[t].intent = "mail" /\ n > 0
          THEN Step(t, [Used(t) EXCEPT !.pc = "token", !.list = FALSE, !.listed = n])
          ELSE Answered(t, [Used(t) EXCEPT !.listed = n, !.got = n])
    /\ UNCHANGED <<vars, commands>>

\* _fetch_metadata, for the next message of the list.
GetMessage(t) ==
    /\ reading[t].pc = "get" /\ ~reading[t].list /\ reading[t].token \notin revoked
    /\ LET more == [Used(t) EXCEPT !.got = @ + 1]
       IN IF more.got = more.listed THEN Answered(t, more)
          ELSE Step(t, [more EXCEPT !.pc = "token"])
    /\ UNCHANGED <<vars, commands>>

\* Mutant: a message that cannot be read is left out.
GetFailsQuietly(t) ==
    /\ reading[t].pc = "get"
    /\ \/ reading[t].token \in revoked /\ End(t, "auth_required")
       \/ CallsMayFail /\ Answered(t, reading[t])
    /\ UNCHANGED <<vars, commands>>

\* A withdrawn token is answered with 401; every other error ends the command
\* as well, and nothing that was read so far is used.
GetFails(t) ==
    /\ reading[t].pc = "get"
    /\ \/ reading[t].token \in revoked /\ End(t, "auth_required")
       \/ CallsMayFail /\ End(t, "failed")
    /\ UNCHANGED <<vars, commands>>

ReaderStep(t) ==
    \/ TokenAtHand(t) \/ BeginRefresh(t) \/ RefreshForReader(t) \/ SaveForReader(t)
    \/ GetList(t) \/ GetMessage(t) \/ GetFails(t)

-----------------------------------------------------------------------------
\* The rest of the broker, in threads that read nothing.
BrokerStep ==
    /\ \/ \E t \in Threads :
             /\ reading[t].pc = "idle"
             /\ Exchange(t) \/ SaveGrant(t) \/ (\E c \in Consents : Callback(t, c))
       \/ \E c \in Consents :
             StateExpires(c) \/ Revoke(c) \/ \E u \in Subjects : AuthorizationUrl(Resolve(u), c)
       \/ \E u \in Subjects : TokenExpires(u)
    /\ UNCHANGED <<reading, commands>>

RestartAll ==
    Restart /\ reading' = [t \in Threads |-> NotReading] /\ UNCHANGED commands

ReaderNext ==
    \/ \E t \in Threads :
          \/ ReaderStep(t)
          \/ \E u \in Subjects, markers \in (SUBSET {"mail", "calendar"}) \ {{}} :
                ReadCommand(t, u, markers)
    \/ BrokerStep \/ RestartAll

ReaderSpec == ReaderInit /\ [][ReaderNext]_readerVars

-----------------------------------------------------------------------------
(* Properties *)

\* What a command answers was read with consents of the subject it was asked
\* for only, whatever was stored, refreshed or withdrawn between its requests,
\* and it is all that was listed: an answer is whole or there is none.
MailIsWholeAndOwn ==
    \A t \in Threads :
        reading[t].status = "answered" =>
            /\ reading[t].got = reading[t].listed
            /\ \A c \in reading[t].under : owner[c] = reading[t].asked

(* The inductive strengthening the proof rests on. *)
ReadsFor(t) ==
    LET r == reading[t]
    IN /\ r.pc # "idle" => /\ r.asked \in Subjects /\ r.subject = r.asked /\ r.status = "none"
                           /\ IF r.list THEN r.got = 0 ELSE r.got < r.listed
       /\ r.pc = "refresh" => thread[t].pc \in TokenSteps /\ thread[t].subject = r.asked
       /\ r.pc = "get" => r.token \in Consents /\ owner[r.token] = r.asked
       /\ \A c \in r.under : r.asked \in Subjects /\ owner[c] = r.asked
       /\ r.status = "answered" => r.got = r.listed
ReaderInv == ReaderTypeOK /\ \A t \in Threads : ReadsFor(t)
=============================================================================
