------------------------------ MODULE ApiServer ------------------------------
(***************************************************************************)
(* The API process: the requests its threads work on (an analysis of a text *)
(* or a research question each), the document analysis that has the event   *)
(* loop, the Telegram poller that needs the loop for every step of its own, *)
(* and the matter catalogue that all of them read while it grows.           *)
(***************************************************************************)
EXTENDS DocumentAnalysis, LegalResearch, TelegramComments

CONSTANT MaxRequests   \* bound: requests accepted and comments written

ASSUME ThreadAssumption == Researchers = Threads
ASSUME RequestsBound == MaxRequests \in Nat

VARIABLE requests   \* requests and comments so far

serverVars == <<matters, analysis, research, configured, commentVars, requests>>

TypeOK ==
    /\ CatalogTypeOK /\ AnalysisTypeOK /\ ResearchTypeOK /\ CommentsTypeOK
    /\ requests \in 0 .. MaxRequests

Init == AnalysisInit /\ ResearchInit /\ CommentsInit /\ requests = 0

-----------------------------------------------------------------------------
Working(a) == analysis[a].pc # "idle" \/ (a \in Threads /\ research[a].pc # "idle")

Accept == requests < MaxRequests /\ requests' = requests + 1

\* While the file is read the loop is free; then DocumentWorkflow has it.
LoopFree == analysis[Loop].pc \in {"idle", "extract"}

AcceptAnalysis(a) ==
    /\ Accept /\ ~Working(a)
    /\ a = Loop => LoopFree
    /\ \E t \in Texts, m \in GivenIds, y \in MatterTypes :
          \/ a \in Threads /\ RequestText(a, m)
          \/ a = Loop /\ RequestDocument(t, m, y)
    /\ UNCHANGED <<research, configured, commentVars>>

AcceptQuestion(a) ==
    /\ Accept /\ ~Working(a)
    /\ (\E t \in Texts : AskCommand(a, t)) \/ (\E m \in Matters : AskEndpoint(a, m))
    /\ UNCHANGED <<analysis, commentVars>>

WorkOnAnalysis(a) == AnalysisStep(a) /\ UNCHANGED <<research, configured, commentVars, requests>>
WorkOnQuestion(a) == ResearchStep(a) /\ UNCHANGED <<analysis, commentVars, requests>>

\* POST /v1/matters, in a thread that does nothing else.
AddMatter(m) ==
    CreateMatter(m) /\ UNCHANGED <<analysis, research, configured, commentVars, requests>>

Poll == LoopFree /\ PollerStep /\ UNCHANGED <<matters, analysis, research, configured, requests>>

\* Users and Telegram do not wait for the loop.
Write ==
    /\ Accept /\ \E c \in Comments : WriteComment(c)
    /\ UNCHANGED <<matters, analysis, research, configured>>
Post == PostReply /\ UNCHANGED <<matters, analysis, research, configured, requests>>

\* A restart ends every request without an answer.
Restart ==
    /\ RestartPoller
    /\ analysis' = [a \in Actors |-> NoRequest]
    /\ research' = [a \in Threads |-> NoQuestion]
    /\ UNCHANGED <<matters, configured, requests>>

Next ==
    \/ \E a \in Actors : AcceptAnalysis(a) \/ WorkOnAnalysis(a)
    \/ \E a \in Threads : AcceptQuestion(a) \/ WorkOnQuestion(a)
    \/ \E m \in Matters : AddMatter(m)
    \/ Poll \/ Write \/ Post \/ Restart

Spec == Init /\ [][Next]_serverVars

\* Every call that is waited for has a timeout, the pool gives every request a
\* thread, and the loop comes back to the poller.
FairSpec ==
    /\ Spec
    /\ \A a \in Actors : WF_serverVars(WorkOnAnalysis(a))
    /\ \A a \in Threads : WF_serverVars(WorkOnQuestion(a))
    /\ WF_serverVars(Poll)
    /\ WF_serverVars(Post)

-----------------------------------------------------------------------------
\* Properties.

\* Every request ends, and the poller, which waits while a document has the
\* loop, gets through the comments unless getUpdates ended it.
AllAnswered == AnalysesEnd /\ ResearchEnds /\ InboxDrained

-----------------------------------------------------------------------------
\* The inductive invariant.
ServerInv == TypeOK /\ ResearchInv /\ DocumentInv /\ PollerInv
=============================================================================
