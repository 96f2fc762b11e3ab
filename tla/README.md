# A TLA+ verification of Jafar

Jafar is a private assistant for legal work: a FastAPI process (`src/src/jafar`), a Telegram bot, two Supabase Edge
Functions that process documents (`src/supabase/functions`), SQL functions (`src/supabase/migrations`) and an Apple
client (`src/apple`). This directory holds TLA+ models of the parts of it that keep state, meet failures or decide who
sees what, what TLC finds about them on small instances, and theorems about them that TLAPS checks for every instance.

## 1. The system

| Part | State it keeps | Operations | Talks to | What is hard about it | What makes it correct |
|---|---|---|---|---|---|
| Editorial autopost (`telegram_editorial.py`, `editorial_autopost.py`, `visual_policy.py`, `telegram_update_receiver.py`, `telegram_runtime.py`) | a SQLite row per post; a polling offset in memory | create a post, publish / rewrite / new image / reject by button, poll | language and image providers, Telegram, the owner | coroutines interleave at every Telegram call; calls time out after being executed; the offset is lost by a restart | only what the gate lets pass and the owner (or the GREEN rule) approved is published; the row tells the truth; no press is lost |
| Document recovery (`recovery_worker_runtime.py`, `document_retry.py`, `supabase_*recovery*.py`) | the document's status, a queue row with a lease, a batch in each worker | enqueue due, requeue expired, claim, run a job, heartbeat, finish, shut down | database RPCs, the document processor | workers race between reading and claiming; leases of waiting jobs run out; replies are lost; workers die | one worker per document; completed documents stay completed; claims come back |
| Edge workers (`document-ocr-worker-v4`, `document-pipeline-worker-v3`) | OCR and pipeline jobs, the document's status and review flag, pages, chunks, embeddings, analyses | one job per invocation, every 30 s | claim RPCs, storage, OpenAI | updates by job id that no lease fences, errors nobody looks at, invocations that are killed or overrun their lease, limits of 100 and 80 chunks | only text OCR was sure of is embedded and analyzed; a completed stage has its rows; the review flag follows OCR; OCR ends with pages or with a person |
| Email pipeline (`email_pipeline.py`, `inbox_processor.py`, `attachment_storage.py`, `idempotency.py`) | a ledger of claimed and processed messages, stored attachments, statuses, saved results | process a message | ledger, storage and result RPCs | a message is delivered again; any step can raise or the process can stop | a message is processed once, its result saved, its originals kept |
| Google OAuth and the Workspace reader (`google_oauth.py`, `supabase_google_token_store.py`, `google_workspace*.py`, SQL) | one-time states in memory, a token row per subject | start, callback, access token with refresh; list and read mail, calendar | Google, the token table | request threads race a refresh against a new consent; codes and states are used once; a listing is read message by message | a state is accepted once; tokens and mail stay with their subject; an answer is whole |
| Model router (`model_router.py`, `privacy_policy.py`, `model_consensus.py`, `routed_legal_analyzer.py`, providers) | none | route, fall back, verify, analyze | model providers | availability changes between deciding and calling | confidential text stays local; verification fails closed; an analysis is always answered |
| API process (`main.py`) | threads, an event loop, the polling task | lifespan, dispatch | all of the above | one handler blocks the event loop; a restart ends requests | every request ends, the poller is not starved |
| Matters (`supabase_matter_repository.py`, `matter_matching.py`, `natural_language_research.py`, `persistent_matter_catalog.py`) | matters | create, match a document, route a question | database | the catalogue grows between a decision and its use | a document or question goes to the matter it is clearly about, or to none |
| Document analysis (`document_intake.py`, `document_parsers.py`, `document_workflow.py`) | none | analyze a text, analyze an upload | matters, the model router | the matter is looked up twice, by two rules | the analysis is made as one of the matter's type |
| Legal research (`legal_research_*.py`, `openai_legal_research.py`, `supabase_matter_rag.py`, `supabase_memory_repository.py`) | chunks and memories in the database | ask by endpoint, ask by command | database, embeddings, a model | rows and citations come from outside | an answer cites retrieved chunks of its own matter only |
| Telegram comments (`comment_*.py`, `response_safety_gate.py`, `telegram_*.py`) | the poller's offset | classify, reply | Telegram | redelivered updates, lost calls | only harmless comments are answered, a bounded number of times |
| Voice and commands (`src/apple`, `memory_service.py`, `memory_commands.py`, `main.command`) | a session's phase, its pending approval, memories | listen, send, approve, cancel, remember, forget, recall | the command API | answers arrive after cancel or a new request | nothing consequential runs without its own approval |

The complete list of components, with the ones that are not modelled and why, is in `PROJECT.json` under
`components`; the hazards, each at its line, are under `hazards`.

## 2. The modules

The most important behaviour came first: what reaches a public channel, a model provider or a client's file without being
asked for, and what is lost when something fails.

| Module | Models | State of the code -> variables | Steps |
|---|---|---|---|
| `EditorialPolicy` | `editorial_autopost.py`, `visual_policy.py`: the maker, the evaluator and the visual gate, as operators | - | `GenerateBundle`, `RegenerateVisual`, `AutoEligible`, `VisualGate` |
| `EditorialAutopost` | `TelegramEditorialController`, `EditorialQueue`, `TelegramUpdateReceiver` | SQLite table -> `queue`; coroutines at their awaits -> `job`; Telegram's update queue -> `updates`, `acked`; the poller's locals -> `offset`, `last`; the two chats -> `shown`, `channel`, `copies` | one action per handler up to its first await, then one per Telegram call: executed, answered, raised |
| `DocumentRecovery` | `RecoveryWorkerRuntime`, `DocumentRetryService`, the recovery RPCs | processing_status -> `status`; the queue's rows -> `jobs`; each process -> `worker`, `stop` | one action per call of the loop, of `retry` and of the end of `_run_job`; leases, heartbeats, shutdown, death |
| `EmailIntake` | `EmailPipeline`, `InboxProcessor`, ledger, attachment storage, status and result stores | `claimed`, `processed`, `storage`, `docStatus`, `saved`; each process -> `worker` | one action per call, `Deliver`, `Die` |
| `GoogleOAuth` | `GoogleOAuthBroker`, the state store, the upsert of `google_oauth_tokens` | states -> `remembered`, `expired`; table -> `row`; request threads -> `thread` | one action per call of a callback and of `access_token`; expiry, withdrawal, restart |
| `WorkspaceReader` | `GoogleWorkspaceHTTP`, `GoogleWorkspaceReader` and the read-only commands that use them; extends `GoogleOAuth` | a command in flight -> `reader`, `commands` | one action per request of a command; each takes a token from the broker |
| `ModelRouting` | `MultiModelRouter`, `PrivacyPolicy`, the providers' retry loops, `ModelConsensus`, `RoutedLegalAnalyzer` | a router call -> `run`; what each provider saw -> `run[c].sent` | health checks, one action per attempt, fallback, verification, the heuristic answer |
| `MatterCatalog` | the matter store, `MatterMatcher`, `NaturalLanguageResearchRouter` | the table -> `matters` | `CreateMatter`; the two scores and what is decided from them, as operators |
| `DocumentAnalysis` | `POST /v1/analyze`, `POST /v1/documents/analyze`, extractor, parsers, workflow; extends `MatterCatalog` | a request in progress -> `analysis` | one action per call |
| `LegalResearch` | both ways to ask about a matter; extends `MatterCatalog` | a question in progress -> `research` | route, embed, retrieve, recall, answer and check |
| `TelegramComments` | `run_polling`, the comment pipeline, `TelegramOutbound` | the group -> `inbox`, `replies`; the receiver -> `poller`, `acked` | fetch, handle, post, restart |
| `ApiServer` | the process: composes the four modules above | - | accepts requests for its threads and the loop; polls only while the loop is free; restarts |
| `VoiceCommands` | `VoiceSessionViewModel`, `VoiceRecognizer`, `RemoteCommandClient`; `main.command`, `MemoryCommandExecutor` | published properties -> `client`; recognizer -> `recognizer`; requests in flight -> `calls`; rows -> `memory`; catalogue -> `matters` | one action per tap and per continuation after an await, per recognizer callback, per step of the endpoint |
| `DocumentWorkers` | both Edge Functions and their cron schedule | tables -> `jobs`, `attempts`, `docs`, `pages`, `chunks`, `analyses`; invocations -> `runs` | one action per awaited call of either worker; claims, death |

Five abstract specifications say what a component promises with its machinery taken away, and the detailed module is
shown to implement them, by TLC as a PROPERTY and by TLAPS as a theorem:

- `ApprovalGate` (refined by `EditorialAutopost`, formula `GateSpec`): a post is approved, then its photo appears in
  the channel, then its text. A post counts as approved when the owner's publish press on it reaches the bot, or when
  its draft is eligible for automatic publication, that is switched on, and the post is about no client's case and no news.
- `DocumentLifecycle` (refined by `DocumentRecovery`, formula `LifecycleSpec`): failed, processing, then completed for
  good or failed again.
- `MessageLedger` (refined by `EmailIntake`, formula `LedgerSpec`): a message is new, held, done, or stuck if its claim was
  lost. Only what is held is written, only what has a result becomes done, and done and stuck are final. A phase is read off
  the ledger and the workers: a claim that no worker holds, and that nobody will give up any more, is stuck (`PhaseOf`).
- `ConsentGrant` (refined by `GoogleOAuth` and by its composition with the readers, formula `ConsentSpec`): a consent is
  opened for one subject, used once or given up, and a subject holds tokens of its own used consents only, never dropping
  a refresh token. A stage is read off the state store and the exchanges (`StageOf`); old states that are purged, expire or
  are lost in a restart are given up together.
- `CommandApproval` (refined by `VoiceCommands`, formula `ApprovalSpec`): a command is described to a device before it can be
  confirmed there, each tap on confirm is a request of its own, and a confirmed request changes the memory once at most,
  by adding one memory with a new id, filed where its words fit, or deleting the one it names.

Two compositions put components together that interact:

- `WorkspaceReader` runs commands beside the callbacks and refreshes of `GoogleOAuth`, which they use for every request;
  `ReaderSpec => Spec` says that the composition is still the broker, so that what holds of the broker holds of it.
- `ApiServer` runs analyses, questions and comments in one process. They meet in two places: the catalogue, which grows
  while a decision rests on it, and the event loop, which `analyze_document` keeps for itself while the poller waits.

For every component `X` that is run there is `MCX`, which gives data to TLC, and `XProofs`, which holds the theorems.
Each definition is traced to its lines in `PROJECT.json`, under `map`.

## 3. What the runs check

Twelve runs. The two marked *violation* each check one property that a document or a test states and the code does not
keep; see section 6.

| Run (`.cfg`) | Question | Instance | Distinct states |
|---|---|---|---|
| `editorial_faults` (`EditorialFaults`) | With calls that fail and one restart that redelivers presses: is what is in the channel gated and approved, do rows tell the truth, is no press lost, does a publication end? | 1 post (a guide, a client's case or breaking news with a verified photograph), owner and a stranger, 2 presses of 4 kinds, 1 restart | 414,713 |
| `editorial_dry_run` (`EditorialDryRun`) | With sending switched off, two posts and a poller that may die: does every waiting post have a keyboard for its current version? | 2 posts, 2 presses of 3 kinds, 4 kinds of request | 472,130 |
| `editorial_stale_approval` (*violation*) | Is every published version one the owner saw when pressing? | 1 post, 2 presses, no failure | violated at depth 16 |
| `recovery_faults` (`RecoveryFaults`) | Two workers with batches, lost replies, lost heartbeats, expiring leases, a shutdown and a restart: one processor, completed for good? | 2 workers, 2 documents, batch 2 | 272,948 |
| `recovery_shutdown` (`RecoveryShutdown`) | Do claimed jobs come back, and is death the only way to strand a document while no call fails? | the same, calls that end well, fairness | 276,182 |
| `email_faults` (`EmailFaults`) | Redelivery, failing calls, dying workers: one worker per message, are only held messages written and done ones final (`LedgerSpec`), do originals and statuses agree with the result? | 2 workers, 2 messages with 3 and 2 attachments | 214,659 |
| `oauth_faults` (`OAuthFaults`) | Concurrent, replayed, late callbacks and refreshes while commands read: do tokens and mail stay with their subject, does the broker do no more than use each consent once, for its subject (`ConsentSpec`), is an answer whole? | 2 subjects, 2 consents, 2 threads, 1 restart, 2 commands, 2 messages | 867,102 |
| `routing_faults` (`RoutingFaults`) | Any request, any outcome of every health check and attempt: who sees a text, is a verification honest, is an analysis answered, does every run end? | 1 caller, every kind of request, 4 sets of providers | 3,329 |
| `routing_verifier` (*violation*) | Is a verification by another provider than the answer? | 1 verified request | violated at depth 8 |
| `server_faults` (`ServerFaults`) | Requests, comments and a growing catalogue in one process that restarts: right matter, grounded answers, safe and bounded replies, everything answered? | 1 thread, the loop, 2 matters, 2 texts, 2 requests or comments, 1 restart | 142,448 |
| `voice_faults` (`VoiceFaults`) | Taps, late answers, recognizer callbacks of older sessions, timeouts, a catalogue that changes: does only what was described and confirmed happen, and once (`ApprovalSpec`), does the screen show what would be confirmed, no hidden microphone? | 1 device, 3 commands, 2 starts, 3 requests, 1 callback | 2,309,921 |
| `workers_faults` (`WorkersFaults`) | Failing calls, unread errors, killed invocations and overrun leases: only trusted text downstream, completed stages have rows, the review flag follows OCR, embeddings leave no gap, OCR ends? | 1 document, 3 pages, 2 invocations, 1 fault | 1,335,355 |

The properties, by component; each is commented where it is defined.

- **EditorialAutopost.** `GateRespected`: nothing is in the channel that the visual gate refuses. `PublishedIsDelivered`:
  a row that says published has its whole current version in the channel. `ApprovalGated`, `GateSpec`: nothing appears
  without approval, no text before its photo, and what is about a client's case or news is approved by the owner only. `AckedHandled`: an update Telegram has forgotten was handled.
  `CopiesBounded`: how often a text can be repeated, given presses and restarts. `LatestPressWins`: the row follows
  the last press when the poller has drained its queue. `OwnerDecides`: a row changes only while the owner's
  press or the post's own creation is being executed. `NothingOrphaned`: a post in review can be acted on.
  `EveryPressHandled`, `PublishingResolves`: liveness.
- **DocumentRecovery.** `OneProcessor`, `DoneMeansCompleted`, `LifecycleSpec` (a completed document stays completed);
  `OnlyDeathStrands`; `ClaimsEnd` (liveness).
- **EmailIntake.** `OneWorkerPerMessage`, `StatusesAgree`, `OriginalsKept`; `LedgerSpec`: nothing changes of a message that is not held,
  done is final and has a result, and a message is stuck only where the ledger or the workers can fail.
- **GoogleOAuth, WorkspaceReader.** `TokensBelong`; `ConsentSpec`: a consent is used once and only while it is open,
  refresh tokens are never dropped; `MailIsWholeAndOwn`: an answer to
  a command has everything that was listed, read with consents of its own subject, whatever failed or was withdrawn
  between two of its requests.
- **ModelRouting.** `SentIsPermitted`: no provider is sent what the policy, the caller's list or a remote Ollama address keeps
  from it, on the fallback path too. `VerificationIsHonest`: no verified answer without two answers, and if one provider gave
  both, the metadata shows the fallback. `AnalysisAnswered`: an analysis of the API never ends in an error.
  `EveryRunEnds` (liveness).
- **ApiServer.** `AnalysisFitsMatter`, `RoutedClearly`, `AnswersGrounded`, `RepliesAreSafe`, `RepliesBounded`,
  `AllAnswered` (liveness).
- **VoiceCommands.** `ApprovalSpec`: no change without its own confirmation, and no second one for it, through timeouts,
  lost answers and repeated taps; `PendingIsShown`, `MicrophoneIsShown`.
- **DocumentWorkers.** `OnlyTrustedText`, `CompletedHasRows`, `ReviewAgrees`; `EmbeddedInOrder`: what has no
  embedding comes after everything of its chunking that has one; `OcrSettles` (liveness).

Every property has a mutant in `PROJECT.json`: a definition of the model with a plausible bug (a dropped guard, a missing
write, a wrong offset), under which the run finds the property violated. The mutated forms stand before the
definition they replace, with a comment that begins with "Mutant".

### Bounds, and why they are enough

- *Editorial.* Two presses are enough for a press against an older keyboard, a repeated press and a press during
  another's call; one restart for a redelivery. One post suffices where only its own row, presses and coroutine
  interact; `EditorialDryRun` has two for posts that share the poller. The three requests are the three ways
  to the channel: on its own, by a press only, and as a documentary photograph.
- *Recovery.* Two workers are the smallest race; a batch of two has a job that waits without a heartbeat; one restart
  leaves a claim behind. Documents are interchangeable, and the run without liveness uses that symmetry.
- *Email.* Two workers and two messages of which one is redelivered at will; the messages have readable and unreadable
  attachments, and a name occurs in both messages but not twice in one (that precondition is `DistinctNames` in the proofs).
- *OAuth.* Two consents: the old and the new; two threads race; two subjects can be mixed up; two messages are one that was
  read before a failure and one after it; with two commands one reads while the other one answers. Subjects, consents and
  threads are interchangeable (no definition names one), and the run uses that symmetry.
- *Routing.* Runs share nothing but the configuration, so one caller is enough; the proof has any number. Two retries are the
  code's default.
- *Server.* Two matters: one that a text is clearly about, and one that ties with it. One thread and the loop: requests of
  threads meet only in the catalogue. Two requests let a comment wait behind a document, or be delivered twice by a restart.
  Sending is switched on, so that a reply can be wrong; that nothing is sent in a dry run is what `OnlySafeReplies` proves for
  every setting, no run reaches it.
- *Voice.* Two starts wait for the permissions together; three requests make a command, its approval and a repetition after
  a timeout. The commands are a note that is added, a deletion that is ambiguous once the matter is in the catalogue, and a
  recall. `MaxCallbacks` counts what the recognizer reports of its own; the callback that stopping it causes comes besides.
- *Workers.* Three pages with EmbedLimit 2 make a batch, an order inside it, and a chunk after it; OCR finds nothing, blank
  pages, three sure pages, or is sure of one page and not of the other; 84 and 85 are the two sides of THRESHOLD. EmbedLimit
  2 and AnalyzeLimit 1 stand for 100 and 80, so that both are met. Two invocations overlap. Attempts go to the code's own
  MAX_RETRIES.

Every counter that a bound caps (`MaxPresses`, `MaxCrashes`, `MaxRestarts`, `MaxStarts`, `MaxCallbacks`, `MaxSends`, `MaxFaults`,
`MaxMessages`, `MaxCommands`, `MaxComments`, `MaxRequests`) caps an action of the environment and none of the code's
(`MaxRetries` is the code's own parameter); the theorems hold for every value of them. CHECK_DEADLOCK is off
in the runs where the environment can use up its bounds and the system has nothing left to do, each cfg says so.

### Fairness

- `EditorialAutopost!Fairness`: the poller goes on and each coroutine's Telegram call ends. `TelegramTransport`
  and the receiver give their HTTP client a timeout of 40 s, and the event loop runs what is runnable. Nothing makes users
  press or requests arrive. The run has a `getUpdates` that does not raise: when it does, polling is over until a restart
  (hazard `telegram_update_receiver.py:40`).
- `DocumentRecovery!FairSpec`: workers go on, and a lease that nobody renews runs out, as time passes.
- `DocumentWorkers!Fairness`: cron calls the OCR worker every 30 s, so that a claimable job is claimed in the end, and an
  invocation that is not killed goes on. Faults are finitely many (`MaxFaults`).
- `ModelRouting!FairSpec`: a call that was started goes on; every provider's client has a timeout.
- `ApiServer!FairSpec`: a request that was accepted goes on (timeouts again, and a thread of its own or the loop), the poller
  goes on when the loop is free, and Telegram executes a sendMessage it received. Nothing makes requests or comments arrive.
  The poller may die of a `getUpdates` that raises; `InboxDrained` then asks for nothing, as the code does not.
- The other components have safety properties only, and no fairness.

## 4. What is proved

TLAPS checks the theorems below for every value of the constants that satisfies the ASSUMEs of the modules, which
only give constants their types (and `NoWorker`, `None`, `Nothing`, `Nobody`, `NoMatter`, `EmptyId`, `Poller` values of their own);
no proof uses a bound, but for the one that says so below. `ApiServer` assumes that there is some text and some matter type, and finitely many matters. Four theorems assume
more in their statement, and it says so: `EveryPostHasItsKeyboard` and `DeathAloneStrands` that calls do not fail (the run
of the former shows the same; what a failure does is a hazard listed at its line), `OriginalsSafe` and `ResultsAgree` that
no message has two attachments of one name.

| Module | Theorems | The invariant behind them, and why it is needed |
|---|---|---|
| `EditorialAutopostProofs` | `TypeCorrect`, `AutoEligiblePassesGate`, `AtLeastOnce`, `GateIsRespected`, `PublishedIsTrue`, `ApprovalIsRequired`, `GreenStaysEvergreen`, `OnlyOwnerDecides`, `LastPressDecides`, `RepetitionIsBounded`, `EveryPostHasItsKeyboard` (assumes `~CallsMayFail` and `MaxCrashes = 0`, as its run does), `ImplementsApprovalGate` | `IndInv` = `StructInv` (types, the poller's offset never ahead of what was handled, a coroutine's post has a row) and `SafetyInv` (a coroutine that waits for a channel call has a gated draft of an approved post, and its photo is there when the text goes out). The property alone says nothing of a send in flight. Four results need an invariant of their own: `RiskInv` (a post whose first draft is GREEN is about no case and no news: the policy makes it so, and no rewrite changes the request; the gate needs it to approve an automatic publication), `WinsInv` (the last press is honoured as soon as the poller is past it, also while later presses of other posts wait), `CopiesInv` (copies sent and presses still to be executed together stay below the bound; a restart pays for what it will repeat), `KeyboardInv` (the keyboard of the row's version is on screen whatever the status, or the coroutine that will show it is at work). `AutoEligiblePassesGate` is about the policy and needs no invariant. |
| `DocumentRecoveryProofs` | `MutualExclusion`, `DoneIsCompleted`, `CompletedForGood`, `DeathAloneStrands` (assumes `~CallsMayFail`), `ImplementsLifecycle` | `IndInv`: besides the types and the properties, a worker between claim and outcome has its document in processing, and one about to report success has it completed (`Held`). The claim RPC's check of the status then keeps a second worker out, leases or not. |
| `EmailIntakeProofs` | `TypeCorrect`, `OneWorker`, `DoneIsFinal`, `ImplementsLedger`, `OriginalsSafe`, `ResultsAgree` | `Exclusive`: a worker that may still write works on a message that is claimed and not done, also while its except clause gives the claim up. `SavedFirst`: a worker that is about to mark a message done has saved its result; with `Exclusive` it makes each step one of the ledger's, or none. `AllKept`, under `DistinctNames`: what the worker has done so far is in the stores. |
| `GoogleOAuthProofs` | `TypeCorrect`, `OneTime`, `TokensStayApart`, `RefreshKept`, `ImplementsConsents`, `ReadersUseTheBroker`, `ReadersKeepConsents`, `MailStaysOwn` | `OnceInv`: a remembered state has no exchange yet. `BelongInv`: what a thread carries belongs to the subject it serves. `UsedInv`: it was also exchanged, and so were the tokens in the table, which is what a step of `ConsentGrant` asks of a save that comes long after the exchange. `ReadersUseTheBroker` is the step-by-step refinement `ReaderSpec => Spec`; what it gives about the token row is what the reader's own invariant needs: all that a command has read so far was read with a consent of its subject, and nothing listed is missing from what was read or is left to read. |
| `ModelRoutingProofs` | `TypeCorrect`, `OnlyPermitted`, `FailsClosed`, `AlwaysAnswered` | `RunInv`: the candidates of a run, of the verifier and of every fallback may see the text (`May`), and a run that verifies has its first answer. `SentIsPermitted` alone says nothing of a provider that was chosen and not yet asked. |
| `ApiServerProofs` | `ServerCorrect`, `DocumentsFitTheirMatter`, `AnswersStayGrounded`, `QuestionsRoutedClearly`, `OnlySafeReplies`, `RepliesStayBounded` | `ServerInv`, one part per component. `DocumentInv`, `ResearchInv`: what is already settled at each step of a request (the matter, the rows, the memories). `PollerInv`: only a message from the offset on can still be answered in this run of the process, so that its replies are at most the restarts before. The two lemmas under it, `MatchIsStrong` and `RouteIsClear`, are about the matchers: no number of title words makes up for the case number, and who is referred to alone is ahead of all others. |
| `VoiceCommandsProofs` | `TypeCorrect`, `ApprovalFirst`, `ImplementsApproval`, `ConfirmsWhatIsShown`, `NoHiddenMicrophone` | `SafetyInv`: every request in flight that is approved was confirmed and proposed, and the awaited one is about the command on the screen (`CallInv`); a pending command was proposed (`ClientInv`). `OnceInv`: a request number is used once and a request without an answer has changed nothing yet, so that the step that performs it is its first; ids come from a counter that never goes back, and a matter is only carried between two awaits of the endpoint if the words fit it. |
| `DocumentWorkersProofs` | `TypeCorrect`, `TrustedTextOnly`, `CompletedLeavesRows`, `ReviewFollowsOcr`, `NoneIsPassedOver` | `TrustInv`: pages marked completed have a sure confidence, and so have the rows an invocation has read. `RowsInv`: outside of overruns one invocation has a job, and one that is about to report success has left its rows (`Busy`, `Cutting`, `Ending`). `ReviewInv`: what the document will be told agrees with what the job was told (`OcrBusy`, `Closing`). `EmbedInv`: what precedes a chunk of a batch has its embedding or is in the batch too (`Ahead`), also when another invocation embeds the same rows or has replaced them; rows of a new chunking get a number no batch knows. |

The invariants are in the component's module after its properties, those of `DocumentWorkers` and of the reader beside the
theorems they serve. Each proof has the same layout: Init implies the invariant, one lemma or step per action, and a last
step that puts them together with PTL. A refinement is proved with the same invariants: initial states map to initial states, and
each step of the detailed module maps to a step of the abstract one or changes nothing of it (`GateStep`, and its like in the other modules). `tlapm <module>.tla` checks a module.

Only model-checked: the liveness properties `EveryPressHandled`, `PublishingResolves`, `ClaimsEnd`, `OcrSettles`,
`EveryRunEnds` and `AllAnswered` (liveness under fairness is out of the prover's reach). Every other property that holds in a run is stated by a theorem.
The two violated properties have their counterexample only.

## 5. Where the models abstract

- *Calls.* A remote call is executed or not, and answers or raises; an executed call whose answer is lost is one that
  raises after its effect. A request that arrives after its caller's timeout is treated as one that arrived before it.
- *Editorial.* `generate_bundle` runs synchronously and blocks the event loop: one step. A generation that raises in
  `create_post` leaves nothing behind and is not a step. A batch of getUpdates is not limited to 100. Drafts are what the gate and the
  evaluator tell apart, and a version.
- *Recovery.* The RPCs are not in the repository. `claim_failed_document_for_retry` raises unless the document is failed
  (`tests/test_supabase_retry_claim.py`), `finish_document_recovery_job` is fenced by worker_id
  (`tests/test_recovery_lease_contract.py`). A lease store is configured. Due times and the backoff are left out:
  a due document is due at any time.
- *Email.* The remote ledger and storage do what the in-memory ones of the repository do. Attachments are taken in
  order, unreadable ones skipped.
- *OAuth.* Signatures cannot be forged: a state is one the broker has issued. The code and state of a callback belong
  together. Tokens are named by the consent they come from.
- *Workspace.* A message is its place in the listing; rows of the listing without an id, which the code skips, do not occur.
  A broker is configured: without one, tokens from the environment serve every subject alike.
- *Routing.* What a provider answers is an answer, an error the router catches or one it does not. The text is what the policy
  tells apart.
- *Server.* A text is what the two matchers find in it about each matter, as numbers in hundredths; MARGIN stands for the
  floating-point comparison of two scores that are 0.10 apart. The matters are in Supabase (the in-memory store, for which a
  restart loses them, is not modelled). What the model answers to an analysis is the subject of `ModelRouting` and no part
  of these steps. A citation is a token the code's regular expression sees. A thread works on one request; the pool has a thread for
  every request. A comment is the set of marker lists it matches.
- *Voice.* The task of a tap runs before the next tap. The words an intent is found by are parameters (`Says`, `Target`,
  `Score`); of the intents that only read, recall is modelled, the others answer without an effect. `sendText`,
  `LocalCommandClient` and the app intents are left out.
- *Workers.* The claim functions are not in the repository: they give a queued job or one whose lease has run out, and
  count the attempt. Who inserts jobs is not there either: all jobs are queued from the start and may be claimed in
  any order of the stages, which is more than a caller does. The delay before a retry is left out; a claim while another
  invocation still works is a fault and puts the document into `overrun`. A page makes one chunk, in the order of the
  pages, or none if it is blank. Download, upload and recognition are one step, since only their failure matters. A fetch that throws
  where no try is, and a claim whose reply is lost, are the death of the invocation. Heartbeat rows are left out.

## 6. What the checks found

1. **An old keyboard publishes a new version** (`editorial_stale_approval`, `OnlyApprovedVersions`). The callback data
   names the publication only, so that a press on the keyboard of version 1 that is executed after a rewrite sends version 2
   (`telegram_editorial.py:113`). `docs/ARCHITECTURE.md:17`: "Never send or publish a legal response without explicit
   user approval." What the theorem `ApprovalIsRequired` gives is approval of the post, not of the version.
2. **A verifier verifies itself** (`routing_verifier`, `IndependentVerification`). The verifier is chosen before the primary
   runs; if the primary fails, the verifier is one of the fallbacks, and then answers both times (`model_router.py:101`).
   `VerificationIsHonest` is what remains: the metadata names the fallback.

Facts beside them that no document contradicts, seen while modelling:

- `retry` claims outside of its try: if the claim is executed and its call raises, the document stays in processing and
  nothing looks at it again (`document_retry.py:27`). `OnlyDeathStrands` shows that without failing calls only a worker's death does this.
- `access_token` saves what it loaded before the refresh, without looking at the row again, and so can overwrite a consent
  that was given meanwhile (`google_oauth.py:183`).
- The cancel button stays on the screen while the confirmed request is awaited; what was sent is executed
  (`VoiceSessionViewModel.swift:65`).
- Chunks after the hundredth are never embedded and those after the eightieth never analyzed
  (`document-pipeline-worker-v3/index.ts:174`, `:197`), and an OCR answer without a single proper page number completes
  the job with no page (`document-ocr-worker-v4/index.ts:175`).
- `POST /v1/analyze` uses the request's matter_type also when it names a matter, and looks for that matter only after the
  analysis (`main.py:386`); `POST /v1/documents/analyze` lets an empty matter_id pass, and the workflow then raises.
- An answer lists every retrieved chunk as a citation, also those the text does not cite (`legal_research_service.py:99`).
- A comment that is aggressive and has an ambiguous legal marker gets an automatic reply, since aggression is looked for first
  (`comment_classifier.py:29`); the audit record of a reply is built and dropped.
- `analysis_service.py` builds a router whose default policy forbids the only provider it registers; nothing calls it.

## 7. What is not modelled, and what comes next

Not modelled, with the reasons in `PROJECT.json`: adapters around HTTP APIs (registries, mail), prompts, pure functions over facts
that a caller passes in (case intelligence, entities, triage), the audit list, the bearer check and the settings, the alert
chain of the recovery scheduler, and code that nothing in the repository calls: matter events and deadlines
(`record_document_event` needs a signed-in user and has no caller), the Docling and fallback parsers, `supabase_inbound_state`,
`supabase_comment_audit`, the in-memory retriever and the contradiction service.

What is left, in order:

1. A composition of `EmailIntake` with the life of a document under recovery: what happens to a document that fails in
   a message that is delivered again while it is retried.
2. An abstract specification of the Edge workers' pipeline (a document's trusted text, its chunks, its analysis) and of a
   router call, refined like the five above.
3. The recovery scheduler's alert chain and the pure algorithms (chunkers, triage and risk scores), as functions against
   reference definitions over bounded inputs.
