--------------------------- MODULE DocumentRecovery ---------------------------
(***************************************************************************)
(* Recovery of failed documents: long-running worker processes that share   *)
(* one queue in the database (recovery_worker_runtime.py), and the retry    *)
(* service each of them runs on a document (document_retry.py over          *)
(* supabase_document_retry.py).                                             *)
(*                                                                         *)
(* Every call is a database RPC, executed atomically by a function that is  *)
(* not in the repository; it is modelled from its name, its parameters and  *)
(* what the callers rely on.  A call may raise, executed or not.  A worker  *)
(* is a thread that moves from call to call; its heartbeat thread keeps the *)
(* lease of the job it runs, and of no other job of its batch.              *)
(***************************************************************************)
EXTENDS Naturals, Sequences, FiniteSets, SequencesExt

CONSTANTS
    Workers,            \* worker processes; the name is the worker_id
    Documents,          \* documents under recovery; each has one queue row
    NoWorker,
    Stoppable,          \* workers that may be told to shut down
    BatchSize,          \* RecoveryWorkerConfig.batch_size
    CallsMayFail,       \* RPCs may raise
    HeartbeatsMayFail,  \* heartbeats may fail for as long as the lease runs
    MaxCrashes          \* bound: worker processes that die and start again

ASSUME WorkersAssumption == NoWorker \notin Workers /\ Stoppable \subseteq Workers
ASSUME DocumentsAssumption == IsFiniteSet(Documents)
ASSUME BatchAssumption == BatchSize \in Nat \ {0} /\ MaxCrashes \in Nat
ASSUME FaultsAssumption == {CallsMayFail, HeartbeatsMayFail} \subseteq BOOLEAN

VARIABLES
    status,  \* documents.processing_status of each document
    jobs,    \* the recovery queue's row of each document
    worker,  \* where each worker is, and the jobs of its batch still to be run
    stop,    \* workers whose stop event is set
    crashes  \* restarts so far

vars == <<status, jobs, worker, stop, crashes>>

-----------------------------------------------------------------------------
DocumentStatus == {"processing", "completed", "failed"}
NoJob == [state |-> "none", by |-> NoWorker, lease |-> FALSE]
RecoveryJob ==
    [state : {"none", "queued", "running", "completed", "failed"},
     by : Workers \cup {NoWorker}, lease : BOOLEAN]

\* The calls of run_forever, of retry, and of the end of _run_job.
LoopCalls == {"enqueue_due", "requeue_expired", "claim"}
RetryCalls == {"get_status", "claim_failed", "process", "set_completed", "set_failed"}
FinishCalls == {"finish_success", "finish_error"}
WorkerState ==
    [pc : LoopCalls \cup RetryCalls \cup FinishCalls \cup {"next", "wait", "stopped"},
     batch : Seq(Documents)]

\* The document of the job a worker runs: the first of its batch.
Doc(w) == Head(worker[w].batch)
InJob(w) == worker[w].pc \in RetryCalls \cup FinishCalls
Runs(w, d) == InJob(w) /\ Doc(w) = d

At(w, pc) == worker[w].pc = pc
GoTo(w, pc) == worker' = [worker EXCEPT ![w].pc = pc]

\* A call: it is executed and answered, or it raises, executed or not.
Call(w, at, effect, unchanged, reply, raised) ==
    /\ At(w, at)
    /\ \/ effect /\ GoTo(w, reply)
       \/ CallsMayFail /\ (effect \/ unchanged) /\ GoTo(w, raised)

Init ==
    /\ status = [d \in Documents |-> "failed"]
    /\ jobs = [d \in Documents |-> NoJob]
    /\ worker = [w \in Workers |-> [pc |-> "enqueue_due", batch |-> << >>]]
    /\ stop = {}
    /\ crashes = 0

-----------------------------------------------------------------------------
(* run_forever *)

\* enqueue_due_document_recovery: failed documents that are not queued yet.
Due == {d \in Documents : status[d] = "failed" /\ jobs[d].state \notin {"queued", "running"}}
Enqueue(D) ==
    jobs' = [d \in Documents |-> IF d \in D THEN [NoJob EXCEPT !.state = "queued"] ELSE jobs[d]]
Take(S) == {D \in SUBSET S : Cardinality(D) = IF Cardinality(S) < BatchSize
                                             THEN Cardinality(S) ELSE BatchSize}
EnqueueDue(w) ==
    /\ \E D \in Take(Due) :
         Call(w, "enqueue_due", Enqueue(D), UNCHANGED jobs, "requeue_expired", "wait")
    /\ UNCHANGED <<status, stop, crashes>>

\* Mutant: no lease store is configured.
RequeueExpiredSkipped(w) ==
    At(w, "requeue_expired") /\ GoTo(w, "claim") /\ UNCHANGED <<status, jobs, stop, crashes>>

\* requeue_expired_recovery_jobs
Expired == {d \in Documents : jobs[d].state = "running" /\ ~jobs[d].lease}
RequeueExpired(w) ==
    /\ Call(w, "requeue_expired", Enqueue(Expired), UNCHANGED jobs, "claim", "wait")
    /\ UNCHANGED <<status, stop, crashes>>

\* claim_document_recovery_jobs; the jobs of a claim whose reply is lost wait
\* for their lease to run out.
Queued == {d \in Documents : jobs[d].state = "queued"}
Lease(w, D) ==
    jobs' = [d \in Documents |->
               IF d \in D THEN [state |-> "running", by |-> w, lease |-> TRUE] ELSE jobs[d]]
Claim(w) ==
    /\ At(w, "claim")
    /\ \E D \in Take(Queued) :
         \/ /\ Lease(w, D)
            /\ \E batch \in SetToSeqs(D) :
                 worker' = [worker EXCEPT ![w] = [pc |-> "next", batch |-> batch]]
         \/ CallsMayFail /\ (Lease(w, D) \/ UNCHANGED jobs) /\ GoTo(w, "wait")
    /\ UNCHANGED <<status, stop, crashes>>

\* The for loop: the next job of the batch, unless the stop event is set.
NextJob(w) ==
    /\ At(w, "next")
    /\ IF worker[w].batch = << >> \/ w \in stop
       THEN worker' = [worker EXCEPT ![w] = [pc |-> "wait", batch |-> << >>]]
       ELSE GoTo(w, "get_status")
    /\ UNCHANGED <<status, jobs, stop, crashes>>

\* The end of the pause between two iterations.
Wait(w) ==
    /\ At(w, "wait")
    /\ GoTo(w, IF w \in stop THEN "stopped" ELSE "enqueue_due")
    /\ UNCHANGED <<status, jobs, stop, crashes>>

RequestShutdown(w) ==
    /\ w \in Stoppable \ stop
    /\ stop' = stop \cup {w}
    /\ UNCHANGED <<status, jobs, worker, crashes>>

-----------------------------------------------------------------------------
(* retry *)

\* Anything but a failed document is refused.
GetStatus(w) ==
    /\ At(w, "get_status")
    /\ \/ status[Doc(w)] = "failed" /\ GoTo(w, "claim_failed")
       \/ /\ status[Doc(w)] # "failed" \/ CallsMayFail
          /\ GoTo(w, "finish_error")
    /\ UNCHANGED <<status, jobs, stop, crashes>>

SetStatus(d, value) == status' = [status EXCEPT ![d] = value]

\* Mutant: claim_failed_document_for_retry takes whatever it finds.
ClaimFailedUnchecked(w) ==
    /\ Call(w, "claim_failed", SetStatus(Doc(w), "processing"), UNCHANGED status,
            "process", "finish_error")
    /\ UNCHANGED <<jobs, stop, crashes>>

\* set_status(PROCESSING) calls claim_failed_document_for_retry, which raises
\* unless the document is still failed.  The call is outside of retry's try.
ClaimFailed(w) ==
    /\ At(w, "claim_failed")
    /\ \/ /\ status[Doc(w)] = "failed"
          /\ Call(w, "claim_failed", SetStatus(Doc(w), "processing"), UNCHANGED status,
                  "process", "finish_error")
       \/ /\ status[Doc(w)] # "failed"
          /\ GoTo(w, "finish_error")
          /\ UNCHANGED status
    /\ UNCHANGED <<jobs, stop, crashes>>

\* Mutant: the outcome of the processor is not looked at.
ProcessBlindly(w) ==
    /\ At(w, "process")
    /\ GoTo(w, "finish_success")
    /\ UNCHANGED <<status, jobs, stop, crashes>>

\* The processor answers or raises; it writes nothing that is modelled.
Process(w) ==
    /\ At(w, "process")
    /\ GoTo(w, "set_completed") \/ GoTo(w, "set_failed")
    /\ UNCHANGED <<status, jobs, stop, crashes>>

\* set_status(COMPLETED), outside of the try as well.
SetCompleted(w) ==
    /\ Call(w, "set_completed", SetStatus(Doc(w), "completed"), UNCHANGED status,
            "finish_success", "finish_error")
    /\ UNCHANGED <<jobs, stop, crashes>>

\* Mutant: the except clause re-raises without the set_status.
SetFailedSkipped(w) ==
    At(w, "set_failed") /\ GoTo(w, "finish_error") /\ UNCHANGED <<status, jobs, stop, crashes>>

\* set_status(FAILED) of the except clause.
SetFailed(w) ==
    /\ Call(w, "set_failed", SetStatus(Doc(w), "failed"), UNCHANGED status,
            "finish_error", "finish_error")
    /\ UNCHANGED <<jobs, stop, crashes>>

-----------------------------------------------------------------------------
(* The end of _run_job *)

\* finish_document_recovery_job is fenced by the worker's name.
Record(w, state) ==
    LET d == Doc(w)
    IN  IF jobs[d].state = "running" /\ jobs[d].by = w
        THEN jobs' = [jobs EXCEPT ![d] = [NoJob EXCEPT !.state = state]]
        ELSE UNCHANGED jobs

Ended(w) == worker' = [worker EXCEPT ![w] = [pc |-> "next", batch |-> Tail(worker[w].batch)]]

\* A finish(success) that raises falls into the except clause of retry's
\* failure and reports an error.
FinishSuccess(w) ==
    /\ At(w, "finish_success")
    /\ \/ Record(w, "completed") /\ Ended(w)
       \/ CallsMayFail /\ (Record(w, "completed") \/ UNCHANGED jobs) /\ GoTo(w, "finish_error")
    /\ UNCHANGED <<status, stop, crashes>>

FinishError(w) ==
    /\ At(w, "finish_error")
    /\ Ended(w)
    /\ Record(w, "failed") \/ (CallsMayFail /\ UNCHANGED jobs)
    /\ UNCHANGED <<status, stop, crashes>>

-----------------------------------------------------------------------------
\* A lease runs out after 300 s, unless its holder runs the job and its
\* heartbeat thread, every 30 s, gets through.
LeaseExpires(d) ==
    /\ jobs[d].lease
    /\ \A w \in Workers : jobs[d].by = w /\ Runs(w, d) => HeartbeatsMayFail
    /\ jobs' = [jobs EXCEPT ![d].lease = FALSE]
    /\ UNCHANGED <<status, worker, stop, crashes>>

Heartbeat(w) ==
    /\ InJob(w)
    /\ jobs[Doc(w)].state = "running" /\ jobs[Doc(w)].by = w
    /\ jobs' = [jobs EXCEPT ![Doc(w)].lease = TRUE]
    /\ UNCHANGED <<status, worker, stop, crashes>>

\* A worker process dies and is started again under the same worker_id.
Crash(w) ==
    /\ crashes < MaxCrashes
    /\ crashes' = crashes + 1
    /\ worker' = [worker EXCEPT ![w] = [pc |-> "enqueue_due", batch |-> << >>]]
    /\ stop' = stop \ {w}
    /\ UNCHANGED <<status, jobs>>

WorkerStep(w) ==
    \/ EnqueueDue(w) \/ RequeueExpired(w) \/ Claim(w) \/ NextJob(w) \/ Wait(w)
    \/ GetStatus(w) \/ ClaimFailed(w) \/ Process(w) \/ SetCompleted(w) \/ SetFailed(w)
    \/ FinishSuccess(w) \/ FinishError(w)

Next ==
    \/ \E w \in Workers : WorkerStep(w) \/ RequestShutdown(w) \/ Heartbeat(w) \/ Crash(w)
    \/ \E d \in Documents : LeaseExpires(d)

Spec == Init /\ [][Next]_vars

\* Workers run, calls end, and time passes: a lease nobody renews runs out.
FairSpec ==
    /\ Spec
    /\ \A w \in Workers : WF_vars(WorkerStep(w))
    /\ \A d \in Documents : WF_vars(LeaseExpires(d))

-----------------------------------------------------------------------------
(* Properties *)

TypeOK ==
    /\ status \in [Documents -> DocumentStatus]
    /\ jobs \in [Documents -> RecoveryJob]
    /\ worker \in [Workers -> WorkerState]
    /\ \A w \in Workers : InJob(w) => worker[w].batch # << >>
    /\ stop \subseteq Workers /\ crashes \in Nat

\* Two workers never process one document at the same time, although the
\* waiting jobs of a batch have no heartbeat and may have been handed to
\* somebody else by the time they are run.
Processing(w, d) == worker[w].pc \in {"process", "set_completed", "set_failed"} /\ Doc(w) = d
OneProcessor ==
    \A d \in Documents : \A v, w \in Workers :
        Processing(v, d) /\ Processing(w, d) => v = w

\* A completed document is never reprocessed (DocumentRetryService: refuses to
\* reprocess completed ones), whatever raced between get_status and the claim.
CompletedIsFinal ==
    [][\A d \in Documents : status[d] = "completed" => status'[d] = "completed"]_vars

\* A job that is reported done belongs to a document that is completed.
DoneMeansCompleted ==
    \A d \in Documents : jobs[d].state = "completed" => status[d] = "completed"

\* A document in "processing" is somebody's work: retry gives a document back
\* as completed or failed.  Nothing else looks at documents in that status.
NotStranded ==
    \A d \in Documents : status[d] = "processing" => \E w \in Workers : Processing(w, d)

\* While no call fails, only a worker that dies leaves a document stranded:
\* neither a shutdown nor the leases that run out in a waiting batch do.
OnlyDeathStrands == crashes = 0 => NotStranded

\* A claimed job is finished or handed on: a batch that a stopping or dying
\* worker leaves behind comes back to the queue when its leases run out.
ClaimsEnd ==
    \A d \in Documents : jobs[d].state = "running" ~> jobs[d].state # "running"

-----------------------------------------------------------------------------
(* The inductive strengthening the proofs rest on. *)
Held(w) ==
    /\ worker[w].pc \in {"process", "set_completed", "set_failed"} => status[Doc(w)] = "processing"
    /\ At(w, "finish_success") => status[Doc(w)] = "completed"
IndInv ==
    /\ TypeOK
    /\ OneProcessor
    /\ DoneMeansCompleted
    /\ \A w \in Workers : Held(w)

\* The life of a document under recovery.
Lifecycle == INSTANCE DocumentLifecycle WITH status <- status
LifecycleSpec == Lifecycle!Spec
=============================================================================
