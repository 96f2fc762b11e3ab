------------------------ MODULE DocumentRecoveryProofs ------------------------
(* Theorems about DocumentRecovery, for any workers, documents and batches. *)
EXTENDS DocumentRecovery, FiniteSetTheorems, TLAPS

\* What SetToSeqs makes of a set of documents is a sequence of documents.
LEMMA BatchesAreSequences ==
    ASSUME NEW D \in SUBSET Documents, NEW batch \in SetToSeqs(D)
    PROVE  batch \in Seq(Documents)
<1>1. IsFiniteSet(D)
  BY DocumentsAssumption, FS_Subset
<1>2. Cardinality(D) \in Nat
  BY <1>1, FS_CardinalityType
<1>3. batch \in [1 .. Cardinality(D) -> D]
  BY DEF SetToSeqs
<1> QED
  BY <1>2, <1>3

\* A worker that moves to another call of the same job or to no job at all.
LEMMA MovedTypes ==
    ASSUME TypeOK, NEW w \in Workers,
           NEW pc \in LoopCalls \cup RetryCalls \cup FinishCalls \cup {"next", "wait", "stopped"},
           GoTo(w, pc),
           pc \in RetryCalls \cup FinishCalls => worker[w].batch # << >>
    PROVE  /\ worker' \in [Workers -> WorkerState]
           /\ \A v \in Workers : InJob(v)' => worker'[v].batch # << >>
           /\ worker'[w].pc = pc /\ worker'[w].batch = worker[w].batch
           /\ \A v \in Workers : v # w => worker'[v] = worker[v]
<1>1. worker[w] \in WorkerState
  BY DEF TypeOK
<1>2. [worker[w] EXCEPT !.pc = pc] \in WorkerState
  BY <1>1 DEF WorkerState
<1>3. worker'[w] = [worker[w] EXCEPT !.pc = pc] /\ \A v \in Workers : v # w => worker'[v] = worker[v]
  BY DEF TypeOK, GoTo
<1>4. worker' \in [Workers -> WorkerState]
  BY <1>2 DEF TypeOK, GoTo
<1>5. worker'[w].pc = pc /\ worker'[w].batch = worker[w].batch
  BY <1>1, <1>3 DEF WorkerState
<1> QED
  BY <1>3, <1>4, <1>5 DEF TypeOK, InJob

\* What the steps that keep the status, and the work of every other worker,
\* preserve of the invariant.
LEMMA StatusKept ==
    ASSUME IndInv, TypeOK', NEW w \in Workers, UNCHANGED status,
           \A v \in Workers : v # w => worker'[v] = worker[v],
           \A d \in Documents : jobs'[d].state = "completed" =>
               jobs[d].state = "completed" \/ status[d] = "completed",
           Held(w)',
           worker'[w].pc \in {"process", "set_completed", "set_failed"} =>
               /\ worker[w].pc \in {"process", "set_completed", "set_failed"}
               /\ worker'[w].batch = worker[w].batch
    PROVE  IndInv'
<1>1. OneProcessor'
  BY DEF IndInv, OneProcessor, Processing, Doc
<1>2. DoneMeansCompleted'
  BY DEF IndInv, DoneMeansCompleted
<1>3. \A v \in Workers : Held(v)'
  BY DEF IndInv, Held, At, Doc
<1> QED
  BY <1>1, <1>2, <1>3 DEF IndInv

LEMMA IndInit == Init => IndInv
<1> SUFFICES ASSUME Init PROVE IndInv
  OBVIOUS
<1>1. TypeOK
  BY DEF Init, TypeOK, DocumentStatus, RecoveryJob, NoJob, WorkerState, InJob,
         LoopCalls, RetryCalls, FinishCalls
<1>2. \A d \in Documents : jobs[d].state = "none"
  BY DEF Init, NoJob
<1>3. \A w \in Workers : worker[w].pc = "enqueue_due"
  BY DEF Init
<1> QED
  BY <1>1, <1>2, <1>3 DEF IndInv, OneProcessor, Processing, DoneMeansCompleted, Held, At

\* The queue's functions keep the rows well typed and complete none.
LEMMA QueueEffect ==
    ASSUME TypeOK, NEW D \in SUBSET Documents, NEW w \in Workers,
           Enqueue(D) \/ Lease(w, D) \/ UNCHANGED jobs
    PROVE  /\ jobs' \in [Documents -> RecoveryJob]
           /\ \A d \in Documents : jobs'[d].state = "completed" => jobs[d].state = "completed"
<1>1. [NoJob EXCEPT !.state = "queued"] \in RecoveryJob
      /\ [NoJob EXCEPT !.state = "queued"].state = "queued"
  BY DEF NoJob, RecoveryJob
<1>2. [state |-> "running", by |-> w, lease |-> TRUE] \in RecoveryJob
  BY DEF RecoveryJob
<1>3. \A d \in Documents : jobs[d] \in RecoveryJob
  BY DEF TypeOK
<1>4. CASE Enqueue(D)
  BY <1>1, <1>3, <1>4 DEF Enqueue
<1>5. CASE Lease(w, D)
  BY <1>2, <1>3, <1>5 DEF Lease
<1>6. CASE UNCHANGED jobs
  BY <1>6 DEF TypeOK
<1> QED
  BY <1>4, <1>5, <1>6

\* The steps of run_forever between two jobs.
LEMMA LoopStep ==
    ASSUME IndInv, NEW w \in Workers,
           EnqueueDue(w) \/ RequeueExpired(w) \/ Claim(w) \/ NextJob(w) \/ Wait(w)
    PROVE  IndInv'
<1>1. TypeOK
  BY DEF IndInv
<1>2. UNCHANGED <<status, stop, crashes>>
  BY DEF EnqueueDue, RequeueExpired, Claim, NextJob, Wait
<1>3. \E D \in SUBSET Documents : Enqueue(D) \/ Lease(w, D) \/ UNCHANGED jobs
  BY DEF EnqueueDue, RequeueExpired, Claim, NextJob, Wait, Call, Take, Due, Expired, Queued
<1>4. /\ jobs' \in [Documents -> RecoveryJob]
      /\ \A d \in Documents : jobs'[d].state = "completed" => jobs[d].state = "completed"
  BY <1>1, <1>3, QueueEffect
<1>5. ASSUME NEW pc \in LoopCalls \cup {"get_status", "next", "wait", "stopped"}, GoTo(w, pc),
             pc = "get_status" => worker[w].batch # << >>
      PROVE  IndInv'
  <2>1. /\ pc \in LoopCalls \cup RetryCalls \cup FinishCalls \cup {"next", "wait", "stopped"}
        /\ pc \in RetryCalls \cup FinishCalls => pc = "get_status"
        /\ pc \notin {"process", "set_completed", "set_failed", "finish_success"}
    BY <1>5 DEF LoopCalls, RetryCalls, FinishCalls
  <2>2. /\ worker' \in [Workers -> WorkerState]
        /\ \A v \in Workers : InJob(v)' => worker'[v].batch # << >>
        /\ worker'[w].pc = pc
        /\ \A v \in Workers : v # w => worker'[v] = worker[v]
    BY <1>1, <1>5, <2>1, MovedTypes
  <2>3. TypeOK'
    BY <1>1, <1>2, <1>4, <2>2 DEF TypeOK
  <2> QED
    BY <1>2, <1>4, <2>1, <2>2, <2>3, StatusKept DEF Held, At
<1>6. ASSUME NEW pc \in {"next", "wait"}, NEW batch \in Seq(Documents),
             worker' = [worker EXCEPT ![w] = [pc |-> pc, batch |-> batch]]
      PROVE  IndInv'
  <2>1. [pc |-> pc, batch |-> batch] \in WorkerState
    BY DEF WorkerState
  <2>2. /\ worker' \in [Workers -> WorkerState]
        /\ worker'[w] = [pc |-> pc, batch |-> batch]
        /\ \A v \in Workers : v # w => worker'[v] = worker[v]
    BY <1>1, <1>6, <2>1 DEF TypeOK
  <2>3. /\ worker'[w].pc = pc
        /\ pc \notin RetryCalls \cup FinishCalls
        /\ pc \notin {"process", "set_completed", "set_failed", "finish_success"}
    BY <2>2 DEF RetryCalls, FinishCalls
  <2>4. TypeOK'
    BY <1>1, <1>2, <1>4, <2>2, <2>3 DEF TypeOK, InJob
  <2> QED
    BY <1>2, <1>4, <2>2, <2>3, <2>4, StatusKept DEF Held, At
<1>7. CASE EnqueueDue(w) \/ RequeueExpired(w) \/ Wait(w)
  BY <1>5, <1>7 DEF EnqueueDue, RequeueExpired, Wait, Call, LoopCalls
<1>8. CASE Claim(w)
  <2>1. CASE GoTo(w, "wait")
    BY <1>5, <2>1
  <2>2. ASSUME NEW D \in SUBSET Documents, NEW batch \in SetToSeqs(D),
               worker' = [worker EXCEPT ![w] = [pc |-> "next", batch |-> batch]]
        PROVE  IndInv'
    BY <1>6, <2>2, BatchesAreSequences
  <2>3. PICK D \in Take(Queued) :
           \/ \E batch \in SetToSeqs(D) :
                 worker' = [worker EXCEPT ![w] = [pc |-> "next", batch |-> batch]]
           \/ GoTo(w, "wait")
    BY <1>8 DEF Claim
  <2>4. D \in SUBSET Documents
    BY DEF Take, Queued
  <2>5. CASE \E batch \in SetToSeqs(D) :
               worker' = [worker EXCEPT ![w] = [pc |-> "next", batch |-> batch]]
    BY <2>2, <2>4, <2>5
  <2> QED
    BY <2>1, <2>3, <2>5
<1>9. CASE NextJob(w)
  <2>1. << >> \in Seq(Documents)
    OBVIOUS
  <2>2. \/ worker' = [worker EXCEPT ![w] = [pc |-> "wait", batch |-> << >>]]
        \/ worker[w].batch # << >> /\ GoTo(w, "get_status")
    BY <1>9 DEF NextJob
  <2> QED
    BY <1>5, <1>6, <2>1, <2>2
<1> QED
  BY <1>7, <1>8, <1>9

\* Calls of retry and of the end of a job.
LEMMA JobTypes ==
    ASSUME TypeOK, NEW w \in Workers, worker[w].pc \in RetryCalls \cup FinishCalls
    PROVE  /\ Doc(w) \in Documents
           /\ worker[w].batch \in Seq(Documents) /\ worker[w].batch # << >>
           /\ Tail(worker[w].batch) \in Seq(Documents)
<1>1. worker[w].batch \in Seq(Documents) /\ worker[w].batch # << >>
  BY DEF TypeOK, WorkerState, InJob
<1> QED
  BY <1>1 DEF Doc

\* A call of retry, seen from what it does to the document's status.
LEMMA RetryStep ==
    ASSUME IndInv, NEW w \in Workers,
           GetStatus(w) \/ ClaimFailed(w) \/ Process(w) \/ SetCompleted(w) \/ SetFailed(w)
    PROVE  IndInv'
<1> DEFINE d == Doc(w)
           atWork == {"process", "set_completed", "set_failed"}
<1>1. TypeOK /\ OneProcessor /\ DoneMeansCompleted /\ \A v \in Workers : Held(v)
  BY DEF IndInv
<1>2. worker[w].pc \in RetryCalls /\ UNCHANGED <<jobs, stop, crashes>>
  BY DEF GetStatus, ClaimFailed, Process, SetCompleted, SetFailed, At, Call, RetryCalls
<1>3. d \in Documents /\ worker[w].batch # << >>
  BY <1>1, <1>2, JobTypes
<1>4. \E pc \in RetryCalls \cup FinishCalls : GoTo(w, pc)
  BY DEF GetStatus, ClaimFailed, Process, SetCompleted, SetFailed, Call, RetryCalls, FinishCalls
<1>5. PICK pc \in RetryCalls \cup FinishCalls : GoTo(w, pc)
  BY <1>4
<1>6. /\ worker' \in [Workers -> WorkerState]
      /\ \A v \in Workers : InJob(v)' => worker'[v].batch # << >>
      /\ worker'[w].pc = pc /\ worker'[w].batch = worker[w].batch
      /\ \A v \in Workers : v # w => worker'[v] = worker[v]
  BY <1>1, <1>3, <1>5, MovedTypes
<1>7. Doc(w)' = d /\ \A v \in Workers : v # w => Doc(v)' = Doc(v)
  BY <1>6 DEF Doc
<1>8. status \in [Documents -> DocumentStatus]
  BY <1>1 DEF TypeOK
<1>9. CASE UNCHANGED status /\ pc \notin atWork \cup {"finish_success"}
  <2>1. TypeOK'
    BY <1>1, <1>2, <1>6, <1>9 DEF TypeOK
  <2> QED
    BY <1>2, <1>6, <1>9, <2>1, StatusKept DEF Held, At
<1>10. CASE UNCHANGED status /\ worker[w].pc \in atWork /\ pc \in atWork
  <2>1. TypeOK'
    BY <1>1, <1>2, <1>6, <1>10 DEF TypeOK
  <2>2. Held(w)'
    BY <1>1, <1>6, <1>7, <1>10 DEF Held, At
  <2> QED
    BY <1>2, <1>6, <1>10, <2>1, <2>2, StatusKept
<1>11. ASSUME NEW value \in DocumentStatus, SetStatus(d, value)
       PROVE  /\ status' \in [Documents -> DocumentStatus]
              /\ status'[d] = value /\ \A e \in Documents : e # d => status'[e] = status[e]
  BY <1>3, <1>8, <1>11 DEF SetStatus
\* The document is taken: nobody was at work on it, and no job of it is done.
<1>12. CASE SetStatus(d, "processing") /\ status[d] = "failed" /\ pc \in {"process", "finish_error"}
  <2>1. status' \in [Documents -> DocumentStatus] /\ status'[d] = "processing"
        /\ \A e \in Documents : e # d => status'[e] = status[e]
    BY <1>11, <1>12 DEF DocumentStatus
  <2>2. TypeOK'
    BY <1>1, <1>2, <1>6, <2>1 DEF TypeOK
  <2>3. \A v \in Workers : worker[v].pc \in atWork \cup {"finish_success"} => Doc(v) # d
    BY <1>1, <1>12 DEF Held, At
  <2>4. \A v \in Workers : worker[v].pc \in atWork \cup {"finish_success"} => Doc(v) \in Documents
    BY <1>1, JobTypes DEF RetryCalls, FinishCalls
  <2>5. \A v \in Workers : Held(v)'
    <3> SUFFICES ASSUME NEW v \in Workers PROVE Held(v)'
      OBVIOUS
    <3>1. CASE v = w
      BY <1>6, <1>7, <1>12, <2>1, <3>1 DEF Held, At
    <3>2. CASE v # w
      BY <1>1, <1>6, <1>7, <2>1, <2>3, <2>4, <3>2 DEF Held, At
    <3> QED
      BY <3>1, <3>2
  <2>6. OneProcessor'
    BY <1>1, <1>6, <1>7, <2>3 DEF OneProcessor, Processing
  <2>7. DoneMeansCompleted'
    BY <1>1, <1>2, <1>12, <2>1 DEF DoneMeansCompleted
  <2> QED
    BY <2>2, <2>5, <2>6, <2>7 DEF IndInv
\* The document is given back: the worker was the only one at work on it.
<1>13. CASE /\ worker[w].pc \in atWork
            /\ \/ SetStatus(d, "completed") /\ pc \in FinishCalls
               \/ SetStatus(d, "failed") /\ pc = "finish_error"
  <2>1. PICK value \in {"completed", "failed"} :
           SetStatus(d, value) /\ (pc = "finish_success" => value = "completed")
    BY <1>13 DEF FinishCalls
  <2>2. status' \in [Documents -> DocumentStatus] /\ status'[d] = value
        /\ \A e \in Documents : e # d => status'[e] = status[e]
    BY <1>11, <2>1 DEF DocumentStatus
  <2>3. TypeOK'
    BY <1>1, <1>2, <1>6, <2>2 DEF TypeOK
  <2>4. status[d] = "processing"
    BY <1>1, <1>13 DEF Held
  <2>5. \A v \in Workers : v # w =>
           /\ worker[v].pc \in atWork => Doc(v) # d
           /\ worker[v].pc = "finish_success" => Doc(v) # d
    BY <1>1, <1>3, <1>13, <2>4 DEF OneProcessor, Processing, Held, At
  <2>6. \A v \in Workers : worker[v].pc \in atWork \cup {"finish_success"} => Doc(v) \in Documents
    BY <1>1, JobTypes DEF RetryCalls, FinishCalls
  <2>7. pc \notin atWork
    BY <1>13 DEF FinishCalls
  <2>8. \A v \in Workers : Held(v)'
    <3> SUFFICES ASSUME NEW v \in Workers PROVE Held(v)'
      OBVIOUS
    <3>1. CASE v = w
      BY <1>6, <1>7, <2>1, <2>2, <2>7, <3>1 DEF Held, At
    <3>2. CASE v # w
      BY <1>1, <1>6, <1>7, <2>2, <2>5, <2>6, <3>2 DEF Held, At
    <3> QED
      BY <3>1, <3>2
  <2>9. OneProcessor'
    BY <1>1, <1>6, <1>7, <2>7 DEF OneProcessor, Processing
  <2>10. DoneMeansCompleted'
    BY <1>1, <1>2, <2>2, <2>4 DEF DoneMeansCompleted
  <2> QED
    BY <2>3, <2>8, <2>9, <2>10 DEF IndInv
<1>14. pc = worker'[w].pc /\ worker[w] \in WorkerState
  BY <1>1, <1>6 DEF TypeOK
<1>15. \A q : GoTo(w, q) => pc = q
  BY <1>1, <1>5, <1>6 DEF GoTo, TypeOK, WorkerState
<1>16. CASE GetStatus(w)
  BY <1>9, <1>15, <1>16 DEF GetStatus
<1>17. CASE ClaimFailed(w)
  BY <1>9, <1>12, <1>15, <1>17 DEF ClaimFailed, Call
<1>18. CASE Process(w)
  BY <1>10, <1>15, <1>18 DEF Process, At
<1>19. CASE SetCompleted(w)
  BY <1>9, <1>13, <1>15, <1>19 DEF SetCompleted, Call, At, FinishCalls
<1>20. CASE SetFailed(w)
  BY <1>9, <1>13, <1>15, <1>20 DEF SetFailed, Call, At
<1> QED
  BY <1>16, <1>17, <1>18, <1>19, <1>20

LEMMA FinishStep ==
    ASSUME IndInv, NEW w \in Workers, FinishSuccess(w) \/ FinishError(w)
    PROVE  IndInv'
<1> DEFINE d == Doc(w)
<1>1. TypeOK /\ UNCHANGED <<status, stop, crashes>> /\ worker[w].pc \in FinishCalls
  BY DEF IndInv, FinishSuccess, FinishError, At, FinishCalls
<1>2. /\ d \in Documents /\ worker[w].batch # << >>
      /\ Tail(worker[w].batch) \in Seq(Documents)
  BY <1>1, JobTypes
<1>3. \A state \in {"completed", "failed"} :
         Record(w, state) =>
           /\ jobs' \in [Documents -> RecoveryJob]
           /\ \A e \in Documents : jobs'[e].state = "completed" =>
                jobs[e].state = "completed" \/ (e = d /\ state = "completed")
  <2> SUFFICES ASSUME NEW state \in {"completed", "failed"}, Record(w, state)
               PROVE  /\ jobs' \in [Documents -> RecoveryJob]
                      /\ \A e \in Documents : jobs'[e].state = "completed" =>
                           jobs[e].state = "completed" \/ (e = d /\ state = "completed")
    OBVIOUS
  <2>1. [NoJob EXCEPT !.state = state] \in RecoveryJob /\ [NoJob EXCEPT !.state = state].state = state
    BY DEF NoJob, RecoveryJob
  <2>2. jobs \in [Documents -> RecoveryJob]
    BY <1>1 DEF TypeOK
  <2>3. jobs' = [jobs EXCEPT ![d] = [NoJob EXCEPT !.state = state]] \/ jobs' = jobs
    BY DEF Record
  <2> QED
    BY <1>2, <2>1, <2>2, <2>3
<1>4. /\ jobs' \in [Documents -> RecoveryJob]
      /\ \A e \in Documents : jobs'[e].state = "completed" =>
           jobs[e].state = "completed" \/ status[e] = "completed"
  <2>1. jobs \in [Documents -> RecoveryJob]
    BY <1>1 DEF TypeOK
  <2>2. At(w, "finish_success") => status[d] = "completed"
    BY DEF IndInv, Held
  <2> QED
    BY <1>3, <2>1, <2>2 DEF FinishSuccess, FinishError
<1>5. CASE Ended(w)
  <2> DEFINE ended == [pc |-> "next", batch |-> Tail(worker[w].batch)]
  <2>1. ended \in WorkerState
    BY <1>2 DEF WorkerState
  <2>2. /\ worker' \in [Workers -> WorkerState] /\ worker'[w] = ended
        /\ \A v \in Workers : v # w => worker'[v] = worker[v]
    BY <1>1, <1>5, <2>1 DEF Ended, TypeOK
  <2>3. worker'[w].pc = "next"
    BY <2>2
  <2>4. TypeOK'
    BY <1>1, <1>4, <2>2, <2>3 DEF TypeOK, InJob, RetryCalls, FinishCalls
  <2> QED
    BY <1>1, <1>4, <2>2, <2>3, <2>4, StatusKept DEF Held, At
<1>6. CASE GoTo(w, "finish_error")
  <2>1. /\ worker' \in [Workers -> WorkerState]
        /\ \A v \in Workers : InJob(v)' => worker'[v].batch # << >>
        /\ worker'[w].pc = "finish_error"
        /\ \A v \in Workers : v # w => worker'[v] = worker[v]
    BY <1>1, <1>2, <1>6, MovedTypes DEF FinishCalls
  <2>2. TypeOK'
    BY <1>1, <1>4, <2>1 DEF TypeOK
  <2> QED
    BY <1>1, <1>4, <2>1, <2>2, StatusKept DEF Held, At
<1> QED
  BY <1>5, <1>6 DEF FinishSuccess, FinishError

\* Steps around the workers: leases, heartbeats, shutdown, restarts.
LEMMA OutsideStep ==
    ASSUME IndInv,
           \/ \E w \in Workers : RequestShutdown(w) \/ Heartbeat(w) \/ Crash(w)
           \/ \E d \in Documents : LeaseExpires(d)
    PROVE  IndInv'
<1>1. TypeOK
  BY DEF IndInv
<1>2. ASSUME NEW d \in Documents, NEW value \in BOOLEAN, jobs' = [jobs EXCEPT ![d].lease = value],
             UNCHANGED <<status, worker, stop, crashes>>
      PROVE  IndInv'
  <2>1. jobs[d] \in RecoveryJob
    BY <1>1 DEF TypeOK
  <2>2. [jobs[d] EXCEPT !.lease = value] \in RecoveryJob
        /\ [jobs[d] EXCEPT !.lease = value].state = jobs[d].state
    BY <2>1 DEF RecoveryJob
  <2>3. /\ jobs' \in [Documents -> RecoveryJob]
        /\ \A e \in Documents : jobs'[e].state = jobs[e].state
    BY <1>1, <1>2, <2>2 DEF TypeOK
  <2>4. TypeOK'
    BY <1>1, <1>2, <2>3 DEF TypeOK, InJob
  <2> QED
    BY <1>2, <2>3, <2>4 DEF IndInv, OneProcessor, Processing, DoneMeansCompleted, Held, At, Doc
<1>3. CASE \E d \in Documents : LeaseExpires(d)
  BY <1>2, <1>3 DEF LeaseExpires
<1>4. ASSUME NEW w \in Workers, Heartbeat(w) PROVE IndInv'
  BY <1>1, <1>2, <1>4, JobTypes DEF Heartbeat, InJob
<1>5. ASSUME NEW w \in Workers, RequestShutdown(w) PROVE IndInv'
  BY <1>5 DEF RequestShutdown, IndInv, TypeOK, InJob, OneProcessor, Processing,
              DoneMeansCompleted, Held, At, Doc
<1>6. ASSUME NEW w \in Workers, Crash(w) PROVE IndInv'
  <2> DEFINE fresh == [pc |-> "enqueue_due", batch |-> << >>]
  <2>1. fresh \in WorkerState
    BY DEF WorkerState, LoopCalls
  <2>2. /\ worker' \in [Workers -> WorkerState] /\ worker'[w] = fresh
        /\ \A v \in Workers : v # w => worker'[v] = worker[v]
    BY <1>1, <1>6, <2>1 DEF Crash, TypeOK
  <2>3. worker'[w].pc = "enqueue_due"
    BY <2>2
  <2>4. TypeOK'
    BY <1>1, <1>6, <2>2, <2>3 DEF Crash, TypeOK, InJob, RetryCalls, FinishCalls
  <2> QED
    BY <1>6, <2>2, <2>3, <2>4, StatusKept DEF Crash, Held, At
<1> QED
  BY <1>3, <1>4, <1>5, <1>6

LEMMA IndStep == IndInv /\ [Next]_vars => IndInv'
<1> SUFFICES ASSUME IndInv, [Next]_vars PROVE IndInv'
  OBVIOUS
<1>1. CASE UNCHANGED vars
  BY <1>1 DEF IndInv, TypeOK, InJob, OneProcessor, Processing, DoneMeansCompleted,
              Held, At, Doc, vars
<1> QED
  BY <1>1, LoopStep, RetryStep, FinishStep, OutsideStep DEF Next, WorkerStep

LEMMA Inductive == Spec => []IndInv
BY IndInit, IndStep, PTL DEF Spec

\* No document is ever processed by two workers at once, for any number of
\* workers and any batch size, with lost replies, expired leases and restarts.
THEOREM MutualExclusion == Spec => []OneProcessor
<1>1. IndInv => OneProcessor
  BY DEF IndInv
<1> QED
  BY <1>1, Inductive, PTL

\* A job reported done belongs to a completed document.
THEOREM DoneIsCompleted == Spec => []DoneMeansCompleted
<1>1. IndInv => DoneMeansCompleted
  BY DEF IndInv
<1> QED
  BY <1>1, Inductive, PTL

-----------------------------------------------------------------------------
(* The life of a document. *)

\* Every step moves at most one document, along its life.
LEMMA LifecycleStep == IndInv /\ [Next]_vars => [Lifecycle!Next]_status
<1> SUFFICES ASSUME IndInv, Next PROVE UNCHANGED status \/ Lifecycle!Next
  BY DEF vars
<1>1. ASSUME NEW w \in Workers, WorkerStep(w) PROVE UNCHANGED status \/ Lifecycle!Next
  <2> DEFINE d == Doc(w)
  <2>1. TypeOK /\ Held(w)
    BY DEF IndInv
  <2>2. CASE ClaimFailed(w) \/ SetCompleted(w) \/ SetFailed(w)
    <3>1. d \in Documents
      BY <2>1, <2>2, JobTypes DEF ClaimFailed, SetCompleted, SetFailed, Call, At, RetryCalls
    <3>2. ClaimFailed(w) => UNCHANGED status \/ Lifecycle!Move(d, "failed", "processing")
      BY DEF ClaimFailed, Call, SetStatus, Lifecycle!Move
    <3>3. SetCompleted(w) => UNCHANGED status \/ Lifecycle!Move(d, "processing", "completed")
      BY <2>1 DEF SetCompleted, Call, SetStatus, Held, At, Lifecycle!Move
    <3>4. SetFailed(w) => UNCHANGED status \/ Lifecycle!Move(d, "processing", "failed")
      BY <2>1 DEF SetFailed, Call, SetStatus, Held, At, Lifecycle!Move
    <3> QED
      BY <2>2, <3>1, <3>2, <3>3, <3>4 DEF Lifecycle!Next
  <2>3. CASE ~(ClaimFailed(w) \/ SetCompleted(w) \/ SetFailed(w))
    BY <1>1, <2>3 DEF WorkerStep, EnqueueDue, RequeueExpired, Claim, NextJob, Wait,
       GetStatus, Process, FinishSuccess, FinishError
  <2> QED
    BY <2>2, <2>3
<1>2. CASE \/ \E w \in Workers : RequestShutdown(w) \/ Heartbeat(w) \/ Crash(w)
          \/ \E d \in Documents : LeaseExpires(d)
  BY <1>2 DEF RequestShutdown, Heartbeat, Crash, LeaseExpires
<1> QED
  BY <1>1, <1>2 DEF Next

\* The recovery implements the life of a document that retry promises.
THEOREM ImplementsLifecycle == Spec => LifecycleSpec
<1>1. Init => Lifecycle!Init
  BY DEF Init, Lifecycle!Init
<1> QED
  BY <1>1, Inductive, LifecycleStep, PTL DEF Spec, LifecycleSpec, Lifecycle!Spec

\* A completed document is never reprocessed.
THEOREM CompletedForGood == Spec => CompletedIsFinal
<1>1. [Lifecycle!Next]_status /\ TypeOK =>
         \A d \in Documents : status[d] = "completed" => status'[d] = "completed"
  BY DEF Lifecycle!Next, Lifecycle!Move, TypeOK
<1>2. IndInv => TypeOK
  BY DEF IndInv
<1> QED
  BY <1>1, <1>2, Inductive, LifecycleStep, PTL DEF Spec, CompletedIsFinal

-----------------------------------------------------------------------------
(* Who strands a document. *)

\* A step of one worker after which it still has what it was processing, unless
\* that is out of processing, and has itself what came into processing.
LEMMA WorkGoesOn ==
    ASSUME NotStranded, NEW w \in Workers,
           \A v \in Workers : v # w => worker'[v] = worker[v],
           \A d \in Documents : status'[d] = "processing" =>
               /\ Processing(w, d) => Processing(w, d)'
               /\ status[d] = "processing" \/ Processing(w, d)'
    PROVE  NotStranded'
<1> SUFFICES ASSUME NEW d \in Documents, status'[d] = "processing"
             PROVE  \E v \in Workers : Processing(v, d)'
  BY DEF NotStranded
<1>1. CASE Processing(w, d)'
  BY <1>1
<1>2. CASE ~Processing(w, d)'
  <2>1. PICK v \in Workers : Processing(v, d)
    BY <1>2 DEF NotStranded
  <2>2. v # w
    BY <1>2, <2>1
  <2>3. worker'[v] = worker[v]
    BY <2>2
  <2> QED
    BY <2>1, <2>3 DEF Processing, Doc
<1> QED
  BY <1>1, <1>2

LEMMA GoesTo ==
    ASSUME TypeOK, NEW w \in Workers, NEW pc, GoTo(w, pc)
    PROVE  /\ \A v \in Workers : v # w => worker'[v] = worker[v]
           /\ worker'[w].pc = pc /\ worker'[w].batch = worker[w].batch
<1>1. worker[w] \in WorkerState
  BY DEF TypeOK
<1> QED
  BY <1>1 DEF GoTo, TypeOK, WorkerState

\* A worker that is not processing before or after a step leaves the rest alone.
LEMMA IdleMoves ==
    ASSUME NotStranded, TypeOK, NEW w \in Workers,
           \A v \in Workers : v # w => worker'[v] = worker[v],
           worker[w].pc \notin {"process", "set_completed", "set_failed"}, UNCHANGED status
    PROVE  NotStranded'
BY WorkGoesOn DEF Processing

LEMMA StrandStep ==
    ASSUME ~CallsMayFail, IndInv, NotStranded, NEW w \in Workers, WorkerStep(w)
    PROVE  NotStranded'
<1>0. TypeOK
  BY DEF IndInv
<1>1. CASE EnqueueDue(w) \/ RequeueExpired(w) \/ NextJob(w) \/ Wait(w)
  <2>1. /\ UNCHANGED status /\ worker[w].pc \notin {"process", "set_completed", "set_failed"}
        /\ \A v \in Workers : v # w => worker'[v] = worker[v]
    BY <1>0, <1>1 DEF EnqueueDue, RequeueExpired, NextJob, Wait, Call, At, GoTo, TypeOK
  <2> QED
    BY <1>0, <2>1, IdleMoves
<1>2. CASE Claim(w)
  <2>1. /\ UNCHANGED status /\ worker[w].pc \notin {"process", "set_completed", "set_failed"}
        /\ \A v \in Workers : v # w => worker'[v] = worker[v]
    BY <1>0, <1>2 DEF Claim, At, GoTo, TypeOK
  <2> QED
    BY <1>0, <2>1, IdleMoves
<1>3. CASE GetStatus(w)
  <2>1. /\ UNCHANGED status /\ worker[w].pc \notin {"process", "set_completed", "set_failed"}
        /\ \A v \in Workers : v # w => worker'[v] = worker[v]
    BY <1>0, <1>3 DEF GetStatus, At, GoTo, TypeOK
  <2> QED
    BY <1>0, <2>1, IdleMoves
<1>4. CASE FinishSuccess(w) \/ FinishError(w)
  <2>1. /\ UNCHANGED status /\ worker[w].pc \notin {"process", "set_completed", "set_failed"}
        /\ \A v \in Workers : v # w => worker'[v] = worker[v]
    BY <1>0, <1>4 DEF FinishSuccess, FinishError, Ended, At, GoTo, TypeOK
  <2> QED
    BY <1>0, <2>1, IdleMoves
<1>5. CASE ClaimFailed(w) /\ status[Doc(w)] # "failed"
  <2>1. /\ UNCHANGED status /\ worker[w].pc = "claim_failed" /\ GoTo(w, "finish_error")
    BY <1>5 DEF ClaimFailed, At
  <2> QED
    BY <1>0, <2>1, GoesTo, IdleMoves
<1>6. CASE ClaimFailed(w) /\ status[Doc(w)] = "failed"
  <2>1. /\ status' = [status EXCEPT ![Doc(w)] = "processing"] /\ worker[w].pc = "claim_failed"
        /\ GoTo(w, "process")
    BY <1>6 DEF ClaimFailed, At, Call, SetStatus
  <2>2. /\ \A v \in Workers : v # w => worker'[v] = worker[v]
        /\ worker'[w].pc = "process" /\ worker'[w].batch = worker[w].batch
    BY <1>0, <2>1, GoesTo
  <2>3. \A d \in Documents : Processing(w, d)' <=> d = Doc(w)
    BY <2>2 DEF Processing, Doc
  <2>4. \A d \in Documents : ~Processing(w, d)
    BY <2>1 DEF Processing
  <2>5. \A d \in Documents : d # Doc(w) => status'[d] = status[d]
    BY <1>0, <2>1 DEF TypeOK
  <2> QED
    BY <2>2, <2>3, <2>4, <2>5, WorkGoesOn
<1>7. CASE Process(w)
  <2>1. PICK pc \in {"set_completed", "set_failed"} : GoTo(w, pc)
    BY <1>7 DEF Process
  <2>2. /\ \A v \in Workers : v # w => worker'[v] = worker[v]
        /\ worker'[w].pc = pc /\ worker'[w].batch = worker[w].batch
    BY <1>0, <2>1, GoesTo
  <2>3. \A d \in Documents : Processing(w, d) => Processing(w, d)'
    BY <2>2 DEF Processing, Doc
  <2>4. UNCHANGED status
    BY <1>7 DEF Process
  <2> QED
    BY <2>2, <2>3, <2>4, WorkGoesOn
<1>8. ASSUME NEW outcome \in {"completed", "failed"}, NEW pc,
             SetStatus(Doc(w), outcome), GoTo(w, pc),
             worker[w].pc \in {"set_completed", "set_failed"}
      PROVE  NotStranded'
  <2>1. \A v \in Workers : v # w => worker'[v] = worker[v]
    BY <1>0, <1>8, GoesTo
  <2>2. ASSUME NEW d \in Documents, status'[d] = "processing"
        PROVE  status[d] = "processing" /\ ~Processing(w, d)
    <3>1. d # Doc(w)
      BY <1>0, <1>8, <2>2 DEF SetStatus, TypeOK
    <3> QED
      BY <1>0, <1>8, <2>2, <3>1 DEF SetStatus, TypeOK, Processing
  <2> QED
    BY <2>1, <2>2, WorkGoesOn
<1>9. CASE SetCompleted(w)
  BY <1>8, <1>9 DEF SetCompleted, Call, At
<1>10. CASE SetFailed(w)
  BY <1>8, <1>10 DEF SetFailed, Call, At
<1> QED
  BY <1>1, <1>2, <1>3, <1>4, <1>5, <1>6, <1>7, <1>9, <1>10 DEF WorkerStep

\* While no call fails, a document in processing without a worker means that a
\* worker died (DocumentRetryService.retry gives every document back).
THEOREM DeathAloneStrands ==
    ASSUME ~CallsMayFail
    PROVE  Spec => []OnlyDeathStrands
<1>1. Init => OnlyDeathStrands
  BY DEF Init, OnlyDeathStrands, NotStranded
<1>2. IndInv /\ OnlyDeathStrands /\ [Next]_vars => OnlyDeathStrands'
  <2> SUFFICES ASSUME IndInv, OnlyDeathStrands, [Next]_vars, crashes' = 0
               PROVE  NotStranded'
    BY DEF OnlyDeathStrands
  <2>1. ASSUME NEW w \in Workers, WorkerStep(w)
        PROVE  NotStranded'
    <3>1. crashes' = crashes
      BY <2>1 DEF WorkerStep, EnqueueDue, RequeueExpired, Claim, NextJob, Wait, GetStatus,
                  ClaimFailed, Process, SetCompleted, SetFailed, FinishSuccess, FinishError
    <3> QED
      BY <2>1, <3>1, StrandStep DEF OnlyDeathStrands
  <2>2. ASSUME NEW w \in Workers, Crash(w)
        PROVE  FALSE
    BY <2>2 DEF Crash, IndInv, TypeOK
  <2>3. CASE UNCHANGED <<status, worker, crashes>>
    BY <2>3 DEF OnlyDeathStrands, NotStranded, Processing, Doc
  <2> QED
    BY <2>1, <2>2, <2>3 DEF Next, RequestShutdown, Heartbeat, LeaseExpires, vars
<1> QED
  BY <1>1, <1>2, Inductive, PTL DEF Spec
=============================================================================
