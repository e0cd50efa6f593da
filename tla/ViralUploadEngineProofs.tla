----------------------- MODULE ViralUploadEngineProofs -----------------------
(***************************************************************************)
(* Proofs about ViralUploadEngine for every number of jobs, calls, chunks  *)
(* and retries.                                                            *)
(***************************************************************************)
EXTENDS ViralUploadEngine, TLAPS

(* The reference dangles only after the job it was taken to was recorded. *)
DanglingIsOrphaned == pc \in Holding /\ dangling => jobPtr \in orphaned

(* NoForgottenJob, strengthened: once the job is marked UPLOADING, a QUEUED *)
(* one has been pushed again.                                               *)
QueuedIsSomewhere ==
    \A j \in Ids : m_jobs[j].status = "QUEUED" =>
        \/ InQueue(j)
        \/ pc \in {"find", "check", "mark"} /\ jobPtr = j
        \/ j \in orphaned

(* While an upload runs its job is not COMPLETED, so a poll of the progress *)
(* overwrites no final value.                                               *)
HeldIsUnfinished ==
    pc \in {"construct", "upload", "join", "result"} /\ ~dangling
        => m_jobs[jobPtr].status # "COMPLETED"

(* What the client's status can be in the chunk loop, and after upload()    *)
(* returned true.                                                           *)
ClientOutcome ==
    /\ pc = "upload" /\ tus.phase = "chunks" => tus.status \in {"UPLOADING", "PAUSED", "CANCELED"}
    /\ pc \in {"join", "result"} /\ success => tus.status \in {"FINISHED", "PAUSED", "CANCELED"}

IInv ==
    /\ TypeOK
    /\ DanglingIsOrphaned
    /\ QueuedIsSomewhere
    /\ UploadingIsHeld
    /\ PopFindsEntry
    /\ HeldIsUnfinished
    /\ CompletedIsFull
    /\ ClientOutcome
    /\ InterruptionHasCause

-----------------------------------------------------------------------------
(* Sequences of jobs and of ids. *)

(* Replacing one job by another keeps the vector a vector of jobs. *)
LEMMA JobUpdate ==
    ASSUME NEW s \in Seq(Job), NEW j \in DOMAIN s, NEW job \in Job
    PROVE  /\ [s EXCEPT ![j] = job] \in Seq(Job)
           /\ DOMAIN [s EXCEPT ![j] = job] = DOMAIN s
           /\ Len([s EXCEPT ![j] = job]) = Len(s)
  OBVIOUS

(* Every assignment of the engine to the fields of a job makes a job. *)
LEMMA JobStatus ==
    ASSUME NEW job \in Job, NEW st \in Status
    PROVE  [job EXCEPT !.status = st] \in Job
  BY DEF Job

(* A polled progress makes a job of a job. *)
LEMMA JobProgress ==
    ASSUME NEW job \in Job, NEW p \in Int
    PROVE  [job EXCEPT !.progress = p] \in Job
  BY DEF Job

(* The assignment of a final status and progress does. *)
LEMMA JobCompleted ==
    ASSUME NEW job \in Job, NEW st \in Status, NEW p \in Int
    PROVE  [job EXCEPT !.status = st, !.progress = p] \in Job
  BY DEF Job

(* So does the assignment of a failed attempt. *)
LEMMA JobRetried ==
    ASSUME NEW job \in Job, NEW st \in Status
    PROVE  [job EXCEPT !.status = st, !.retryCount = @ + 1] \in Job
  <1>1. job.retryCount + 1 \in Nat
    BY DEF Job
  <1>2. \A n \in Nat : [job EXCEPT !.status = st, !.retryCount = n] \in Job
    BY DEF Job
  <1> QED
    BY <1>1, <1>2

(* A step that replaces jobs and adds or removes none. *)
JobsReplaced ==
    /\ m_jobs' \in Seq(Job)
    /\ Ids' = Ids
    /\ Len(m_jobs') = Len(m_jobs)

(* A status assigned by a control call. *)
LEMMA StatusSet ==
    ASSUME TypeOK, NEW j \in Ids, NEW st \in Status,
           m_jobs' = [m_jobs EXCEPT ![j].status = st]
    PROVE  JobsReplaced
  <1>1. m_jobs \in Seq(Job) /\ m_jobs[j] \in Job /\ j \in DOMAIN m_jobs
    BY DEF TypeOK, Ids
  <1>2. m_jobs' = [m_jobs EXCEPT ![j] = [m_jobs[j] EXCEPT !.status = st]]
    OBVIOUS
  <1>3. [m_jobs[j] EXCEPT !.status = st] \in Job
    BY <1>1, JobStatus
  <1> QED
    BY <1>1, <1>2, <1>3, JobUpdate DEF JobsReplaced, Ids

(* A job written through the worker's reference. *)
LEMMA JobWritten ==
    ASSUME TypeOK, jobPtr # NoJob, NEW job \in Job, WriteJob(job)
    PROVE  JobsReplaced
  <1>1. m_jobs \in Seq(Job) /\ jobPtr \in DOMAIN m_jobs
    BY DEF TypeOK, Ids, NoJob
  <1> QED
    BY <1>1, JobUpdate DEF JobsReplaced, Ids, WriteJob

(* What the client does to itself keeps it a client. *)
LEMMA TusStep ==
    ASSUME TypeOK
    PROVE  /\ \A st \in TusStatus : [tus EXCEPT !.status = st] \in Tus
           /\ \A ph \in {"post", "head", "chunks"} : [tus EXCEPT !.phase = ph] \in Tus
           /\ \A st \in TusStatus, ph \in {"post", "head", "chunks"} :
                 [tus EXCEPT !.phase = ph, !.status = st] \in Tus
           /\ [tus EXCEPT !.offset = @ + 1] \in Tus
           /\ NewTus \in Tus /\ TusCancel \in Tus /\ TusPause \in Tus
           /\ tus.status \in TusStatus
  <1> USE DEF TypeOK, Tus
  <1>1. \A st \in TusStatus : [tus EXCEPT !.status = st] \in Tus
    OBVIOUS
  <1>2. \A ph \in {"post", "head", "chunks"} : [tus EXCEPT !.phase = ph] \in Tus
    OBVIOUS
  <1>3. \A st \in TusStatus, ph \in {"post", "head", "chunks"} :
           [tus EXCEPT !.phase = ph, !.status = st] \in Tus
    OBVIOUS
  <1>4. [tus EXCEPT !.offset = @ + 1] \in Tus
    <2>1. tus.offset + 1 \in Nat
      OBVIOUS
    <2>2. \A n \in Nat : [tus EXCEPT !.offset = n] \in Tus
      OBVIOUS
    <2> QED
      BY <2>1, <2>2
  <1>5. NewTus \in Tus
    BY DEF NewTus, TusStatus
  <1>6. TusCancel \in Tus /\ TusPause \in Tus
    BY <1>1 DEF TusCancel, TusPause, TusStatus
  <1> QED
    BY <1>1, <1>2, <1>3, <1>4, <1>5, <1>6

-----------------------------------------------------------------------------
(* Type correctness *)

(* The variables that the API, the worker and the poller write keep their   *)
(* types in every step.                                                     *)
LEMMA TypeStep == ASSUME TypeOK, [Next]_vars PROVE TypeOK'
<1>1. CASE Enqueue
  <2> DEFINE new == [status |-> "QUEUED", progress |-> 0, retryCount |-> 0]
  <2>1. new \in Job
    BY DEF Job, Status
  <2>2. m_jobs' = Append(m_jobs, new) /\ m_queue' = Append(m_queue, Len(m_jobs) + 1)
    BY <1>1 DEF Enqueue, PushJob
  <2> HIDE DEF new
  <2>3. m_jobs' \in Seq(Job) /\ Len(m_jobs') = Len(m_jobs) + 1 /\ Ids \subseteq Ids'
           /\ Len(m_jobs) + 1 \in Ids'
    BY <2>1, <2>2 DEF TypeOK, Ids
  <2>4. m_queue \in Seq(Ids' \cup {NoJob})
    BY <2>3 DEF TypeOK
  <2>5. m_queue' \in Seq(Ids' \cup {NoJob})
    BY <2>2, <2>3, <2>4
  <2>6. capacity' \in Nat /\ Len(m_jobs') <= capacity'
    BY <1>1, <2>3 DEF Enqueue, PushJob, TypeOK
  <2>7. dangling' \in BOOLEAN /\ orphaned' \subseteq Ids'
    BY <1>1, <2>3 DEF Enqueue, PushJob, TypeOK
  <2> QED
    BY <1>1, <2>3, <2>5, <2>6, <2>7
    DEF Enqueue, TypeOK, apiVars, workerVars, uploadVars
<1>2. ASSUME NEW j \in Ids, Pause(j) \/ Cancel(j) PROVE TypeOK'
  <2>1. JobsReplaced
    BY <1>2, StatusSet DEF Pause, Cancel, Status
  <2> QED
    BY <1>2, <2>1 DEF JobsReplaced, TypeOK, Pause, Cancel, Call, workerVars, uploadVars
<1>3. ASSUME NEW j \in Ids, Resume(j) PROVE TypeOK'
  <2>1. JobsReplaced
    BY <1>3, StatusSet DEF Resume, Status
  <2>2. m_queue' \in Seq(Ids' \cup {NoJob})
    BY <1>3, <2>1 DEF JobsReplaced, Resume, TypeOK
  <2> QED
    BY <1>3, <2>1, <2>2 DEF JobsReplaced, TypeOK, Resume, Call, workerVars, uploadVars
<1>4. ASSUME NEW j \in Ids, Retry(j) PROVE TypeOK'
  <2>1. [status |-> "QUEUED", progress |-> 0, retryCount |-> 0] \in Job
    BY DEF Job, Status
  <2>2. JobsReplaced
    BY <1>4, <2>1, JobUpdate DEF JobsReplaced, Retry, Ids, TypeOK
  <2>3. m_queue' \in Seq(Ids' \cup {NoJob})
    BY <1>4, <2>2 DEF JobsReplaced, Retry, TypeOK
  <2> QED
    BY <1>4, <2>2, <2>3 DEF JobsReplaced, TypeOK, Retry, Call, workerVars, uploadVars
<1>5. CASE PauseAll \/ ResumeAll
  <2>1. m_paused' \in BOOLEAN
    BY <1>5 DEF PauseAll, ResumeAll
  <2>2. UNCHANGED <<m_jobs, capacity, m_queue, m_running, pc, jobPtr, dangling, tus, success,
                    uploadDone, poller, orphaned>>
    BY <1>5 DEF PauseAll, ResumeAll, Call, workerVars, uploadVars
  <2>3. calls' \in Nat
    BY <1>5 DEF PauseAll, ResumeAll, Call, TypeOK
  <2> QED
    BY <2>1, <2>2, <2>3 DEF TypeOK, Ids
<1>19. CASE Destroy
  BY <1>19 DEF TypeOK, Destroy, Ids, workerVars, uploadVars
<1>6. CASE WorkerLoop
  BY <1>6 DEF TypeOK, WorkerLoop, Ids, sharedVars, apiVars, uploadVars, Places, Holding
<1>7. CASE WorkerPop
  BY <1>7 DEF TypeOK, WorkerPop, Ids, sharedVars, apiVars, uploadVars, Places, Holding
<1>8. CASE WorkerFind
  BY <1>8 DEF TypeOK, WorkerFind, Ids, sharedVars, apiVars, uploadVars, Places, Holding
<1>9. CASE WorkerCheck
  BY <1>9 DEF TypeOK, WorkerCheck, Ids, sharedVars, apiVars, uploadVars, Places, Holding
<1>10. CASE WorkerMark
  <2>1. jobPtr # NoJob /\ m_jobs[jobPtr] \in Job
    BY <1>10 DEF WorkerMark, TypeOK, Holding, Ids
  <2>2. JobsReplaced
    BY <1>10, <2>1, JobWritten, JobStatus DEF WorkerMark, Status
  <2> QED
    BY <1>10, <2>1, <2>2
    DEF JobsReplaced, TypeOK, WorkerMark, sharedVars, apiVars, uploadVars, Places, Holding
<1>11. CASE WorkerConstruct
  BY <1>11, TusStep
  DEF TypeOK, WorkerConstruct, Ids, sharedVars, apiVars, Places, Holding
<1>12. CASE WorkerCatch
  <2>1. jobPtr # NoJob /\ m_jobs[jobPtr] \in Job
    BY <1>12 DEF WorkerCatch, TypeOK, Holding, Ids
  <2>2. JobsReplaced
    BY <1>12, <2>1, JobWritten, JobStatus DEF WorkerCatch, Status
  <2> QED
    BY <1>12, <2>1, <2>2
    DEF JobsReplaced, TypeOK, WorkerCatch, sharedVars, apiVars, uploadVars, Places, Holding
<1>13. CASE WorkerJoin
  BY <1>13 DEF TypeOK, WorkerJoin, Ids, sharedVars, apiVars, Places, Holding
<1>14. CASE WorkerResult
  <2>1. jobPtr # NoJob /\ m_jobs[jobPtr] \in Job
    BY <1>14 DEF WorkerResult, TypeOK, Holding, Ids
  <2>2. JobsReplaced
    <3>1. CASE UNCHANGED m_jobs
      BY <3>1 DEF JobsReplaced, TypeOK, Ids
    <3>2. CASE WriteJob([m_jobs[jobPtr] EXCEPT !.status = "COMPLETED", !.progress = 1])
      <4>1. [m_jobs[jobPtr] EXCEPT !.status = "COMPLETED", !.progress = 1] \in Job
        <5>1. "COMPLETED" \in Status /\ 1 \in Int
          BY DEF Status
        <5> QED
          BY <2>1, <5>1, JobCompleted
      <4> QED
        BY <3>2, <2>1, <4>1, JobWritten
    <3>3. ASSUME NEW st \in {"QUEUED", "FAILED"},
                 WriteJob([m_jobs[jobPtr] EXCEPT !.status = st, !.retryCount = @ + 1])
          PROVE  JobsReplaced
      BY <3>3, <2>1, JobRetried, JobWritten DEF Status
    <3> QED
      BY <1>14, <3>1, <3>2, <3>3 DEF WorkerResult
  <2>3. m_queue' \in Seq(Ids \cup {NoJob})
    BY <1>14, <2>1 DEF WorkerResult, TypeOK, IdRead
  <2> QED
    BY <1>14, <2>1, <2>2, <2>3, TusStep
    DEF JobsReplaced, TypeOK, WorkerResult, sharedVars, apiVars, Places, Holding
<1>15. CASE Upload
  <2> USE DEF TypeOK, Ids, tusFrame, sharedVars, apiVars, Places, Holding
  <2>1. CASE TusCreate
    BY <1>15, <2>1, TusStep DEF TusCreate, InUpload
  <2>2. CASE TusBegin
    BY <1>15, <2>2, TusStep DEF TusBegin, InUpload, TusStatus
  <2>3. CASE TusEmpty
    BY <1>15, <2>3, TusStep DEF TusEmpty, InUpload, Return, TusStatus
  <2>4. CASE TusChunk
    BY <1>15, <2>4, TusStep DEF TusChunk, InUpload
  <2>5. CASE TusChunkFails
    BY <1>15, <2>5, TusStep DEF TusChunkFails, InUpload, Return, TusStatus
  <2>6. CASE TusLoopEnds
    BY <1>15, <2>6, TusStep DEF TusLoopEnds, InUpload, Return, TusStatus
  <2>7. CASE TusThrows
    BY <1>15, <2>7 DEF TusThrows, InUpload
  <2>8. CASE TusUnchunked
    BY <1>15, <2>8 DEF TusUnchunked, InUpload, Return
  <2> QED
    BY <1>15, <2>1, <2>2, <2>3, <2>4, <2>5, <2>6, <2>7, <2>8 DEF Upload
<1>16. CASE PollerProgress
  <2>1. jobPtr # NoJob /\ m_jobs[jobPtr] \in Job
    BY <1>16 DEF PollerProgress, TypeOK, Ids
  <2>2. Progress \in Int
    BY UploadAssumption DEF Progress, TypeOK, Tus
  <2>3. JobsReplaced
    <3>1. CASE UNCHANGED m_jobs
      BY <3>1 DEF JobsReplaced, TypeOK, Ids
    <3>2. CASE WriteJob([m_jobs[jobPtr] EXCEPT !.progress = Progress])
      BY <3>2, <2>1, <2>2, JobProgress, JobWritten
    <3> QED
      BY <1>16, <3>1, <3>2 DEF PollerProgress
  <2> QED
    BY <1>16, <2>3
    DEF JobsReplaced, TypeOK, PollerProgress, pollFrame, workerVars, sharedVars, apiVars
<1>17. CASE PollerCheck
  BY <1>17, TusStep
  DEF TypeOK, PollerCheck, Ids, pollFrame, workerVars, sharedVars, apiVars
<1>18. CASE UNCHANGED vars
  BY <1>18 DEF TypeOK, vars, Ids
<1> QED
  BY <1>1, <1>2, <1>3, <1>4, <1>5, <1>6, <1>7, <1>8, <1>9, <1>10, <1>11, <1>12, <1>13, <1>14,
     <1>15, <1>16, <1>17, <1>18, <1>19
  DEF Next, Api, Worker, Poller, Ended

(* The constructor leaves every variable with its type. *)
LEMMA InitType == Init => TypeOK
<1> SUFFICES ASSUME Init PROVE TypeOK
  OBVIOUS
<1>1. tus \in Tus
  BY DEF Init, Tus, TusStatus, NewTus
<1>2. m_jobs \in Seq(Job) /\ Len(m_jobs) <= capacity /\ m_queue \in Seq(Ids \cup {NoJob})
  BY DEF Init
<1> QED
  BY <1>1, <1>2 DEF Init, TypeOK, Places, Holding

(* Every variable keeps its type, and the references of the worker and of   *)
(* the poller name jobs, whatever the application calls and however its     *)
(* calls interleave with the two threads.                                   *)
THEOREM TypeCorrect == Spec => []TypeOK
  BY InitType, TypeStep, PTL DEF Spec

-----------------------------------------------------------------------------
(* The inductive invariant *)

(* Pushing and popping ids. *)
LEMMA Pushed ==
    ASSUME TypeOK, NEW x, x \in Ids \cup {NoJob} \cup {Len(m_jobs) + 1},
           m_queue' = Append(m_queue, x)
    PROVE  InQueue(x)' /\ \A j : InQueue(j) => InQueue(j)'
  BY DEF TypeOK, InQueue

(* Popping removes the first id only. *)
LEMMA Popped ==
    ASSUME TypeOK, m_queue # <<>>, m_queue' = Tail(m_queue)
    PROVE  \A j : InQueue(j) => j = Head(m_queue) \/ InQueue(j)'
  <1> SUFFICES ASSUME NEW j, InQueue(j), j # Head(m_queue) PROVE InQueue(j)'
    OBVIOUS
  <1>1. PICK i \in DOMAIN m_queue : m_queue[i] = j
    BY DEF InQueue
  <1>2. m_queue \in Seq(Ids \cup {NoJob}) /\ i \in 1..Len(m_queue) /\ i # 1
    BY <1>1 DEF TypeOK
  <1>3. i - 1 \in DOMAIN m_queue' /\ m_queue'[i - 1] = j
    BY <1>1, <1>2
  <1> QED
    BY <1>3 DEF InQueue

(* The steps of the worker that leave the jobs alone preserve the invariant. *)
LEMMA IInvWorker ==
    ASSUME IInv, TypeOK',
           WorkerLoop \/ WorkerPop \/ WorkerFind \/ WorkerCheck \/ WorkerConstruct \/ WorkerJoin
    PROVE  IInv'
<1> USE DEF IInv, Ids, sharedVars, apiVars, uploadVars, Holding
<1>1. CASE WorkerLoop
  BY <1>1 DEF WorkerLoop, DanglingIsOrphaned, QueuedIsSomewhere, UploadingIsHeld, PopFindsEntry,
     HeldIsUnfinished, CompletedIsFull, ClientOutcome, InterruptionHasCause, InQueue
<1>2. CASE WorkerPop
  BY <1>2, Popped DEF WorkerPop, DanglingIsOrphaned, QueuedIsSomewhere, UploadingIsHeld,
     PopFindsEntry,
     HeldIsUnfinished, CompletedIsFull, ClientOutcome, InterruptionHasCause
<1>3. CASE WorkerFind
  BY <1>3 DEF WorkerFind, DanglingIsOrphaned, QueuedIsSomewhere, UploadingIsHeld, PopFindsEntry,
     HeldIsUnfinished, CompletedIsFull, ClientOutcome, InterruptionHasCause, InQueue
<1>4. CASE WorkerCheck
  <2>1. QueuedIsSomewhere'
    <3>1. CASE jobPtr = NoJob
      BY <1>4, <3>1 DEF WorkerCheck, QueuedIsSomewhere, InQueue, TypeOK, NoJob
    <3>2. CASE jobPtr # NoJob /\ dangling
      BY <1>4, <3>2 DEF WorkerCheck, QueuedIsSomewhere, InQueue, DanglingIsOrphaned
    <3>3. CASE jobPtr # NoJob /\ ~dangling
      BY <1>4, <3>3 DEF WorkerCheck, QueuedIsSomewhere, InQueue, StatusRead
    <3> QED
      BY <3>1, <3>2, <3>3 DEF TypeOK
  <2> QED
    BY <1>4, <2>1 DEF WorkerCheck, DanglingIsOrphaned, UploadingIsHeld, PopFindsEntry,
       HeldIsUnfinished, CompletedIsFull, ClientOutcome, InterruptionHasCause, InQueue
<1>5. CASE WorkerConstruct
  BY <1>5 DEF WorkerConstruct, DanglingIsOrphaned, QueuedIsSomewhere, UploadingIsHeld,
     PopFindsEntry,
     HeldIsUnfinished, CompletedIsFull, ClientOutcome, InterruptionHasCause, InQueue, NewTus
<1>6. CASE WorkerJoin
  BY <1>6 DEF WorkerJoin, DanglingIsOrphaned, QueuedIsSomewhere, UploadingIsHeld, PopFindsEntry,
     HeldIsUnfinished, CompletedIsFull, ClientOutcome, InterruptionHasCause, InQueue
<1> QED
  BY <1>1, <1>2, <1>3, <1>4, <1>5, <1>6

(* upload() leaves the jobs and the queue alone. *)
LEMMA IInvUpload == ASSUME IInv, TypeOK', Upload PROVE IInv'
<1> USE DEF IInv, Ids, tusFrame, sharedVars, apiVars, Holding, InUpload, DanglingIsOrphaned,
   QueuedIsSomewhere, UploadingIsHeld, PopFindsEntry,
     HeldIsUnfinished, CompletedIsFull, ClientOutcome, InterruptionHasCause, InQueue
<1>1. CASE TusCreate
  BY <1>1 DEF TusCreate, TypeOK, Tus
<1>2. CASE TusBegin
  BY <1>2 DEF TusBegin, TypeOK, Tus
<1>3. CASE TusEmpty
  BY <1>3 DEF TusEmpty, Return, TypeOK, Tus
<1>4. CASE TusChunk
  BY <1>4 DEF TusChunk, TypeOK, Tus
<1>5. CASE TusChunkFails
  BY <1>5 DEF TusChunkFails, Return, TypeOK, Tus
<1>6. CASE TusLoopEnds
  BY <1>6 DEF TusLoopEnds, Return, TypeOK, Tus
<1>7. CASE TusThrows
  BY <1>7 DEF TusThrows
<1>8. CASE TusUnchunked
  BY <1>8 DEF TusUnchunked, Return
<1> QED
  BY <1>1, <1>2, <1>3, <1>4, <1>5, <1>6, <1>7, <1>8 DEF Upload

(* A write through the reference changes the job it was taken to, if any. *)
LEMMA Written ==
    ASSUME TypeOK, jobPtr \in Ids, NEW job, WriteJob(job)
    PROVE  /\ Ids' = Ids
           /\ \A j \in Ids : m_jobs'[j] = IF j = jobPtr /\ ~dangling THEN job ELSE m_jobs[j]
  BY DEF TypeOK, WriteJob, Ids

(* The poller writes the progress of a job that is not COMPLETED. *)
LEMMA IInvPollerProgress == ASSUME IInv, TypeOK', PollerProgress PROVE IInv'
<1>1. CASE UNCHANGED m_jobs
  BY <1>1 DEF IInv, PollerProgress, Ids, pollFrame, workerVars, sharedVars, apiVars, Holding,
     DanglingIsOrphaned, QueuedIsSomewhere, UploadingIsHeld, PopFindsEntry,
     HeldIsUnfinished, CompletedIsFull, ClientOutcome, InterruptionHasCause, InQueue
<1>2. CASE WriteJob([m_jobs[jobPtr] EXCEPT !.progress = Progress])
  <2>1. jobPtr \in Ids /\ pc \in {"upload", "join"} /\ m_jobs[jobPtr] \in Job
    BY DEF IInv, TypeOK, PollerProgress, Alive, Ids
  <2>2. /\ Ids' = Ids
        /\ \A j \in Ids : m_jobs'[j].status = m_jobs[j].status
        /\ \A j \in Ids : m_jobs'[j].progress = m_jobs[j].progress \/ (j = jobPtr /\ ~dangling)
    BY <1>2, <2>1, Written DEF IInv, Job
  <2>3. UNCHANGED <<m_queue, pc, jobPtr, success, dangling, orphaned, tus>>
    BY DEF PollerProgress, pollFrame, workerVars, sharedVars
  <2> QED
    BY <2>1, <2>2, <2>3 DEF IInv, Holding, DanglingIsOrphaned, QueuedIsSomewhere,
       UploadingIsHeld, PopFindsEntry,
     HeldIsUnfinished, CompletedIsFull, ClientOutcome, InterruptionHasCause, InQueue
<1> QED
  BY <1>1, <1>2 DEF PollerProgress

(* The poller interrupts the client for a status it has read. *)
LEMMA IInvPollerCheck == ASSUME IInv, TypeOK', PollerCheck PROVE IInv'
<1>1. UNCHANGED <<m_jobs, m_queue, pc, jobPtr, success, dangling, orphaned>>
  BY DEF PollerCheck, pollFrame, workerVars, sharedVars
<1>2. pc \in {"upload", "join"} /\ tus \in Tus
  BY DEF IInv, TypeOK, PollerCheck, Alive
<1>3. \/ UNCHANGED tus
      \/ tus' = TusCancel /\ "CANCELLED" \in StatusRead
      \/ tus' = TusPause /\ "PAUSED" \in StatusRead
  BY DEF PollerCheck
<1>4. ClientOutcome'
  BY <1>1, <1>2, <1>3 DEF IInv, ClientOutcome, TusCancel, TusPause, Tus
<1>5. InterruptionHasCause'
  BY <1>1, <1>2, <1>3 DEF IInv, InterruptionHasCause, TusCancel, TusPause, StatusRead, Tus
<1> QED
  BY <1>1, <1>4, <1>5 DEF IInv, Holding, Ids, DanglingIsOrphaned, QueuedIsSomewhere,
     UploadingIsHeld, PopFindsEntry, HeldIsUnfinished, CompletedIsFull, InQueue

(* The two writes that do not look at the status. *)
LEMMA IInvMark == ASSUME IInv, TypeOK', WorkerMark \/ WorkerCatch PROVE IInv'
<1>1. jobPtr \in Ids /\ pc \in {"mark", "construct"} /\ m_jobs[jobPtr] \in Job
  BY DEF IInv, TypeOK, WorkerMark, WorkerCatch, Holding, Ids
<1>2. UNCHANGED <<m_queue, jobPtr, success, dangling, orphaned, tus>>
  BY DEF WorkerMark, WorkerCatch, sharedVars, uploadVars
<1>3. CASE WorkerMark
  <2>1. Ids' = Ids /\ \A j \in Ids :
           IF j = jobPtr /\ ~dangling THEN m_jobs'[j].status = "UPLOADING"
              ELSE m_jobs'[j] = m_jobs[j]
    BY <1>1, <1>3, Written DEF IInv, WorkerMark, Job
  <2> QED
    BY <1>1, <1>2, <1>3, <2>1 DEF WorkerMark, IInv, Holding, DanglingIsOrphaned,
       QueuedIsSomewhere, UploadingIsHeld, PopFindsEntry,
     HeldIsUnfinished, CompletedIsFull, ClientOutcome, InterruptionHasCause, InQueue
<1>4. CASE WorkerCatch
  <2>1. Ids' = Ids /\ \A j \in Ids :
           IF j = jobPtr /\ ~dangling THEN m_jobs'[j].status = "FAILED"
              ELSE m_jobs'[j] = m_jobs[j]
    BY <1>1, <1>4, Written DEF IInv, WorkerCatch, Job
  <2> QED
    BY <1>1, <1>2, <1>4, <2>1 DEF WorkerCatch, IInv, Holding, DanglingIsOrphaned,
       QueuedIsSomewhere, UploadingIsHeld, PopFindsEntry,
     HeldIsUnfinished, CompletedIsFull, ClientOutcome, InterruptionHasCause, InQueue
<1> QED
  BY <1>3, <1>4

(* What the result handler does to the job: nothing if it was paused or     *)
(* cancelled, a final or a queued status otherwise, and nothing if the      *)
(* reference dangles.                                                       *)
LEMMA ResultEffect ==
    ASSUME IInv, WorkerResult
    PROVE  /\ Ids' = Ids /\ jobPtr \in Ids
           /\ \A j \in Ids : j # jobPtr \/ dangling => m_jobs'[j] = m_jobs[j]
           /\ \A j : InQueue(j) => InQueue(j)'
           /\ ~dangling =>
                 \/ /\ m_jobs[jobPtr].status \in {"CANCELLED", "PAUSED"}
                    /\ m_jobs'[jobPtr] = m_jobs[jobPtr]
                 \/ /\ m_jobs[jobPtr].status \notin {"CANCELLED", "PAUSED"}
                    /\ success
                    /\ m_jobs'[jobPtr].status = "COMPLETED" /\ m_jobs'[jobPtr].progress = 1
                 \/ /\ m_jobs[jobPtr].status \notin {"CANCELLED", "PAUSED"}
                    /\ m_jobs'[jobPtr].status = "QUEUED" /\ \A j : j = jobPtr => InQueue(j)'
                 \/ /\ m_jobs[jobPtr].status \notin {"CANCELLED", "PAUSED"}
                    /\ m_jobs'[jobPtr].status = "FAILED"
<1> DEFINE job == m_jobs[jobPtr]
<1>1. jobPtr \in Ids /\ job \in Job /\ TypeOK
  BY DEF IInv, TypeOK, WorkerResult, Holding, Ids
<1>6. ~dangling /\ StatusRead \ ResultIgnored # {} => job.status \notin {"CANCELLED", "PAUSED"}
  BY DEF StatusRead, ResultIgnored
<1>2. CASE StatusRead \cap ResultIgnored # {} /\ UNCHANGED <<m_jobs, m_queue>>
  BY <1>1, <1>2 DEF StatusRead, ResultIgnored, Ids, InQueue
<1>3. CASE /\ StatusRead \ ResultIgnored # {} /\ success
           /\ WriteJob([job EXCEPT !.status = "COMPLETED", !.progress = 1])
           /\ UNCHANGED m_queue
  <2>1. /\ Ids' = Ids
        /\ \A j \in Ids : j # jobPtr \/ dangling => m_jobs'[j] = m_jobs[j]
        /\ ~dangling => m_jobs'[jobPtr] = [job EXCEPT !.status = "COMPLETED", !.progress = 1]
    BY <1>1, <1>3, Written
  <2> QED
    BY <1>1, <1>3, <2>1, <1>6 DEF InQueue, Job
<1>4. CASE /\ StatusRead \ ResultIgnored # {}
           /\ WriteJob([job EXCEPT !.status = "QUEUED", !.retryCount = @ + 1])
           /\ \E id \in IdRead : m_queue' = Append(m_queue, id)
  <2>1. PICK id \in IdRead : m_queue' = Append(m_queue, id)
    BY <1>4
  <2>2. InQueue(id)' /\ \A j : InQueue(j) => InQueue(j)'
    BY <1>1, <2>1, Pushed DEF IdRead
  <2>3. ~dangling => id = jobPtr
    BY <2>1 DEF IdRead
  <2>4. /\ Ids' = Ids
        /\ \A j \in Ids : j # jobPtr \/ dangling => m_jobs'[j] = m_jobs[j]
        /\ ~dangling => m_jobs'[jobPtr] = [job EXCEPT !.status = "QUEUED", !.retryCount = @ + 1]
    BY <1>1, <1>4, Written
  <2> QED
    BY <1>1, <1>4, <2>2, <2>3, <2>4, <1>6 DEF Job
<1>5. CASE /\ StatusRead \ ResultIgnored # {}
           /\ WriteJob([job EXCEPT !.status = "FAILED", !.retryCount = @ + 1])
           /\ UNCHANGED m_queue
  <2>1. /\ Ids' = Ids
        /\ \A j \in Ids : j # jobPtr \/ dangling => m_jobs'[j] = m_jobs[j]
        /\ ~dangling => m_jobs'[jobPtr] = [job EXCEPT !.status = "FAILED", !.retryCount = @ + 1]
    BY <1>1, <1>5, Written
  <2> QED
    BY <1>1, <1>5, <2>1, <1>6 DEF InQueue, Job
<1> QED
  BY <1>2, <1>3, <1>4, <1>5 DEF WorkerResult

(* The result handler of processJob preserves the invariant. *)
LEMMA IInvResult == ASSUME IInv, TypeOK', WorkerResult PROVE IInv'
<1>1. UNCHANGED <<jobPtr, dangling, orphaned>> /\ pc = "result" /\ pc' = "loop"
  BY DEF WorkerResult, sharedVars
<1>2. DanglingIsOrphaned' /\ PopFindsEntry' /\ HeldIsUnfinished' /\ ClientOutcome'
         /\ InterruptionHasCause'
  BY <1>1 DEF DanglingIsOrphaned, PopFindsEntry, HeldIsUnfinished, ClientOutcome,
     InterruptionHasCause, Holding
<1>3. dangling => jobPtr \in orphaned
  BY <1>1 DEF IInv, DanglingIsOrphaned, Holding
<1>4. QueuedIsSomewhere' /\ UploadingIsHeld' /\ CompletedIsFull'
  BY <1>1, <1>3, ResultEffect DEF IInv, QueuedIsSomewhere, UploadingIsHeld, CompletedIsFull
<1> QED
  BY <1>2, <1>4 DEF IInv

-----------------------------------------------------------------------------
(* The control API *)

(* What a control call does to its job. *)
LEMMA CallEffect ==
    ASSUME TypeOK, NEW j \in Ids, Pause(j) \/ Resume(j) \/ Cancel(j) \/ Retry(j)
    PROVE  /\ Ids' = Ids /\ \A k \in Ids \ {j} : m_jobs'[k] = m_jobs[k]
           /\ \A k : InQueue(k) => InQueue(k)'
           /\ m_queue # <<>> => m_queue' # <<>>
           /\ \/ m_jobs[j].status = "UPLOADING" /\ m_jobs'[j].status = "PAUSED"
              \/ m_jobs[j].status = "PAUSED" /\ m_jobs'[j].status = "QUEUED" /\ InQueue(j)'
              \/ m_jobs'[j].status = "CANCELLED"
              \/ m_jobs[j].status = "FAILED" /\ m_jobs'[j].status = "QUEUED" /\ InQueue(j)'
<1>1. m_jobs \in Seq(Job) /\ m_jobs[j] \in Job
  BY DEF TypeOK, Ids
<1>2. CASE Pause(j)
  BY <1>1, <1>2 DEF Pause, Ids, Job, InQueue
<1>3. CASE Resume(j)
  <2>1. InQueue(j)' /\ (\A k : InQueue(k) => InQueue(k)') /\ m_queue' # <<>>
    BY <1>3, Pushed DEF Resume, TypeOK
  <2> QED
    BY <1>1, <1>3, <2>1 DEF Resume, Ids, Job
<1>4. CASE Cancel(j)
  BY <1>1, <1>4 DEF Cancel, Ids, Job, InQueue
<1>5. CASE Retry(j)
  <2>1. InQueue(j)' /\ (\A k : InQueue(k) => InQueue(k)') /\ m_queue' # <<>>
    BY <1>5, Pushed DEF Retry, TypeOK
  <2> QED
    BY <1>1, <1>5, <2>1 DEF Retry, Ids, Job
<1> QED
  BY <1>2, <1>3, <1>4, <1>5

(* The calls that name a job preserve the invariant. *)
LEMMA IInvCall ==
    ASSUME IInv, TypeOK', NEW j \in Ids, Pause(j) \/ Resume(j) \/ Cancel(j) \/ Retry(j)
    PROVE  IInv'
<1>1. UNCHANGED <<pc, jobPtr, success, dangling, orphaned, tus>>
  BY DEF Pause, Resume, Cancel, Retry, Call, workerVars, uploadVars
<1>2. TypeOK /\ (pc \in {"construct", "upload", "join", "result"} => jobPtr \in Ids)
  BY DEF IInv, TypeOK, Holding
<1>3. QueuedIsSomewhere' /\ UploadingIsHeld' /\ CompletedIsFull'
  BY <1>1, <1>2, CallEffect DEF IInv, QueuedIsSomewhere, UploadingIsHeld, CompletedIsFull
<1>4. HeldIsUnfinished' /\ InterruptionHasCause'
  BY <1>1, <1>2, CallEffect DEF IInv, HeldIsUnfinished, InterruptionHasCause
<1>5. PopFindsEntry' /\ DanglingIsOrphaned' /\ ClientOutcome'
  BY <1>1, <1>2, CallEffect DEF IInv, PopFindsEntry, DanglingIsOrphaned, ClientOutcome
<1> QED
  BY <1>3, <1>4, <1>5 DEF IInv

(* enqueue preserves it, and orphans the job of a reference it breaks. *)
LEMMA IInvEnqueue == ASSUME IInv, TypeOK', Enqueue PROVE IInv'
<1>0. PICK new : new = Len(m_jobs) + 1
  OBVIOUS
<1>1. UNCHANGED <<pc, jobPtr, success, tus>>
  BY DEF Enqueue, workerVars, uploadVars
<1>2. /\ Ids' = Ids \cup {new}
      /\ \A j \in Ids : m_jobs'[j] = m_jobs[j]
      /\ m_jobs'[new].status = "QUEUED"
  BY <1>0 DEF IInv, TypeOK, Enqueue, PushJob, Ids
<1>3. InQueue(new)' /\ (\A j : InQueue(j) => InQueue(j)') /\ m_queue' # <<>>
  <2>1. TypeOK /\ m_queue' = Append(m_queue, new)
    BY <1>0 DEF IInv, Enqueue
  <2>2. m_queue' # <<>>
    BY <2>1 DEF TypeOK
  <2> QED
    BY <1>0, <2>1, <2>2, Pushed
<1>4. /\ orphaned \subseteq orphaned'
      /\ dangling => dangling'
      /\ dangling' => dangling \/ jobPtr \in orphaned'
  BY DEF Enqueue, PushJob
<1>5. QueuedIsSomewhere' /\ UploadingIsHeld' /\ CompletedIsFull'
  BY <1>1, <1>2, <1>3, <1>4 DEF IInv, QueuedIsSomewhere, UploadingIsHeld, CompletedIsFull
<1>6. pc \in {"construct", "upload", "join", "result"} => jobPtr \in Ids
  BY DEF IInv, TypeOK, Holding
<1>7. HeldIsUnfinished' /\ InterruptionHasCause'
  BY <1>1, <1>2, <1>4, <1>6 DEF IInv, HeldIsUnfinished, InterruptionHasCause
<1>8. PopFindsEntry' /\ DanglingIsOrphaned' /\ ClientOutcome'
  BY <1>1, <1>3, <1>4 DEF IInv, PopFindsEntry, DanglingIsOrphaned, ClientOutcome
<1> QED
  BY <1>5, <1>7, <1>8 DEF IInv

(* The invariant is inductive. *)
LEMMA IInvStep == ASSUME IInv, [Next]_vars PROVE IInv'
<1>1. TypeOK'
  BY TypeStep DEF IInv
<1>2. CASE PauseAll \/ ResumeAll \/ Destroy
  <2>1. UNCHANGED <<m_jobs, m_queue, pc, jobPtr, success, dangling, orphaned, tus>>
    BY <1>2 DEF PauseAll, ResumeAll, Destroy, Call, workerVars, uploadVars
  <2> QED
    BY <1>1, <2>1 DEF IInv, Holding, Ids, DanglingIsOrphaned, QueuedIsSomewhere, UploadingIsHeld,
       PopFindsEntry,
     HeldIsUnfinished, CompletedIsFull, ClientOutcome, InterruptionHasCause, InQueue
<1>3. CASE UNCHANGED vars
  BY <1>1, <1>3 DEF vars, IInv, Holding, Ids, DanglingIsOrphaned, QueuedIsSomewhere,
     UploadingIsHeld, PopFindsEntry,
     HeldIsUnfinished, CompletedIsFull, ClientOutcome, InterruptionHasCause, InQueue
<1> QED
  BY <1>1, <1>2, <1>3, IInvWorker, IInvUpload, IInvPollerProgress, IInvPollerCheck, IInvMark,
     IInvResult, IInvCall, IInvEnqueue
  DEF Next, Api, Worker, Poller, Ended

(* The strengthened invariant holds in every reachable state. *)
THEOREM Invariant == Spec => []IInv
<1>1. Init => IInv
  <2>1. Init => TypeOK
    BY InitType
  <2> QED
    BY <2>1 DEF Init, IInv, Holding, Ids, DanglingIsOrphaned, QueuedIsSomewhere, UploadingIsHeld,
       PopFindsEntry,
     HeldIsUnfinished, CompletedIsFull, ClientOutcome, InterruptionHasCause, InQueue
<1> QED
  BY <1>1, IInvStep, PTL DEF Spec

-----------------------------------------------------------------------------
(* The properties *)

(* No interleaving of enqueue, resume, retry and the automatic retry with   *)
(* the worker leaves a QUEUED job that nobody will take, but for a          *)
(* push_back under the worker's reference.                                  *)
THEOREM NothingForgotten == Spec => []NoForgottenJob
<1>1. IInv => NoForgottenJob
  BY DEF IInv, QueuedIsSomewhere, NoForgottenJob, Holding
<1> QED
  BY <1>1, Invariant, PTL

(* Every way out of processJob gives the job another status. *)
THEOREM UploadingHeld == Spec => []UploadingIsHeld
<1>1. IInv => UploadingIsHeld
  BY DEF IInv
<1> QED
  BY <1>1, Invariant, PTL

(* The unlocked empty() of workerLoop is never outdated when the worker has *)
(* taken the lock.                                                          *)
THEOREM PopSafe == Spec => []PopFindsEntry
<1>1. IInv => PopFindsEntry
  BY DEF IInv
<1> QED
  BY <1>1, Invariant, PTL

(* The poller interrupts the client only for a pause or a cancel. *)
THEOREM InterruptionJustified == Spec => []InterruptionHasCause
<1>1. IInv => InterruptionHasCause
  BY DEF IInv
<1> QED
  BY <1>1, Invariant, PTL

(* No late poll overwrites the progress of a COMPLETED job. *)
THEOREM CompletedFull == Spec => []CompletedIsFull
<1>1. IInv => CompletedIsFull
  BY DEF IInv
<1> QED
  BY <1>1, Invariant, PTL

(* One step of the worker's writes leaves CANCELLED alone. *)
LEMMA CancelStep ==
    ASSUME IInv, [Next]_vars, NEW j \in Ids, m_jobs[j].status = "CANCELLED", ~Overwrites(j)
    PROVE  m_jobs'[j].status = "CANCELLED"
<1>1. TypeOK /\ m_jobs \in Seq(Job) /\ m_jobs[j] \in Job
  BY DEF IInv, TypeOK, Ids
<1>2. CASE Enqueue
  BY <1>1, <1>2 DEF Enqueue, PushJob, Ids
<1>3. ASSUME NEW k \in Ids, Pause(k) \/ Resume(k) \/ Cancel(k) \/ Retry(k)
      PROVE  m_jobs'[j].status = "CANCELLED"
  BY <1>1, <1>3, CallEffect
<1>4. CASE WorkerMark \/ WorkerCatch
  <2>1. jobPtr \in Ids /\ jobPtr # j
    BY <1>1, <1>4 DEF WorkerMark, WorkerCatch, Overwrites, Held, TypeOK, Holding
  <2> QED
    BY <1>1, <1>4, <2>1, Written DEF WorkerMark, WorkerCatch
<1>5. CASE WorkerResult
  BY <1>5, ResultEffect
<1>6. CASE PollerProgress
  <2>1. CASE UNCHANGED m_jobs
    BY <2>1
  <2>2. CASE WriteJob([m_jobs[jobPtr] EXCEPT !.progress = Progress])
    <3>1. jobPtr \in Ids /\ m_jobs[jobPtr] \in Job
      BY <1>6 DEF IInv, TypeOK, PollerProgress, Ids
    <3>2. [m_jobs[jobPtr] EXCEPT !.progress = Progress].status = m_jobs[jobPtr].status
      BY <3>1 DEF Job
    <3> QED
      BY <1>1, <2>2, <3>1, <3>2, Written
  <2> QED
    BY <1>6, <2>1, <2>2 DEF PollerProgress
<1>7. CASE UNCHANGED m_jobs
  BY <1>7
<1> QED
  BY <1>2, <1>3, <1>4, <1>5, <1>6, <1>7
  DEF Next, Api, Worker, Poller, Upload, Ended, vars, PauseAll, ResumeAll, Destroy, WorkerLoop,
      WorkerPop, WorkerFind, WorkerCheck, WorkerConstruct, WorkerJoin, PollerCheck, TusCreate,
      TusBegin, TusEmpty, TusChunk, TusChunkFails, TusLoopEnds, TusThrows, TusUnchunked, tusFrame

(* Outside the window of processJob between the unlocked test and the       *)
(* construction of the client, no step takes a job out of CANCELLED.        *)
THEOREM CancelIsSticky == Spec => CancelSticks
<1>1. IInv /\ [Next]_vars =>
        [\A j \in Ids : m_jobs[j].status = "CANCELLED" /\ ~Overwrites(j)
                            => m_jobs'[j].status = "CANCELLED"]_vars
  BY CancelStep
<1> QED
  BY <1>1, Invariant, PTL DEF Spec, CancelSticks

(* Only the result handler completes a job. *)
LEMMA CompletedStep ==
    ASSUME IInv, [Next]_vars, NEW j \in Ids,
           m_jobs[j].status # "COMPLETED", m_jobs'[j].status = "COMPLETED"
    PROVE  tus.status = "FINISHED" \/ m_jobs[j].status = "QUEUED"
<1>1. TypeOK /\ m_jobs \in Seq(Job) /\ m_jobs[j] \in Job
  BY DEF IInv, TypeOK, Ids
<1>2. CASE Enqueue
  BY <1>1, <1>2 DEF Enqueue, PushJob, Ids
<1>3. ASSUME NEW k \in Ids, Pause(k) \/ Resume(k) \/ Cancel(k) \/ Retry(k)
      PROVE  FALSE
  BY <1>1, <1>3, CallEffect
<1>4. CASE WorkerMark \/ WorkerCatch
  <2>1. jobPtr \in Ids /\ m_jobs[jobPtr] \in Job
    BY <1>1, <1>4 DEF WorkerMark, WorkerCatch, TypeOK, Holding, Ids
  <2>2. \A st : WriteJob([m_jobs[jobPtr] EXCEPT !.status = st])
                  => m_jobs'[j] = m_jobs[j] \/ m_jobs'[j].status = st
    BY <1>1, <2>1, Written DEF Job
  <2> QED
    BY <1>4, <2>2 DEF WorkerMark, WorkerCatch
<1>5. CASE WorkerResult
  <2>1. j = jobPtr /\ ~dangling /\ success /\ m_jobs[j].status \notin {"CANCELLED", "PAUSED"}
    BY <1>5, ResultEffect
  <2>2. tus.status \in {"FINISHED", "PAUSED", "CANCELED"}
    BY <1>5, <2>1 DEF IInv, ClientOutcome, WorkerResult
  <2> QED
    BY <1>5, <2>1, <2>2 DEF IInv, InterruptionHasCause, WorkerResult
<1>6. CASE PollerProgress
  <2>1. CASE UNCHANGED m_jobs
    BY <2>1
  <2>2. CASE WriteJob([m_jobs[jobPtr] EXCEPT !.progress = Progress])
    <3>1. jobPtr \in Ids /\ m_jobs[jobPtr] \in Job
      BY <1>6 DEF IInv, TypeOK, PollerProgress, Ids
    <3>2. [m_jobs[jobPtr] EXCEPT !.progress = Progress].status = m_jobs[jobPtr].status
      BY <3>1 DEF Job
    <3> QED
      BY <1>1, <2>2, <3>1, <3>2, Written
  <2> QED
    BY <1>6, <2>1, <2>2 DEF PollerProgress
<1>7. CASE UNCHANGED m_jobs
  BY <1>7
<1> QED
  BY <1>2, <1>3, <1>4, <1>5, <1>6, <1>7
  DEF Next, Api, Worker, Poller, Upload, Ended, vars, PauseAll, ResumeAll, Destroy, WorkerLoop,
      WorkerPop, WorkerFind, WorkerCheck, WorkerConstruct, WorkerJoin, PollerCheck, TusCreate,
      TusBegin, TusEmpty, TusChunk, TusChunkFails, TusLoopEnds, TusThrows, TusUnchunked, tusFrame

(* A job is completed for an upload that was not, only if it was paused and *)
(* resumed while upload() was returning.                                    *)
THEOREM CompletedFinished == Spec => CompletedIsFinished
<1>1. IInv /\ [Next]_vars =>
        [\A j \in Ids :
           m_jobs[j].status # "COMPLETED" /\ m_jobs'[j].status = "COMPLETED"
              => tus.status = "FINISHED" \/ m_jobs[j].status = "QUEUED"]_vars
  BY CompletedStep
<1> QED
  BY <1>1, Invariant, PTL DEF Spec, CompletedIsFinished
=============================================================================
