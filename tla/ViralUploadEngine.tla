-------------------------- MODULE ViralUploadEngine --------------------------
(***************************************************************************)
(* The upload engine of ViralEngine/core/ViralUploadEngine.cpp: a vector   *)
(* of jobs, a FIFO of job ids, one worker thread, one progress poller per  *)
(* running upload and the control API called from the application.         *)
(*                                                                         *)
(* Every critical section of m_mutex is one action; what the code does     *)
(* outside the lock (the look-up, the unlocked status test, the call of    *)
(* upload(), the join) is an action of its own.  A job is named by its     *)
(* position in m_jobs, from which nothing is ever removed.                 *)
(*                                                                         *)
(* The worker and the poller hold a reference into m_jobs across all of    *)
(* this.  A push_back that outgrows the vector's capacity frees the buffer *)
(* the reference points into: from then on it is dangling, a read through  *)
(* it returns anything and a write through it is lost.                     *)
(***************************************************************************)
EXTENDS Integers, Sequences

CONSTANTS
    QueueMax,   \* VIRAL_UPLOAD_QUEUE_MAX
    MaxRetry,   \* VIRAL_UPLOAD_MAX_RETRY
    Chunks,     \* number of chunks of a file
    MaxJobs,    \* bound: calls of enqueue that add a job
    MaxCalls    \* bound: calls of the other control operations

ASSUME UploadAssumption ==
    /\ QueueMax \in Nat \ {0}
    /\ MaxRetry \in Nat \ {0}
    /\ Chunks   \in Nat \ {0}
    /\ MaxJobs  \in Nat
    /\ MaxCalls \in Nat

VARIABLES
    m_jobs,      \* std::vector<UploadJob>
    capacity,    \* capacity of that vector's buffer
    m_queue,     \* std::queue<std::string>, ids waiting to upload
    m_running,
    m_paused,
    pc,          \* where the worker thread is
    jobPtr,      \* the id popped, and the job the reference was taken to
    dangling,    \* the reference points into a freed buffer
    tus,         \* the TusClient of the running upload
    success,     \* what upload() returned
    uploadDone,
    poller,      \* where the progress poller is
    orphaned,    \* history: jobs whose reference dangled while they were held
    calls        \* control calls made so far

vars == <<m_jobs, capacity, m_queue, m_running, m_paused, pc, jobPtr, dangling,
          tus, success, uploadDone, poller, orphaned, calls>>

NoJob == 0

(* COMPRESSING is declared by the enum and never assigned. *)
Status == {"QUEUED", "UPLOADING", "PAUSED", "COMPLETED", "FAILED", "CANCELLED"}

Job == [status : Status, progress : Int, retryCount : Nat]

TusStatus == {"READY", "UPLOADING", "PAUSED", "CANCELED", "FAILED", "FINISHED"}

(* phase: before the POST that creates the upload is answered, before the   *)
(* HEAD that asks for its length, in the chunk loop.                         *)
Tus == [status : TusStatus, phase : {"post", "head", "chunks"}, offset : Nat]

(* The worker's places: top of the loop, about to lock and pop, about to    *)
(* look the job up, about to test its status, about to mark it UPLOADING,   *)
(* about to construct the TusClient, inside upload(), joining the poller,   *)
(* handling the result; left the loop; std::terminate was called.           *)
Places == {"loop", "pop", "find", "check", "mark", "construct", "upload",
           "join", "result", "exited", "terminated"}

(* The places at which the worker holds a reference into m_jobs. *)
Holding == {"check", "mark", "construct", "upload", "join", "result"}

Ids == DOMAIN m_jobs

NewTus == [status |-> "READY", phase |-> "post", offset |-> 0]

Alive == pc # "terminated"

Init ==
    /\ m_jobs = <<>>
    /\ capacity = 0
    /\ m_queue = <<>>
    /\ m_running = TRUE
    /\ m_paused = FALSE
    /\ pc = "loop"
    /\ jobPtr = NoJob
    /\ dangling = FALSE
    /\ tus = NewTus
    /\ success = FALSE
    /\ uploadDone = FALSE
    /\ poller = "none"
    /\ orphaned = {}
    /\ calls = 0

-----------------------------------------------------------------------------
(* The control API, called from the application's threads until destroy. *)

apiVars == <<m_running, m_paused>>
workerVars == <<pc, jobPtr, success>>
uploadVars == <<tus, uploadDone, poller>>

Callable == m_running /\ Alive

(* Mutant: the buffer is never enlarged. *)
PushJobInPlace(job) ==
    /\ m_jobs' = Append(m_jobs, job)
    /\ UNCHANGED <<capacity, dangling, orphaned>>

(* push_back doubles the buffer when it is full; the references into the    *)
(* old one dangle.                                                          *)
PushJob(job) ==
    LET grows == Len(m_jobs) = capacity
        held  == pc \in Holding /\ jobPtr # NoJob
    IN  /\ m_jobs' = Append(m_jobs, job)
        /\ capacity' = IF grows THEN (IF capacity = 0 THEN 1 ELSE 2 * capacity)
                                ELSE capacity
        /\ dangling' = (dangling \/ (grows /\ held))
        /\ orphaned' = IF grows /\ held THEN orphaned \cup {jobPtr} ELSE orphaned

(* A refused call reports FAILED for the id "" and changes nothing, so only *)
(* the accepted one is a step.                                              *)
Enqueue ==
    /\ Callable
    /\ Len(m_jobs) < MaxJobs
    /\ Len(m_queue) < QueueMax
    /\ PushJob([status |-> "QUEUED", progress |-> 0, retryCount |-> 0])
    /\ m_queue' = Append(m_queue, Len(m_jobs) + 1)
    /\ UNCHANGED <<apiVars, workerVars, uploadVars, calls>>

Call ==
    /\ Callable
    /\ calls < MaxCalls
    /\ calls' = calls + 1
    /\ UNCHANGED <<capacity, dangling, orphaned, m_running, workerVars, uploadVars>>

Pause(j) ==
    /\ Call
    /\ m_jobs[j].status = "UPLOADING"
    /\ m_jobs' = [m_jobs EXCEPT ![j].status = "PAUSED"]
    /\ UNCHANGED <<m_queue, m_paused>>

(* Mutant: the status is reset and the id not pushed. *)
ResumeUnqueued(j) ==
    /\ Call
    /\ m_jobs[j].status = "PAUSED"
    /\ m_jobs' = [m_jobs EXCEPT ![j].status = "QUEUED"]
    /\ UNCHANGED <<m_queue, m_paused>>

Resume(j) ==
    /\ Call
    /\ m_jobs[j].status = "PAUSED"
    /\ m_jobs' = [m_jobs EXCEPT ![j].status = "QUEUED"]
    /\ m_queue' = Append(m_queue, j)
    /\ UNCHANGED m_paused

(* Mutant: cancel removes the job's entries from the queue. *)
CancelDequeues(j) ==
    /\ Call
    /\ m_jobs' = [m_jobs EXCEPT ![j].status = "CANCELLED"]
    /\ m_queue' = SelectSeq(m_queue, LAMBDA id : id # j)
    /\ UNCHANGED m_paused

Cancel(j) ==
    /\ Call
    /\ m_jobs' = [m_jobs EXCEPT ![j].status = "CANCELLED"]
    /\ UNCHANGED <<m_queue, m_paused>>

Retry(j) ==
    /\ Call
    /\ m_jobs[j].status = "FAILED"
    /\ m_jobs' = [m_jobs EXCEPT ![j] = [status |-> "QUEUED", progress |-> 0,
                                        retryCount |-> 0]]
    /\ m_queue' = Append(m_queue, j)
    /\ UNCHANGED m_paused

PauseAll ==
    /\ Call
    /\ m_paused' = TRUE
    /\ UNCHANGED <<m_jobs, m_queue>>

ResumeAll ==
    /\ Call
    /\ m_paused' = FALSE
    /\ UNCHANGED <<m_jobs, m_queue>>

(* The destructor: it clears m_running and then blocks in join() until the  *)
(* worker has left its loop.                                                *)
Destroy ==
    /\ Callable
    /\ m_running' = FALSE
    /\ UNCHANGED <<m_jobs, capacity, m_queue, m_paused, workerVars, dangling,
                   uploadVars, orphaned, calls>>

-----------------------------------------------------------------------------
(* The worker thread. *)

(* What a read of the held job's status can return. *)
StatusRead == IF dangling THEN Status ELSE {m_jobs[jobPtr].status}

(* A write through the reference reaches m_jobs only while it is live. *)
WriteJob(job) ==
    m_jobs' = IF dangling THEN m_jobs ELSE [m_jobs EXCEPT ![jobPtr] = job]

sharedVars == <<capacity, orphaned, calls, apiVars>>

(* Top of the loop: leave it, sleep 200 ms, or go and pop.  empty() is read *)
(* without the lock.                                                        *)
WorkerLoop ==
    /\ pc = "loop"
    /\ \/ ~m_running /\ pc' = "exited"
       \/ m_running /\ (m_paused \/ m_queue = <<>>) /\ pc' = "loop"
       \/ m_running /\ ~m_paused /\ m_queue # <<>> /\ pc' = "pop"
    /\ UNCHANGED <<m_jobs, m_queue, jobPtr, success, dangling, uploadVars, sharedVars>>

(* The second test of empty(), under the lock, never fails (PopFindsEntry). *)
WorkerPop ==
    /\ pc = "pop"
    /\ m_queue # <<>>
    /\ jobPtr' = Head(m_queue)
    /\ m_queue' = Tail(m_queue)
    /\ pc' = "find"
    /\ UNCHANGED <<m_jobs, success, dangling, uploadVars, sharedVars>>

WorkerFind ==
    /\ pc = "find"
    /\ jobPtr' = IF jobPtr \in Ids THEN jobPtr ELSE NoJob
    /\ dangling' = FALSE
    /\ pc' = "check"
    /\ UNCHANGED <<m_jobs, m_queue, success, uploadVars, sharedVars>>

(* The status is tested after the lock was released, and only against       *)
(* CANCELLED.                                                               *)
WorkerCheck ==
    /\ pc = "check"
    /\ \/ /\ jobPtr = NoJob
          /\ pc' = "loop"
       \/ /\ jobPtr # NoJob /\ "CANCELLED" \in StatusRead
          /\ pc' = "loop"
       \/ /\ jobPtr # NoJob /\ StatusRead # {"CANCELLED"}
          /\ pc' = "mark"
    /\ UNCHANGED <<m_jobs, m_queue, jobPtr, success, dangling, uploadVars, sharedVars>>

WorkerMark ==
    /\ pc = "mark"
    /\ WriteJob([m_jobs[jobPtr] EXCEPT !.status = "UPLOADING"])
    /\ pc' = "construct"
    /\ UNCHANGED <<m_queue, jobPtr, success, dangling, uploadVars, sharedVars>>

(* The TusClient is built and the poller started. *)
WorkerConstruct ==
    /\ pc = "construct"
    /\ tus' = NewTus
    /\ uploadDone' = FALSE
    /\ poller' = "poll"
    /\ pc' = "upload"
    /\ UNCHANGED <<m_jobs, m_queue, jobPtr, success, dangling, sharedVars>>

(* Mutant: the handler forgets the job. *)
WorkerCatchSilently ==
    /\ pc = "construct"
    /\ pc' = "loop"
    /\ UNCHANGED <<m_jobs, m_queue, jobPtr, success, dangling, uploadVars, sharedVars>>

(* The constructor throws (a missing file, an unusable temporary directory) *)
(* and the handler marks the job FAILED without looking at its status.      *)
WorkerCatch ==
    /\ pc = "construct"
    /\ WriteJob([m_jobs[jobPtr] EXCEPT !.status = "FAILED"])
    /\ pc' = "loop"
    /\ UNCHANGED <<m_queue, jobPtr, success, dangling, uploadVars, sharedVars>>

(* Mutant: the poller is detached, not joined. *)
WorkerDetach ==
    /\ pc = "join"
    /\ pc' = "result"
    /\ UNCHANGED <<m_jobs, m_queue, jobPtr, success, dangling, uploadVars, sharedVars>>

WorkerJoin ==
    /\ pc = "join"
    /\ poller = "done"
    /\ poller' = "none"
    /\ pc' = "result"
    /\ UNCHANGED <<m_jobs, m_queue, jobPtr, success, dangling, tus, uploadDone, sharedVars>>

(* The id pushed back is read through the reference, too. *)
IdRead == IF dangling THEN {jobPtr, NoJob} ELSE {jobPtr}

(* Mutants: the result handler looks for one of the two statuses only. *)
IgnoredIfPaused == {"PAUSED"}
IgnoredIfCancelled == {"CANCELLED"}

(* The statuses at which the result of upload() is ignored. *)
ResultIgnored == {"CANCELLED", "PAUSED"}

(* The result of upload() is handled in one critical section. *)
WorkerResult ==
    LET job == m_jobs[jobPtr]
    IN  /\ pc = "result"
        /\ \/ /\ StatusRead \cap ResultIgnored # {}
              /\ UNCHANGED <<m_jobs, m_queue>>
           \/ /\ StatusRead \ ResultIgnored # {}
              /\ success
              /\ WriteJob([job EXCEPT !.status = "COMPLETED", !.progress = 1])
              /\ UNCHANGED m_queue
           \/ /\ StatusRead \ ResultIgnored # {}
              /\ ~success
              /\ dangling \/ job.retryCount + 1 < MaxRetry
              /\ WriteJob([job EXCEPT !.status = "QUEUED", !.retryCount = @ + 1])
              /\ \E id \in IdRead : m_queue' = Append(m_queue, id)
           \/ /\ StatusRead \ ResultIgnored # {}
              /\ ~success
              /\ dangling \/ job.retryCount + 1 >= MaxRetry
              /\ WriteJob([job EXCEPT !.status = "FAILED", !.retryCount = @ + 1])
              /\ UNCHANGED m_queue
        /\ pc' = "loop"
        /\ tus' = NewTus /\ success' = FALSE /\ uploadDone' = FALSE \* locals die
        /\ UNCHANGED <<jobPtr, dangling, poller, sharedVars>>

-----------------------------------------------------------------------------
(* TusClient::upload(), run by the worker thread. *)

InUpload(phase) == pc = "upload" /\ tus.phase = phase

tusFrame == <<m_jobs, m_queue, jobPtr, dangling, poller, sharedVars>>

(* upload() returned: the engine stores the result and raises uploadDone. *)
Return(result) ==
    /\ success' = result
    /\ uploadDone' = TRUE
    /\ pc' = "join"

(* The file cannot be divided into chunks: upload() returns false. *)
TusUnchunked ==
    /\ InUpload("post")
    /\ Return(FALSE)
    /\ UNCHANGED <<tusFrame, tus>>

(* The POST that creates the upload is answered with a location. *)
TusCreate ==
    /\ InUpload("post")
    /\ tus' = [tus EXCEPT !.phase = "head"]
    /\ UNCHANGED <<tusFrame, pc, success, uploadDone>>

(* The HEAD request gave a length: the chunk loop starts, and UPLOADING is  *)
(* stored over whatever m_status was.                                       *)
TusBegin ==
    /\ InUpload("head")
    /\ tus' = [tus EXCEPT !.phase = "chunks", !.status = "UPLOADING"]
    /\ UNCHANGED <<tusFrame, pc, success, uploadDone>>

(* No length is known (an empty file, or the request was dropped by a       *)
(* cancel): upload() has nothing to send and is finished.                   *)
TusEmpty ==
    /\ InUpload("head")
    /\ tus' = [tus EXCEPT !.phase = "chunks", !.status = "FINISHED"]
    /\ Return(TRUE)
    /\ UNCHANGED tusFrame

MoreChunks == tus.status = "UPLOADING" /\ tus.offset < Chunks

(* One PATCH is acknowledged. *)
TusChunk ==
    /\ InUpload("chunks") /\ MoreChunks
    /\ tus' = [tus EXCEPT !.offset = @ + 1]
    /\ UNCHANGED <<tusFrame, pc, success, uploadDone>>

(* One PATCH fails: uploadChunks catches the exception and returns false. *)
TusChunkFails ==
    /\ InUpload("chunks") /\ MoreChunks
    /\ tus' = [tus EXCEPT !.status = "FAILED"]
    /\ Return(FALSE)
    /\ UNCHANGED tusFrame

(* The chunk loop is left, because everything is sent or because the        *)
(* poller paused or cancelled the client: upload() returns true either way, *)
(* and only stop() tells the cases apart.                                   *)
TusLoopEnds ==
    /\ InUpload("chunks") /\ ~MoreChunks
    /\ tus' = [tus EXCEPT !.status = IF @ = "UPLOADING" THEN "FINISHED" ELSE @]
    /\ Return(TRUE)
    /\ UNCHANGED tusFrame

(* An exception leaves upload(): a failed POST or HEAD, or one that is not  *)
(* a TUSException while a chunk is read.  Unwinding destroys the joinable   *)
(* progressPoller, which calls std::terminate before any handler runs.      *)
TusThrows ==
    /\ InUpload(tus.phase)
    /\ tus.phase = "chunks" => MoreChunks
    /\ pc' = "terminated"
    /\ UNCHANGED <<tusFrame, success, uploadDone, tus>>

-----------------------------------------------------------------------------
(* The progress poller. *)

(* TusClient::progress(): a percentage of the file. *)
Progress == (tus.offset * 100) \div Chunks

pollFrame == <<m_queue, workerVars, dangling, sharedVars>>

(* Mutant: the poller's loop does not test uploadDone. *)
PollerNeverDone ==
    /\ Alive
    /\ poller = "poll"
    /\ WriteJob([m_jobs[jobPtr] EXCEPT !.progress = Progress])
    /\ poller' = "check"
    /\ UNCHANGED <<pollFrame, tus, uploadDone>>

PollerProgress ==
    /\ Alive
    /\ poller = "poll"
    /\ \/ /\ uploadDone
          /\ poller' = "done"
          /\ UNCHANGED m_jobs
       \/ /\ ~uploadDone
          /\ WriteJob([m_jobs[jobPtr] EXCEPT !.progress = Progress])
          /\ poller' = "check"
    /\ UNCHANGED <<pollFrame, tus, uploadDone>>

(* TusClient::cancel() and pause(), called with m_mutex held. *)
TusCancel == IF tus.phase # "post" THEN [tus EXCEPT !.status = "CANCELED"] ELSE tus

(* Mutant: pause() stops the client for good. *)
TusPauseCancels == IF tus.status = "UPLOADING" THEN [tus EXCEPT !.status = "CANCELED"] ELSE tus

TusPause == IF tus.status = "UPLOADING" THEN [tus EXCEPT !.status = "PAUSED"] ELSE tus

PollerCheck ==
    /\ Alive
    /\ poller = "check"
    /\ \/ /\ "CANCELLED" \in StatusRead
          /\ tus' = TusCancel
          /\ uploadDone' = TRUE
          /\ poller' = "done"
       \/ /\ "PAUSED" \in StatusRead
          /\ tus' = TusPause
          /\ uploadDone' = TRUE
          /\ poller' = "done"
       \/ /\ StatusRead \ {"CANCELLED", "PAUSED"} # {}
          /\ poller' = "poll"
          /\ UNCHANGED <<tus, uploadDone>>
    /\ UNCHANGED <<m_jobs, pollFrame>>

-----------------------------------------------------------------------------
(* The process is gone, or the destructor has joined the worker. *)
Ended ==
    /\ pc \in {"exited", "terminated"}
    /\ UNCHANGED vars

Api ==
    \/ Enqueue
    \/ \E j \in Ids : Pause(j) \/ Resume(j) \/ Cancel(j) \/ Retry(j)
    \/ PauseAll
    \/ ResumeAll
    \/ Destroy

Upload ==
    \/ TusUnchunked \/ TusCreate \/ TusBegin \/ TusEmpty \/ TusChunk
    \/ TusChunkFails \/ TusLoopEnds \/ TusThrows

Worker ==
    \/ WorkerLoop \/ WorkerPop \/ WorkerFind \/ WorkerCheck \/ WorkerMark
    \/ WorkerConstruct \/ WorkerCatch \/ Upload \/ WorkerJoin \/ WorkerResult

Poller == PollerProgress \/ PollerCheck

Next == Api \/ Worker \/ Poller \/ Ended

Spec == Init /\ [][Next]_vars

(* The two threads are scheduled by the operating system and no step of     *)
(* theirs waits for the application; every HTTP request is answered or      *)
(* fails.  The application owes no call.                                    *)
FairSpec == Spec /\ WF_vars(Worker) /\ WF_vars(Poller)

-----------------------------------------------------------------------------
(* What the engine keeps. *)

Held(j) == pc \in Holding /\ jobPtr = j

InQueue(j) == \E i \in DOMAIN m_queue : m_queue[i] = j

(* Every variable has its type; the vector never holds more jobs than its  *)
(* buffer; while the worker is past the test at workerLoop:222 its          *)
(* reference names a job, and the poller lives only inside upload() and the *)
(* join after it.                                                           *)
TypeOK ==
    /\ m_jobs \in Seq(Job)
    /\ capacity \in Nat /\ Len(m_jobs) <= capacity
    /\ m_queue \in Seq(Ids \cup {NoJob})
    /\ m_running \in BOOLEAN
    /\ m_paused \in BOOLEAN
    /\ pc \in Places
    /\ jobPtr \in Ids \cup {NoJob}
    /\ pc \in Holding \ {"check"} => jobPtr # NoJob
    /\ dangling \in BOOLEAN
    /\ tus \in Tus
    /\ success \in BOOLEAN
    /\ uploadDone \in BOOLEAN
    /\ poller \in {"none", "poll", "check", "done"}
    /\ poller # "none" => pc \in {"upload", "join", "terminated"} /\ jobPtr # NoJob
    /\ orphaned \subseteq Ids
    /\ calls \in Nat

(* A job reported QUEUED is in m_queue or in the worker's hand: enqueue,    *)
(* resume, retry and the automatic retry never leave a job waiting for      *)
(* nobody, however they interleave with the worker.  The one way to lose a  *)
(* job is a push_back that moves m_jobs under the worker's reference.       *)
NoForgottenJob ==
    \A j \in Ids : m_jobs[j].status = "QUEUED" =>
        \/ InQueue(j)
        \/ (pc = "find" \/ pc \in Holding) /\ jobPtr = j
        \/ j \in orphaned

(* A job reported UPLOADING is the one the worker is processing: no exit of *)
(* processJob (result, early return, handler) leaves it UPLOADING, except   *)
(* through a reference that dangled.                                        *)
UploadingIsHeld ==
    \A j \in Ids : m_jobs[j].status = "UPLOADING" =>
        \/ pc \in {"construct", "upload", "join", "result", "terminated"} /\ jobPtr = j
        \/ j \in orphaned

(* The queue found not empty without the lock is not empty under the lock,  *)
(* and the second test never sends the worker back: it is the only consumer *)
(* and no control call removes an entry.                                    *)
PopFindsEntry == pc = "pop" => m_queue # <<>>

(* The TusClient is paused or cancelled only on behalf of a pause or cancel *)
(* of the job it uploads, and a cancelled client belongs to a job that is   *)
(* still CANCELLED, as long as the poller reads through a live reference.   *)
InterruptionHasCause ==
    pc \in {"upload", "join", "result"} /\ ~dangling =>
        /\ tus.status = "PAUSED" =>
               m_jobs[jobPtr].status \in {"PAUSED", "QUEUED", "CANCELLED"}
        /\ tus.status = "CANCELED" => m_jobs[jobPtr].status = "CANCELLED"

(* A COMPLETED job shows progress 1.0: the poller is joined before the      *)
(* result is written, so no late poll overwrites it.                        *)
CompletedIsFull ==
    \A j \in Ids : m_jobs[j].status = "COMPLETED" => m_jobs[j].progress = 1

(* A step of the worker that may still overwrite CANCELLED: the two writes  *)
(* of processJob that do not look at the status first.                      *)
Overwrites(j) == Held(j) /\ pc \in {"mark", "construct"}

(* cancel() is final once the upload runs: outside the window between the   *)
(* unlocked test of the worker and the construction of its TusClient no     *)
(* step of any thread takes a job out of CANCELLED.                         *)
CancelSticks ==
    [][\A j \in Ids : m_jobs[j].status = "CANCELLED" /\ ~Overwrites(j)
                          => m_jobs'[j].status = "CANCELLED"]_vars

(* A job becomes COMPLETED only when its TusClient FINISHED, unless it was  *)
(* paused and resumed (hence QUEUED) before upload() returned.              *)
CompletedIsFinished ==
    [][\A j \in Ids :
          m_jobs[j].status # "COMPLETED" /\ m_jobs'[j].status = "COMPLETED"
             => tus.status = "FINISHED" \/ m_jobs[j].status = "QUEUED"]_vars

Waiting(j) == j \in Ids /\ m_jobs[j].status = "QUEUED"

(* A QUEUED job is taken up by the worker, unless uploads are paused, the   *)
(* engine is destroyed, the process ends or the job was orphaned.           *)
QueuedIsTaken ==
    \A j \in 1..MaxJobs :
        Waiting(j) ~> \/ ~Waiting(j)
                      \/ m_paused \/ ~m_running \/ ~Alive \/ j \in orphaned

(* The destructor's join returns: the worker leaves its loop after          *)
(* m_running is cleared, a running upload and its poller included.          *)
DestructorReturns == ~m_running ~> pc \in {"exited", "terminated"}
=============================================================================
