# Verification of ViralEngine

TLA+ models, TLC runs and TLAPS proofs for the engines under `src/ViralEngine/`:
the C/C++ core of a short-video application (video feed, background upload, chat,
local storage) and its bridges to Kotlin and Objective-C.  The rest of the repository
is third-party code the engines are built on (ijkplayer, ctus, IXWebSocket) or
applications kept for reference; of it only what the engines call is modelled.

## The system

| component | state | operations | hard part |
|---|---|---|---|
| upload engine `core/ViralUploadEngine.cpp` | `m_jobs` (vector), `m_queue` (ids), `m_running`, `m_paused`, one worker thread, one progress poller per upload | enqueue, pause, resume, cancel, retry, pauseAll, resumeAll, destructor; worker loop, processJob, poller | three kinds of threads over one vector; tests outside the lock; a reference held across an upload; exceptions |
| resumable upload client `ctus` `TusClient.cpp`, `HttpClient.cpp` | status, location, offset | upload, chunk loop, pause, cancel, stop | a status stored by two threads; `true` returned for an interrupted upload |
| video feed `core/ViralEngine.c` | URL list, ring of 5 slots (player, state, feed index), current index | set_urls, scroll_to, play, pause, mute, loop, seek, getters, destroy; one message loop thread per player | the loops share slots and index with scroll_to without its lock and outlive slots and feed |
| media player `ijkplayer.c` | state, message queue, reference count | create, prepare, start, pause, stop, shutdown, get_msg; read thread | asynchronous requests carried out by the message loop |
| playback pipeline `ff_ffplay.c` | packet queue, frame ring, pause/buffering/step flags, seek request, serial numbers | threads `ff_read`, `ff_video_dec`, `ff_vout`; start, pause, seek, loop, stop | a seek is noticed by each thread through serial numbers, with no common lock; three threads change the pause; joins of threads in condition waits |
| chat engine `core/ViralChatEngine.cpp` | `m_connected`, offline queue, message store | connect, disconnect, send*, markRead; socket callbacks | sends racing with connect and flush; two flags for "online" |
| WebSocket `IXWebSocket.cpp`, `IXWebSocketTransport.cpp` | ready state, `_stop`, send buffer `_txbuf`, one background thread | start, stop, close, sendText; connect, poll, dispatch | the socket is closed by whichever thread meets the error; what it could not write stays in `_txbuf` |
| storage engine `core/ViralStorageEngine.cpp` | SQLite tables, cache limit | save/get/update, LRU disk cache with eviction, clearAll | transactions on one shared connection; eviction loop; 32-bit limit |
| SDK facade `bridge/ios/ViralSDK_iOS.m` | the four engines | start, stop, logout | order of shutdown |
| bridges `bridge/android`, `bridge/ios` | handles | forwarding | none of their own |

The feed calls ijkplayer and is called back by its message loops; the upload engine
calls TusClient from the worker and the poller; the chat engine calls the WebSocket from
any thread and is called back by its background thread, or by a sender whose write
failed; the SDK creates all engines and hands
chat messages to storage.  The engines share no other state.

What makes the parts correct: no queued job is forgotten, results are attributed to the
upload they belong to, cancel and pause hold, the destructor returns (upload); the current
video is loaded and starts, nothing else plays, players that leave the pool are stopped
(feed); after a seek at most one old frame is shown, the frame on screen is not overwritten,
completion follows the last packet, buffering and shutdown end (playback); a message sent
while offline is sent once and in order after reconnecting (chat); the cache stays within
its limit and eviction ends, a batch is saved as a whole (storage).

## Modules

| module | models |
|---|---|
| `ViralUploadEngine` | upload engine and the TusClient it drives; properties |
| `ViralUploadEngineProofs` | TLAPS proofs about it |
| `MsgQueue`, `MsgQueueProofs` | `msg_queue_remove`, which both views of a player use; what it returns |
| `IjkMediaPlayer` | one player as a value, an operator per `ijkmp_` function |
| `ViralFeed` | feed, its message loops and the players' read threads; properties |
| `ViralFeedProofs` | TLAPS proofs about it |
| `FFPlay` | the threads of one playing video inside ijkplayer; properties |
| `FFPlayProofs` | TLAPS proofs about it |
| `ChatOutbox` | what the chat engine promises about frames, without sockets and callbacks |
| `ViralChatEngine` | chat engine and the WebSocket it drives; properties; the mapping to `ChatOutbox` |
| `ViralChatEngineProofs`, `ViralChatOutboxProofs` | TLAPS proofs about it |
| `ViralStorageEngine` | the calls of the storage engine, statement by statement; properties |
| `ViralStorageEngineProofs`, `ViralStorageCallsProofs` | TLAPS proofs about it |
| `MCViralUploadEngine`, `MCViralFeed`, `MCFFPlay`, `MCViralChatEngine`, `MCViralStorageEngine` | instances for TLC |
| `MCViralUploadClaims`, `MCViralFeedClaims`, `MCViralChatClaims`, `MCFFPlayClaims` | what docs and comments say and the code does not do |

`ViralFeed` composes the feed, its message loops and any number of players
(`IjkMediaPlayer`); `FFPlay` looks inside one of those players; `ViralChatEngine`
composes the engine and its socket and implements `ChatOutbox`.

### ViralUploadEngine

The variables have the names of the members and locals they stand for.  A job is its
position in `m_jobs`: ids are random 48-bit strings and taken to be distinct, nothing is
ever removed.  Each critical section of `m_mutex` is one action, everything between two
of them another: `WorkerLoop`, `WorkerPop`, `WorkerFind`, `WorkerCheck`
(`workerLoop`), `WorkerMark`, `WorkerConstruct`, `WorkerCatch`, `WorkerJoin`,
`WorkerResult` (`processJob`), `PollerProgress`, `PollerCheck` (the lambda).

- *References.* `processJob` holds a reference into `m_jobs` for the whole upload.
  `capacity` is the vector's buffer; a `push_back` that outgrows it makes the reference
  `dangling`: reads through it return any status, writes are lost.  (Real memory could
  also be reused by another object; the model keeps the damage to the job.)  `orphaned`
  records the jobs it happened to, so that the properties can name the exception.
- *TusClient.* `upload()` is a sequence of requests: POST, HEAD, one PATCH per chunk, each
  answered, failed or throwing.  A PATCH and its callback are one step.  That is enough:
  `HttpClient::execute` runs request and callback under its queue mutex, `pause()` and
  `cancel()` wait for that mutex in `abortAll` while they hold `m_mutex`, so a request in
  flight ends before any other control call; and its outcome after the status was stored
  equals the outcome before it.  The answer of the server is free; the vendored
  `FileChunker` in its present form restricts the outcomes further (it throws for
  non-empty files), which the model does not rely on.
- *Exceptions.* One that leaves `upload()` destroys the joinable poller: `TusThrows` is
  `std::terminate`.  One of the constructor reaches the handler: `WorkerCatch`.
- *Polling.* Reading `uploadDone`, `progress()` and storing the progress are one step; the
  poller is the only reader and the join follows.
- *Left out.* Callbacks (they are the application's; a callback that calls the engine
  would block on `m_mutex`), the getters, the auth token, file names and metadata.

### IjkMediaPlayer and ViralFeed

A player is a record (state, queue of messages, aborted, reference count, what its read
thread has left to say).  `GetMsg` is `ijkmp_get_msg` on the first message, one step
under the player's mutex.  Only notifications of STARTED are queued: others are looked at
by the loop only through `ijkmp_is_playing`, which is false by then.  `FileOpens`,
`FileResumes`, `FileFails`, `FileEnds` are the read thread.

A loop that finds its queue empty sleeps (`Sleep`), and both `msg_queue_put` and
`msg_queue_abort` wake one sleeper (`Signal`), because `SDL_CondSignal` does; `asleep` and
`woken` count them.  A loop reads its player from the slot when it starts, so that one
that starts late, after the slot was recycled, waits on the queue of the *next* player,
beside that player's own loop.  `Release` aborts the queue twice, in `ijkmp_stop` and in
`ijkmp_shutdown`, and once when the player is in the state ERROR, where `ijkmp_stop`
returns early.

`FileResumes` is the start request the read thread posts by itself once it has waited for
the first start (`ff_ffplay.c:3341`).  The constant `AsksAgain` names the players that do
it, all in the code: in `feed_live` the first one, in `feed`, which would not end in time
with it, none.  The theorems are for any.

`scroll_to` is four actions, because the loops run between its parts: `ScrollTo` (store
the index, pause the previous), `ScrollCurrent`, `ScrollPreload` (one video per step),
`ScrollRelease`.  The loop is `LoopStart`, `LoopGet` and one action per store or test of a
handler.  `Control` stands for the calls on the current slot.  Calls come from one thread,
as the bridges make them.  Memory is sequentially consistent: the handshake between
`current_index` and the slot state uses plain fields in the code, and on weakly ordered
hardware both sides may miss each other.

`LoopArgument` says what the loop function receives.  ijkplayer passes the player
(`ijkplayer.c:382`), the feed expects the structure it put into `weak_thiz`; as the code
stands every loop works on memory it does not own from its first instruction (`LoopStart`;
`ViralEngine.c:149` says "Pass msg loop arg via weak_thiz hack"), and run
`feed_PlaysAtIndex`, with the argument the code passes, shows that no video starts.  The
passing runs use `"weak_thiz"`, the intended argument, to find out what the rest of the
design does; `CurrentStarts` says so in its premise.  The theorems hold for both.

`CurrentStarts` is about a player that has not played yet.  A video the user left while it
played and comes back to is *not* started by `scroll_to` (PAUSED is never stored): no
passing property claims that it is, and `PlaysAtIndex` is violated by that, too.
`LoopsEnd` is about every loop whose player was released or whose feed was destroyed, as
long as no more loops share the queue than the release signals (`Outnumbered`).  A loop
that meets the freed feed counts as ended, since nothing can be said of what it does.

History variables: `visited`, `userPaused`, `tainted` (the loop of an earlier player
wrote the slot's state), `outOfBounds` (a call before the first scroll_to used
`pool[-1]`; nothing is said of the feed after that).  Left out: buffering events, surface,
volume, seek position, the callbacks.

### FFPlay

One file with one video stream, decoded in software, from `stream_open` to the last join
of `stream_close`.  `read`, `dec` and `vout` are the places of `ff_read`
(`read_thread`), `ff_video_dec` (`ffplay_video_thread`, `decoder_decode_frame`,
`queue_picture`) and `ff_vout` (`video_refresh_thread`, `video_refresh`); `app` is the
thread that stops and shuts down.  `videoq`, `pictq`, `play` and `seek` hold the fields of
`VideoState` they are named after.

- *Steps.* A section under a mutex is one step, and so is what touches one thread's data
  only.  `SDL_CondWait` is a place (`"waiting"`, `"full"`) that a signal leaves, so a lost
  wake-up would show; the waits with a time limit are steps that may be taken at any time.
  Serial numbers are read without a lock, at the step of the test.  The two sections at
  the end of a seek (`:3421` and `:3449`) are one step: buffering was turned on at the
  beginning of the seek, and where it was turned off since the second section turns it on
  again.  The three parts of a completion are one step, the last of which decides.
- *Requests.* `ijkmp_start`, `ijkmp_pause` and `ijkmp_seek_to` replace a waiting request of
  their kind and append to `msgs`; `GetStart`, `GetStartFrom`, `GetPause`, `GetSeek` and
  `GetCompleted` are the cases of `ijkmp_get_msg`, each under the player's mutex.
  `viral_feed_set_loop` acts at once.  A queue that was aborted is empty.
- *Data.* A packet is its kind and serial number; `epoch` is a history of the seek it was
  really read after, which the serial number is supposed to tell.  The codec keeps back
  `CodecDelay` frames until it drains.  Time is left out: a frame may be due at any moment
  after it is looked at.  Enough packets by bytes or by duration is a free choice of
  `CheckBuffering`, within the limits by number; that the packets exceed `max_buffer_size`
  is a free choice of `ReadLimit` whenever there are any (`MayBeFull`).
- *Stop while opening.* `OpenStream` does not look at `abort_request`: a stop that comes
  after the last interruptible read finds the streams opened, and `packet_queue_start`
  takes back the abort of the packet queue.  `JoinDecoder` (`decoder_abort`) aborts it
  again.
- *Left out.* Audio and subtitles (their queues have the same code), the clocks and
  synchronisation, accurate seek, the frame grabber, the hardware decoders of Android and
  iOS (each has a decoding thread of its own), statistics and notifications nobody in the
  engines listens to.

`SeekShows` leaves one case out: a frame that `ff_vout` took before the seek and shows
after it uses up the step of a paused video, and the video stays on that old frame.  The
code has this race; it needs a pause, a seek and a frame due within one refresh.
`CompletedAtEnd` leaves the frame at `rindex` out: it counts as shown once `ff_vout` has
taken it over, and its display may still be to come when FFP_MSG_COMPLETED is posted (the
code's own comment at `ff_ffplay.c:3504` calls that "a bit early").

### ViralStorageEngine

All calls share one SQLite connection, which runs one statement at a time and has one
transaction.  A call is the list of statements it still has to run; `Execute` runs the first
one, `Fail` lets it fail (no result is looked at), `EvictTest` and `EvictOldest` are the
loop of `evictIfNeeded`, `EvictFails` and `MeasureFails` its failures. `getCacheSizeBytes`
returns 0 when its query cannot be prepared or stepped: the eviction is given up over the
limit, and `lapsed` records it, as it records a crash or a rollback that took an eviction
back, until an eviction ends within the limit.  `db` is what the connection sees, `disk`
what the last commit left; `Crash` kills the process, `SetClock` sets the clock, also back.
A BEGIN inside a transaction and a COMMIT outside one fail, as SQLite has it; a statement
that fails may take the transaction with it (`Rollback`, external).  A COMMIT that fails for
lack of space or an I/O error ends its transaction; one refused with SQLITE_BUSY would leave
it open, but that needs a second connection to the file, and the engine has one: it is left
out.  The limit is computed in an `int` (`IntRange`).  Of a row the model keeps what some
call updates.  The getters other than `getCachedPath` are left out; files are: evicting a
row deletes no file.

### ChatOutbox

Frames are taken by a thread and then handed to the socket, queued or dropped; queued
frames leave from the front.  What the socket was handed it writes in order, and what it
could not write it keeps, over the end of a connection, too.  A frame is dropped only once
the connection was broken.  The mapping in `ViralChatEngine` takes `holding` from the
threads' frames, `queue` from `m_offlineQueue`, `buffer` from `txbuf`, `sent` and `lost`
from the histories, and `broken` from the counters of faults and calls: a second call of
connect or disconnect is a disconnect of a started session.

### ViralChatEngine

Two flags say "online": the engine's `m_connected`, tested by `sendRaw`, and the socket's
`readyState`, tested by `ix::WebSocket::sendText`.  The model is about the time between
their changes.

- *Threads.* Each thread of `Senders` is at a place of a send call: storing the message,
  before `sendRaw`, past its test (`TestConnected`) on one branch or the other
  (`SendConnected`, `PushOffline`).  The background thread goes through the same places
  for the frames it sends itself, and `loop` is its place in `run`, `checkConnection` and
  `onConnected`.  `control` is the thread that calls connect and disconnect; these two are
  not called concurrently with each other.
- *Mutexes.* `m_queueMutex` is held exactly at `loop \in Flushing` and inside
  `PushOffline`; `_socketMutex`, which `close()` needs, during a handshake (`StopThread`).
- *Sending.* A send is two steps: the socket's tests (`SendConnected`, `FlushOne`), which
  drop the frame when the payload is not UTF-8 (and begin to close) or the socket is not
  open (`Refused`), and the write (`SendWrite`, `FlushWrite`), which may meet a socket that
  was closed in between.
- *`_txbuf`.* A frame is appended to `_txbuf`, and the operating system takes any number of
  frames from its front (`WriteOut`), or reports an error, which closes the socket and runs
  `onDisconnected` on the writing thread (`SocketWrite`).  Nothing clears `_txbuf`: a frame
  that a failed write left there is not lost and goes out on the next connection, at the
  next write or poll.  The control frames that pass through it are left out, and so is a
  frame split over two connections: a frame counts as written with its last byte.
- *Callbacks.* `setReadyState(CLOSED)` runs the callback and stores the state in one step,
  under `_setReadyStateMutex`.  Whether bytes the operating system took reach the server is
  outside the model.
- *Histories.* `wire`, `lost` (with the reason), `queued`, and `due`: what was in the queue
  when the connection opened.
- *Left out.* The frames' text, escaping and parsing, message ids (serial numbers here),
  status, typing and presence frames received (they run callbacks only), the address, token
  and user a second connect replaces, `getMessages` and `getConversations` (they read).
  A stored message's status is never updated: `m_messages` keeps PENDING for a message
  that was sent, though the header explains it as "in offline queue".

## Runs

| run | instance | shows |
|---|---|---|
| `upload` | 2 jobs, queue 2, 2 attempts, 2 chunks, 3 control calls | `TypeOK`, `NoForgottenJob`, `UploadingIsHeld`, `PopFindsEntry`, `InterruptionHasCause`, `CompletedIsFull`, `CancelSticks`, `CompletedIsFinished`; liveness `QueuedIsTaken`, `DestructorReturns` |
| `feed` | 3 slots, 1 preloaded, a list that grows from 1 to 3 to 4 videos, 2 players, 1 fault | `TypeOK`, `CurrentLoaded`, `DroppedIsStopped`, `OnlyVisitedPlays`, `NoMissedStart` |
| `feed_live` | 2 slots, 1 preloaded, a list that grows from 1 to 3 videos, 2 players, one of which repeats its start | `CurrentStarts`, `LoopsEnd` |
| `ffplay` | ring of 2, file of 2 packets, codec delay 1, 2 calls, 2 seeks, 1 fault | `TypeOK`, `FramesOfTheirSerial`, `ShownIsKept`, `OneStaleFrame`, `CompletedAtEnd` |
| `ffplay_live` | the same, 1 seek, no fault, no repetition | `ShutdownReturns`, `SeekShows`, `BufferingEnds` |
| `chat` | 2 senders, 2 calls that send, 2 openings, 1 fault, 3 calls of connect/disconnect | `TypeOK`, `InOnePlace`, `QueueOrderKept`, `OfflineAfterDisconnect`, `FlushedOnOpen`, `ImplementsOutbox` |
| `chat_live` | 1 sender, 2 calls that send, 1 opening, 1 fault, 1 message received, 3 calls of connect/disconnect | `SendReturns`, `DisconnectReturns` |
| `storage` | 2 threads, 3 calls, 2 videos, 2 cached files, 1 failing statement, 1 crash | `TypeOK`, `OnlySavesAtRisk`, `CacheWithinLimit`, `SavedWhole`, `ClearedWhole`, `JustCachedStays`, `CallReturns` |

Bounds.  `MaxJobs = 2` is the least with which a `push_back` moves the vector under a
running upload, `MaxCalls = 3` admits pause-resume-pause and pause-resume-cancel around one
upload, `MaxRetry = 2` one automatic retry and one failure, `Chunks = 2` an interruption
between chunks.  Three slots and one preloaded video have the proportion of the code's 5 and
2: the index released is the one whose slot the farthest preloaded video takes.  The list
grows as the user scrolls, so that two players are enough: from the only video of a short
list a jump goes to one that takes the same slot, or to one so far on that the first is
released.  In `feed_live` a slot is recycled before its first loop has started, and two
loops share a queue.  In the chat two openings and three calls admit a reconnection as well
as a restart after disconnect, and a frame that one connection left in `_txbuf` is written
on the next; the liveness run opens once, and handshakes that fail are not bounded; every
opening adds a presence frame, so that the queue holds up to four frames of three threads.
The senders are interchangeable, which the safety run uses as a symmetry. The bounded calls
do not block the threads. A ring of two frames is the smallest that keeps the frame on
screen and wraps; with two packets and a delay of one the codec holds a frame over a seek
and drains at the end; two calls are a start and a seek, or a loop setting and a start, a
video that has played to its end is the paused one that `SeekShows` seeks in, and with
repetition two seeks follow each other.  In the storage two files of 3 and 5 bytes do not
fit together under the limit of 4 and one of them does not fit at all; three calls of two
threads let two saves, or a save and an eviction, overlap with a third call.

Fairness.  `upload`: weak fairness of the worker and of the poller, which the operating
system schedules and which wait for nothing but each other; requests end (curl has a connect
timeout; a server that never answers is outside the claim).  The application owes no call.
`feed_live`: weak fairness of the rest of a started scroll_to, of each message loop, awake
or signalled, and of opening a file, which succeeds or fails.  No file has to fail or end,
and a loop nobody signals sleeps on.  `chat_live`: weak fairness of every thread inside a
call and of the background thread; strong fairness of the end of the closing handshake,
which has a time limit that a later poll finds exceeded, and of `close()` getting
`_socketMutex`, which the background thread leaves free for at least a second between two
handshakes.  No handshake has to succeed and nobody has to call.  `ffplay_live`: weak
fairness of each of the three threads and of the joins, strong fairness of a frame becoming
due, because `ff_vout` looks at it at every refresh and its time passes; reads end, as the
interrupt callback and the protocols' timeouts see to.  `storage`: weak fairness of each
thread inside a call.

Deadlock is checked everywhere: `Ended`, `Closed` and `Quiet` are the states in which the
program has nothing left to do.

### Disagreements

Each of these runs checks what a comment or document says and finds a trace of the code
that violates it.

| run | says | the code |
|---|---|---|
| `upload_CompletedOnlyIfFinished` | `ViralUploadEngine.cpp:288` "blocks until complete or error" | pause, then resume before the result is handled: COMPLETED with chunks unsent |
| `chat_AutoReconnects` | `ViralChatEngine.h:9` "Auto-reconnect on network drop" | a failed write on a sender's thread, just after `checkConnection` returned, ends the background thread; `start()` will not start another |
| `feed_PlaysAtIndex` | `README.md:21` "Plays video at index" | the loop function gets the player for its argument structure, no loop handles PREPARED, nothing starts; with the intended argument the property fails by a video that is left and revisited |
| `ffplay_PauseSticks` | `README.md:23` "Pauses the previous video" | the read thread repeats the first start; a pause called in between is undone |

Further disagreements met while modelling, not given a run: an enqueue during an upload may
move the vector, the worker's stores are lost and the job stays QUEUED, in no queue
(`ViralUploadEngine.h:141` "jobIds waiting to upload"); a failed POST or HEAD terminates the
process (`ViralUploadEngine.h:8` "Auto-retry on network failure"); a released slot keeps its
feed index and passes for preloaded (`README.md:22`); a loop that has compared its index
starts its player after the pause (`README.md:23`); cancel does not remove from the queue
and is lost between `ViralUploadEngine.cpp:222` and `:237` (the window `CancelSticks`
names); only enqueue respects `VIRAL_UPLOAD_QUEUE_MAX`; the stored progress is a percentage,
not "0.0 - 1.0"; two retries, not "3x"; a leftover queue entry restarts a paused job;
pauseAll leaves the running upload alone; feed destroy frees the feed under its loops; one
index is released, so a jump leaves players behind; every player leaks the reference
prepare_async took; a late loop that shares the queue of a player whose prepare_async
failed, or of one with two other loops, is not woken by its release and sleeps for ever
(`msg_queue_abort` signals one waiter, `ff_ffmsg_queue.h:217`; without `Outnumbered` TLC
violates `LoopsEnd` this way as soon as files may fail); set_urls keeps players of the old
list; calls before the first scroll_to use `pool[-1]`; a failing prepare_async is reported
to nobody; a video left while it played is not started when the user returns, because PAUSED
is never stored (`README.md:21` "Plays video at index"); `set_loop(false)` passes 0, which
repeats for ever (`ViralEngine.c:329`, `ff_ffplay.c:3484`); a second seek before the first
is served is dropped (`ff_ffplay.c:1172`); after a read error the null packets end the
decoder's serial, and packets read later are thrown away until the next seek; a chat message
sent while the socket is closing is dropped, though "If offline, queues it automatically"
(`ViralChatEngine.h:127`; `m_connected` is still true); a frame pushed after the flush waits
for the next reconnection ("send when back online", `ViralChatEngine.h:10`); a frame whose
write failed, for which `sendText` returned false, is sent after all on the next connection,
possibly before its presence frame, and the rest of a frame that was written in part opens
the new connection; a measurement of the cache that fails counts as 0 bytes and ends the
eviction over the limit (`ViralStorageEngine.cpp:345`); a cache limit of 2048 MB and more is
negative and `evictIfNeeded` never ends (`ViralStorageEngine.cpp:35`, `:356`;
`ViralStorageEngine.h:128`); eviction deletes rows and no files, so that the files outgrow
the limit (`ViralStorageEngine.h:70`); a status update before its message is saved is lost;
callbacks run under `m_mutex` or `m_queueMutex` in the upload and chat engines, and one that
calls back on the same thread blocks for ever (on iOS they leave through `dispatch_async`).

## Proofs

Every invariant of the passing runs and every action property is a theorem, for all values
of the constants their modules allow; the runs show them on small instances.

### Upload engine

`ViralUploadEngineProofs` proves, for every number of jobs, calls, chunks, retries and
every queue limit allowed by `UploadAssumption`:

| theorem | property |
|---|---|
| `TypeCorrect` | `TypeOK` |
| `Invariant` | `IInv`, the inductive invariant |
| `NothingForgotten`, `UploadingHeld`, `PopSafe`, `InterruptionJustified`, `CompletedFull` | the invariants of run `upload` |
| `CancelIsSticky`, `CompletedFinished` | its action properties |

`IInv` strengthens the properties by: a dangling reference belongs to an orphaned job
(`DanglingIsOrphaned`), or a lost write could not be excused; a QUEUED job is in the queue
or with the worker *before* it is marked (`QueuedIsSomewhere`; `NoForgottenJob` alone
would let the worker drop at the end of `processJob` a job that was resumed meanwhile);
a job being uploaded is not COMPLETED (`HeldIsUnfinished`), or a poll could overwrite its
progress; what the client's status can be while it sends and after it returned true
(`ClientOutcome`), from which `CompletedFinished` follows with `InterruptionHasCause`.
There is one lemma per group of actions; `ResultEffect`, `CallEffect` and `Written` say
what the result handler, a control call and a write through the reference do to the jobs.

### Chat engine

`ViralChatEngineProofs` proves, for any number of threads, frames, openings, faults and
calls, `ChatTypeCorrect` (`TypeOK`) and `OfflineStays` (`OfflineAfterDisconnect`, which is
inductive by itself: the only step that sets `m_connected` belongs to the thread that
disconnect joins before it clears the flag).  `SendTyped`, `MakeTyped` and `GotoTyped` say
what a send and a move of a thread do to the variables.

`ViralChatOutboxProofs` proves `ChatImplementsOutbox`: `ViralChatEngine` implements
`ChatOutbox`, again for all values of the constants.  The argument needs `HoldsInv` (a
thread holds a frame exactly while it is in a sending call) and `UnbrokenInv`: as long as
the connection was never broken the flag, the socket's state and the background thread
agree, so that no send meets a socket that is not open and no frame is dropped.  Every step
is then a step of `ChatOutbox` or leaves its variables alone: `OutboxStep`, with
`SocketWriteImplements` and `RefusedImplements` for the steps that use the socket and
`CountsGrow` for `broken`.

`EachInOnePlace` (`InOnePlace`) and `OrderKept` (`QueueOrderKept`) follow from `FramesInv`.
Both speak of `Handed`, what was written followed by what is in `_txbuf`: a write moves the
border between the two and leaves the whole alone (`HandedKept`, `HandedGrows`), which is
why a failed, partial or repeated write disturbs neither.  `InOnePlace` counts with
cardinalities, which no prover here computes: `PlaceInv` says the same with `Single`, "this
set is a singleton and the three others are empty", and frames move from one singleton to
another (`AppendPositions`, `TailPositions`).  `QueueOrderKept` is inductive together with
`QueueInv`: the offline queue is the end of all that was ever queued, and a frame once
queued never goes back to a thread.

`FlushedBeforePoll` (`FlushedOnOpen`) adds `DueInv`: what was in the queue at the opening
had been queued by then, so that a frame a sender pushes later, which a thread held until
now and which was never queued, is none of it.

### Storage engine

`ViralStorageEngineProofs` proves `StorageTypeCorrect`, `OnlySavesRisk` (`OnlySavesAtRisk`)
and `CacheLimited` (`CacheWithinLimit`), for any number of threads, batches, keys, failing
statements and crashes.  `StorageInv` adds to the types `CallInv`: what is left of a call
has the shape of its program (a BEGIN only in front, a COMMIT at the end, of a save and of
nothing else).  Without it an open transaction could belong to a call that will never close
it.  `CacheWithinLimit` is inductive relative to that: only the insert of a
registerCacheEntry makes the cache grow (`OnlyInsertsGrow`), and the call then measures
until a measurement succeeds within the limit, or fails and sets `lapsed`; `EmptySum` and
`OneSum` say what a cache without entries or with one adds up to.

`CacheLimited` assumes `maxCacheMB * MB < IntRange`: from 2048 MB on the product overflows
the `int` it is computed in and may be negative, and the statement is false.  The other
theorems about the storage make no such assumption.

`ViralStorageCallsProofs` proves the action properties about calls that nobody overlaps:
`SavesWhole` (`SavedWhole`), `ClearsWhole` (`ClearedWhole`), `JustCachedIsKept`
(`JustCachedStays`).  `ProgressInv` is the loop invariant of each of the three programs: the
tables differ from the disk by exactly the videos stored so far; the tables before the next
DELETE are empty; the registered entry fits, is younger than all others, and others are
left whenever something is evicted.

### Playback pipeline

`FFPlayProofs` proves `PipelineTypeCorrect`, `SerialsTrue` (`FramesOfTheirSerial`),
`WatchedIsKept` (`ShownIsKept`), `StaleOnce` (`OneStaleFrame`) and `CompletedIsOver`
(`CompletedAtEnd`), for rings, files and codec delays of any size and any number of calls,
seeks and failures.  `FFInv` consists of

- `RingInv`: the write index is the read index plus the size, modulo the ring, every slot
  between them holds a frame, and a thread about to touch a slot may (`PushKeepsRing`,
  `NextKeepsRing`);
- `PacketInv`: as long as the queue is not aborted its packets form a chain that starts at
  the decoder's serial number, in which only a flush packet raises the number, and that
  ends at the number of the queue; the demuxer is ahead only while a seek puts its flush
  packet.  The type invariant and the property alone allow a queue in which the flush of a
  seek is missing, and the decoder would then keep old frames under the new number;
- `DecoderInv`: from the flush packet of a serial number on the codec holds frames of that
  number only;
- `StaleInv`: once an old frame was shown, what `ff_vout` has taken is current.

`CompletedAtEnd` (with its exemption of the frame at `rindex`) is about one step, and what
it says of five places was decided long before it.  `EndInv`, inductive together with
`FFInv`, keeps

- `LastInv`: a null packet of the current serial number comes after the last packet of the
  file, and once the decoder has seen it no packet of data waits or comes;
- `DrainedInv`: a decoder that has finished the current serial number holds no frame;
- `Blank`: slots of the ring that hold no frame hold no serial number either (stated by the
  distance from the read index, without a modulus);
- `ReaderInv`: the demuxer has been sought as often as the queue was flushed whenever the
  reader asks whether all is over.  A shutdown that overtakes a seek breaks this for good,
  because the aborted queue refuses the flush packet; the reader then leaves before it asks.

`Steps` sorts the actions by what they change, so that most of the preservation lemmas look
at a handful of cases.

### Feed

`ViralFeedProofs` proves `FeedTypeCorrect`, `CurrentIsLoaded` (`CurrentLoaded`),
`DroppedAreStopped` (`DroppedIsStopped`), `OnlyVisitedStart` (`OnlyVisitedPlays`) and
`StartNotMissed` (`NoMissedStart`), for pools, feeds and preload counts of any size, any
number of players, with and without the repeated start.  `FeedInv` consists of the types,
`DroppedIsStopped` and

- `PoolInv`: a slot holds a player that was not released, and such a player has both
  references;
- `ScrollInv`: from the second part of `scroll_to` on the current slot holds the current
  video.  Here `PreloadCount < PoolSize` is used: a preloaded or released index never shares
  the slot of the current one;
- `LoopInv`: a loop in the handler of PREPARED has a player of its own slot that can be
  started, or was released, and past the comparison the video was visited;
- `StartInv`: no start request waits in the queue of a player whose video was not visited.
  `OnlyVisitedPlays` alone is not inductive: a request that is queued becomes a start later;
- `ReadyInv`, `PromptInv`: a READY current player can be started, and was started, is
  paused by the user, has a request in its queue, or a loop still to compare its index.
  `NoMissedStart` speaks of the states in which all loops wait, `PromptInv` of those between.

`Kept`, `Unasked` and `Asked` say what each call of a player leaves as it was; one lemma per
`ijkmp_` function.  Sleeping and signals change nothing these speak of (`SignalIs`,
`AbortIs`, `AwakeIs`).

### Assumptions and limits

The proofs assume the named assumptions on the constants (`UploadAssumption`,
`ChatAssumption`, `StorageAssumption`, `FFPlayAssumption`, `FeedAssumption`), which TLC
evaluates in the runs, and what `CacheLimited` states.  `msg_queue_remove` is a recursive
function in `MsgQueue`, and the cache's size a fold of the community modules, because the
prover does not work with RECURSIVE operators; of `Without` the proofs know only
that it returns a queue of messages (`WithoutType`, by the least counterexample) - what is
requested again is appended after it.

Only model-checked: the liveness properties (`QueuedIsTaken`, `DestructorReturns`,
`CurrentStarts`, `LoopsEnd`, `SendReturns`, `DisconnectReturns`,
`CallReturns`, `ShutdownReturns`, `SeekShows`, `BufferingEnds`), which need fairness and so
ENABLED.

## Plan

1. `Without`: that it removes exactly the messages asked for and keeps the order of the
others, by the argument of `WithoutType`. 2. An abstract specification of the feed (which
video is current, which were asked to play) that `ViralFeed` implements under the conditions
`OnlyVisitedPlays` and `NoMissedStart` name.

## Not modelled

- *SDK facade and bridges.* They create the engines, convert arguments and forward calls;
  they keep handles and decide nothing.  `logout` followed by `start` drops the previous
  engines without destroying them.
- *The rest of ijkplayer.* Audio, subtitles, hardware decoders, clocks, the platform
  layers, `ijkavformat` (protocols, a JSON parser, a cache of its own) and the JNI and
  Objective-C wrappers.  The engines reach them only through the calls modelled here, and
  the options the feed sets do not select the protocols.
- *The rest of IXWebSocket.* Framing, handshake, TLS, compression, the HTTP client and
  server, the command line tool `ws`: what the chat engine depends on is the outcome of a
  send and the order of the callbacks, and that is in `ViralChatEngine`.
- *The rest of ctus.* Cache manager, metadata and `resume()`, which the upload engine never
  calls.
- *Reference applications* (`chat-master`, `TUSKit-main`, `TikTokCloneProject-master`,
  `compose-reels-main`, `toro-dev-v3`, `tus-android-client-main`) and the build: no part of
  the program.

The vendored trees are by far the larger part of the repository, so that the models stand
for a small share of its lines and for nearly all of the engines' own.
