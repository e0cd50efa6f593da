--------------------------- MODULE ViralChatEngine ---------------------------
(***************************************************************************)
(* The chat engine of ViralEngine/core/ViralChatEngine.cpp on the          *)
(* WebSocket it drives (IXWebSocket): application threads that send, one   *)
(* application thread that connects and disconnects, and the socket's      *)
(* background thread, which connects, receives and runs the callbacks.     *)
(*                                                                         *)
(* Two flags say whether the engine is online: the engine's m_connected,   *)
(* which sendRaw tests, and the socket's _readyState, which sendText       *)
(* tests.  They are written at different moments by different threads: a   *)
(* failing send closes the socket, and runs onDisconnected, on the sending *)
(* thread.                                                                 *)
(*                                                                         *)
(* One conversation is modelled.  What a frame says is left out: a frame   *)
(* is a serial number and whether it is a chat message.                    *)
(*                                                                         *)
(* A frame handed to the socket waits in _txbuf until the operating system *)
(* has taken its last byte.  Nothing but that takes it out: a frame left   *)
(* there by a failed write goes out, once, on a later connection.  The     *)
(* control frames (ping, pong, close) that pass through _txbuf are left    *)
(* out, and so is the split of one frame over two connections.             *)
(***************************************************************************)
EXTENDS Integers, Sequences, FiniteSets

CONSTANTS
    Senders,     \* the application threads that send
    Background,  \* the thread of ix::WebSocket
    MaxFrames,   \* bound: calls of the application that send
    MaxOpens,    \* bound: handshakes that succeed
    MaxFaults,   \* bound: failures of the network or of a payload
    MaxIncoming, \* bound: chat messages received
    MaxCalls     \* bound: calls of connect and disconnect

ASSUME ChatAssumption ==
    /\ Background \notin Senders
    /\ MaxFrames   \in Nat
    /\ MaxOpens    \in Nat
    /\ MaxFaults   \in Nat
    /\ MaxIncoming \in Nat
    /\ MaxCalls    \in Nat

VARIABLES
    m_connected,
    m_offlineQueue,
    m_messages,     \* the stored messages: serial number, or Received
    thread,         \* where each thread is in a send call
    readyState,     \* _readyState of the socket; CONNECTING is never assigned
    stopping,       \* _stop of the socket
    loop,           \* where the background thread is
    control,        \* where the thread in disconnect is
    txbuf,          \* _txbuf of the socket: frames not yet written to the end
    wire,           \* history: the frames written, in order
    lost,           \* history: the frames nobody holds any more, and why
    queued,         \* history: the serial numbers ever queued, in order
    due,            \* history: what was in the queue when the connection opened
    frames, opens, faults, incoming, calls   \* how often so far

engineVars  == <<m_connected, m_offlineQueue, m_messages>>
historyVars == <<wire, lost, queued, due>>
socketVars  == <<readyState, stopping, loop, txbuf>>
countVars   == <<frames, opens, faults, incoming, calls>>
vars == <<engineVars, thread, socketVars, control, historyVars, countVars>>

Threads == Senders \cup {Background}

(* "raw": about to call sendRaw.  "send", "queue": past its test.  "write": *)
(* past the socket's own test, about to write.                              *)
Places == {"idle", "store", "raw", "send", "queue", "write"}

(* The background thread: not started; top of the loop of checkConnection; *)
(* in connectToUrl; about to run onConnected; in setUserOnline; in         *)
(* flushOfflineQueue, m_queueMutex held, or there in the write of the first *)
(* frame; back in run; in poll; in the acknowledgement of a message; left   *)
(* run, not joined.                                                         *)
Loops == {"none", "check", "handshake", "opened", "announce", "flush", "write",
          "run", "poll", "acknowledge", "exited"}

Flushing == {"flush", "write"}

(* disconnect: in close; waiting for the join; about to clear m_connected.  *)
Controls == {"idle", "close", "join", "clear"}

Frame == [n : Nat, chat : BOOLEAN]

Received == 0                   \* a stored message that came from the server
NoFrame == [n |-> 0, chat |-> FALSE]

Idle == [pc |-> "idle", frame |-> NoFrame]

At(t, place) == thread[t].pc = place

Goto(t, place) == thread' = [thread EXCEPT ![t].pc = place]

Finish(t) == thread' = [thread EXCEPT ![t] = Idle]

Init ==
    /\ m_connected = FALSE
    /\ m_offlineQueue = <<>>
    /\ m_messages = <<>>
    /\ thread = [t \in Threads |-> Idle]
    /\ readyState = "CLOSED"
    /\ stopping = FALSE
    /\ loop = "none"
    /\ control = "idle"
    /\ txbuf = <<>>
    /\ wire = <<>>
    /\ lost = {}
    /\ queued = <<>>
    /\ due = {}
    /\ frames = 0
    /\ opens = 0
    /\ faults = 0
    /\ incoming = 0
    /\ calls = 0

-----------------------------------------------------------------------------
(* The socket, as the engine uses it. *)

Fault == faults < MaxFaults /\ faults' = faults + 1

OnDisconnected == m_connected' = FALSE

(* setReadyState(CLOSED): the close callback runs onDisconnected, on the    *)
(* thread that closes, before the state is assigned.                        *)
SetClosed ==
    /\ OnDisconnected
    /\ readyState' = "CLOSED"

(* The socket is given out: the operating system takes a part of it, all   *)
(* or none included, and the rest stays in _txbuf.                          *)
WriteOut(out) ==
    \E k \in 0 .. Len(out) :
        /\ wire' = wire \o SubSeq(out, 1, k)
        /\ txbuf' = SubSeq(out, k + 1, Len(out))

(* close(): an open socket begins the closing handshake, whose frame goes   *)
(* behind what is in _txbuf; any other is left as it is.  No callback runs. *)
BeginClosing ==
    IF readyState = "OPEN"
    THEN readyState' = "CLOSING" /\ WriteOut(txbuf)
    ELSE UNCHANGED <<readyState, txbuf, wire>>

Lose(f, why) == lost' = lost \cup {[n |-> f.n, why |-> why]}

(* ix::WebSocket::sendText drops the frame: the payload is not UTF-8, and   *)
(* the socket is closed for it, or the socket is not open.                  *)
Refused(f) ==
    \/ /\ readyState # "OPEN"
       /\ Lose(f, "closed")
       /\ UNCHANGED <<readyState, txbuf, wire, faults>>
    \/ /\ Fault
       /\ Lose(f, "invalid")
       /\ BeginClosing

(* Mutant: a failed write empties _txbuf. *)
WriteClears(f) ==
    \/ /\ readyState # "CLOSED"
       /\ WriteOut(Append(txbuf, f))
       /\ UNCHANGED <<readyState, m_connected, faults>>
    \/ /\ readyState # "CLOSED"
       /\ Fault
       /\ txbuf' = <<>>
       /\ UNCHANGED wire
       /\ SetClosed
    \/ /\ readyState = "CLOSED"
       /\ txbuf' = <<>>
       /\ UNCHANGED <<readyState, wire, m_connected, faults>>

(* Appended to _txbuf, then sendOnSocket: the operating system takes what   *)
(* it can, or reports an error, also after a part of it.  The frame stays   *)
(* in _txbuf then, and the socket is closed unless it is closing.  It may   *)
(* have been closed since it was tested: the write fails.                   *)
SocketWrite(f) ==
    \/ /\ readyState # "CLOSED"
       /\ WriteOut(Append(txbuf, f))
       /\ UNCHANGED <<readyState, m_connected, faults>>
    \/ /\ readyState # "CLOSED"
       /\ Fault
       /\ WriteOut(Append(txbuf, f))
       /\ txbuf' # <<>>
       /\ IF readyState = "CLOSING" THEN UNCHANGED <<readyState, m_connected>> ELSE SetClosed
    \/ /\ readyState = "CLOSED"
       /\ txbuf' = Append(txbuf, f)
       /\ UNCHANGED <<readyState, wire, m_connected, faults>>

-----------------------------------------------------------------------------
(* sendRaw, on any thread. *)

(* A call that makes a frame goes on at place. *)
MakeFrame(t, place, chat) ==
    /\ At(t, "idle")
    /\ thread' = [thread EXCEPT ![t] =
                      [pc |-> place, frame |-> [n |-> frames + 1, chat |-> chat]]]
    /\ frames' = frames + 1

(* Mutant: the frame is sent without a look at m_connected. *)
TestSkipped(t) ==
    /\ At(t, "raw")
    /\ Goto(t, "send")
    /\ UNCHANGED <<engineVars, socketVars, control, historyVars, countVars>>

TestConnected(t) ==
    /\ At(t, "raw")
    /\ Goto(t, IF m_connected THEN "send" ELSE "queue")
    /\ UNCHANGED <<engineVars, socketVars, control, historyVars, countVars>>

(* sendText up to the write: it goes on if the socket is open. *)
SendConnected(t) ==
    /\ At(t, "send")
    /\ \/ /\ readyState = "OPEN"
          /\ Goto(t, "write")
          /\ UNCHANGED <<readyState, txbuf, wire, lost, faults>>
       \/ /\ Refused(thread[t].frame)
          /\ Finish(t)
    /\ UNCHANGED <<engineVars, stopping, loop, control, queued, due, frames, opens,
                   incoming, calls>>

(* A write that waits while connectToUrl holds _socketMutex is one that     *)
(* comes before the handshake or after it.                                  *)
SendWrite(t) ==
    /\ At(t, "write")
    /\ SocketWrite(thread[t].frame)
    /\ Finish(t)
    /\ UNCHANGED <<m_offlineQueue, m_messages, stopping, loop, control, lost, queued, due,
                   frames, opens, incoming, calls>>

PushOffline(t) ==
    /\ At(t, "queue")
    /\ loop \notin Flushing
    /\ m_offlineQueue' = Append(m_offlineQueue, thread[t].frame)
    /\ queued' = Append(queued, thread[t].frame.n)
    /\ Finish(t)
    /\ UNCHANGED <<m_connected, m_messages, socketVars, control, wire, lost, due, countVars>>

(* The engine is deleted only after its last call, so the threads send at   *)
(* any time, connected or not.                                              *)
CallSend == frames < MaxFrames

(* sendText, sendMedia and sendLike: a message with a new id. *)
SendMessage(s) ==
    /\ CallSend
    /\ MakeFrame(s, "store", TRUE)
    /\ UNCHANGED <<engineVars, socketVars, control, historyVars, opens, faults, incoming,
                   calls>>

StoreMessage(s) ==
    /\ At(s, "store")
    /\ m_messages' = Append(m_messages, thread[s].frame.n)
    /\ Goto(s, "raw")
    /\ UNCHANGED <<m_connected, m_offlineQueue, socketVars, control, historyVars,
                   countVars>>

(* markRead, sendTypingStart, sendTypingStop and setUserOnline. *)
SendSignal(s) ==
    /\ CallSend
    /\ MakeFrame(s, "raw", FALSE)
    /\ UNCHANGED <<engineVars, socketVars, control, historyVars, opens, faults, incoming,
                   calls>>

-----------------------------------------------------------------------------
(* The background thread: ix::WebSocket::run and the callbacks it runs. *)

Turn(from, to) ==
    /\ loop = from
    /\ At(Background, "idle")
    /\ loop' = to

(* A frame the background thread itself sends. *)
BackgroundSends == MakeFrame(Background, "raw", FALSE)

(* Mutant: an attempt to connect is a state of the socket. *)
CheckConnecting ==
    /\ Turn("check", IF readyState # "CLOSED" \/ stopping THEN "run" ELSE "handshake")
    /\ readyState' = IF readyState # "CLOSED" \/ stopping THEN readyState ELSE "CONNECTING"
    /\ UNCHANGED <<engineVars, thread, stopping, txbuf, control, historyVars, countVars>>

(* The top of checkConnection's loop: leave it, or connect.  The sleep      *)
(* before a retry ends by its time or by stop.                              *)
CheckConnection ==
    /\ Turn("check", IF readyState # "CLOSED" \/ stopping THEN "run" ELSE "handshake")
    /\ UNCHANGED <<engineVars, thread, readyState, stopping, txbuf, control, historyVars, countVars>>

HandshakeSucceeds ==
    /\ Turn("handshake", "opened")
    /\ opens < MaxOpens
    /\ opens' = opens + 1
    /\ readyState' = "OPEN"
    /\ due' = {m_offlineQueue[i].n : i \in DOMAIN m_offlineQueue}
    /\ UNCHANGED <<engineVars, thread, stopping, txbuf, control, wire, lost, queued, frames,
                   faults, incoming, calls>>

(* The Error callback runs onDisconnected. *)
HandshakeFails ==
    /\ Turn("handshake", "check")
    /\ OnDisconnected
    /\ UNCHANGED <<m_offlineQueue, m_messages, thread, readyState, stopping, txbuf, control,
                   historyVars, countVars>>

(* Mutant: the queue is not flushed. *)
OnConnectedNoFlush ==
    /\ Turn("opened", "check")
    /\ m_connected' = TRUE
    /\ BackgroundSends
    /\ UNCHANGED <<m_offlineQueue, m_messages, readyState, stopping, txbuf, control,
                   historyVars, opens, faults, incoming, calls>>

(* onConnected up to the presence frame it sends through sendRaw. *)
OnConnected ==
    /\ Turn("opened", "announce")
    /\ m_connected' = TRUE
    /\ BackgroundSends
    /\ UNCHANGED <<m_offlineQueue, m_messages, readyState, stopping, txbuf, control,
                   historyVars, opens, faults, incoming, calls>>

FlushLock ==
    /\ Turn("announce", "flush")
    /\ UNCHANGED <<engineVars, thread, readyState, stopping, txbuf, control, historyVars, countVars>>

(* Mutant: the last frame queued is sent first. *)
FlushLast ==
    /\ loop = "write"
    /\ loop' = "flush"
    /\ SocketWrite(m_offlineQueue[Len(m_offlineQueue)])
    /\ m_offlineQueue' = SubSeq(m_offlineQueue, 1, Len(m_offlineQueue) - 1)
    /\ UNCHANGED <<m_messages, thread, stopping, control, lost, queued, due, frames, opens,
                   incoming, calls>>

(* Mutant: a frame the socket did not take is kept for another try. *)
FlushRetry ==
    /\ loop = "flush"
    /\ m_offlineQueue # <<>>
    /\ loop' = IF readyState = "OPEN" THEN "write" ELSE "flush"
    /\ UNCHANGED <<engineVars, thread, readyState, stopping, txbuf, control, historyVars,
                   countVars>>

(* One round of the loop, up to the write: the frame is popped also when    *)
(* sendText drops it.                                                       *)
FlushOne ==
    /\ loop = "flush"
    /\ m_offlineQueue # <<>>
    /\ \/ /\ readyState = "OPEN"
          /\ loop' = "write"
          /\ UNCHANGED <<m_offlineQueue, readyState, txbuf, wire, lost, faults>>
       \/ /\ Refused(Head(m_offlineQueue))
          /\ m_offlineQueue' = Tail(m_offlineQueue)
          /\ loop' = "flush"
    /\ UNCHANGED <<m_connected, m_messages, thread, stopping, control, queued, due, frames,
                   opens, incoming, calls>>

(* front() of the queue, which only this thread takes from. *)
FlushWrite ==
    /\ loop = "write"
    /\ m_offlineQueue # <<>>
    /\ loop' = "flush"
    /\ SocketWrite(Head(m_offlineQueue))
    /\ m_offlineQueue' = Tail(m_offlineQueue)
    /\ UNCHANGED <<m_messages, thread, stopping, control, lost, queued, due, frames, opens,
                   incoming, calls>>

FlushDone ==
    /\ m_offlineQueue = <<>>
    /\ Turn("flush", "check")
    /\ UNCHANGED <<engineVars, thread, readyState, stopping, txbuf, control, historyVars, countVars>>

(* Mutant: run does not look at _stop. *)
RunOn ==
    /\ Turn("run", IF readyState = "CLOSED" THEN "check" ELSE "poll")
    /\ UNCHANGED <<engineVars, thread, readyState, stopping, txbuf, control, historyVars, countVars>>

(* After checkConnection: a closed socket ends the thread, and so does a    *)
(* stop of a socket that is not closing.                                    *)
RunTests ==
    /\ Turn("run", IF readyState = "CLOSED" \/ (stopping /\ readyState # "CLOSING")
                   THEN "exited" ELSE "poll")
    /\ UNCHANGED <<engineVars, thread, readyState, stopping, txbuf, control, historyVars, countVars>>

(* poll and dispatch with nothing to report, or a ping, typing, presence    *)
(* or status frame, which only run callbacks of the application.  A request *)
(* of a writer, a heartbeat and the answer to a ping write out _txbuf.      *)
PollQuiet ==
    /\ Turn("poll", "check")
    /\ IF readyState = "CLOSED" THEN UNCHANGED <<txbuf, wire>> ELSE WriteOut(txbuf)
    /\ UNCHANGED <<engineVars, thread, readyState, stopping, control, lost, queued, due,
                   countVars>>

(* A chat message: stored, reported, acknowledged through sendRaw. *)
PollMessage ==
    /\ Turn("poll", "acknowledge")
    /\ readyState # "CLOSED"
    /\ incoming < MaxIncoming
    /\ incoming' = incoming + 1
    /\ m_messages' = Append(m_messages, Received)
    /\ BackgroundSends
    /\ UNCHANGED <<m_connected, m_offlineQueue, readyState, stopping, txbuf, control,
                   historyVars, opens, faults, calls>>

Acknowledged ==
    /\ Turn("acknowledge", "check")
    /\ UNCHANGED <<engineVars, thread, readyState, stopping, txbuf, control, historyVars, countVars>>

(* A close frame, whose answer goes behind what is in _txbuf, or an error   *)
(* of the socket, which may come after a part was written.                  *)
PollDropped ==
    /\ Turn("poll", "check")
    /\ readyState # "CLOSED"
    /\ Fault
    /\ WriteOut(txbuf)
    /\ SetClosed
    /\ UNCHANGED <<m_offlineQueue, m_messages, thread, stopping, control, lost, queued, due,
                   frames, opens, incoming, calls>>

(* The ping was not answered in time: close() begins the closing handshake. *)
PollPingTimeout ==
    /\ Turn("poll", "check")
    /\ readyState = "OPEN"
    /\ Fault
    /\ BeginClosing
    /\ UNCHANGED <<engineVars, thread, stopping, control, lost, queued, due, frames, opens,
                   incoming, calls>>

(* The closing handshake is answered or has taken too long. *)
PollClosed ==
    /\ Turn("poll", "check")
    /\ readyState = "CLOSING"
    /\ SetClosed
    /\ UNCHANGED <<m_offlineQueue, m_messages, thread, stopping, txbuf, control, historyVars,
                   countVars>>

-----------------------------------------------------------------------------
(* connect and disconnect, on one application thread. *)

ControlCall ==
    /\ control = "idle"
    /\ calls < MaxCalls
    /\ calls' = calls + 1

(* start() does nothing while there is a thread to join, running or not;    *)
(* such a call of connect replaces the address and the token only.          *)
StartThread ==
    /\ loop = "none"
    /\ loop' = "check"

Connect ==
    /\ ControlCall
    /\ StartThread
    /\ UNCHANGED <<engineVars, thread, readyState, stopping, txbuf, control, historyVars, frames,
                   opens, faults, incoming>>

(* disconnect calls stop, which begins with close. *)
Disconnect ==
    /\ ControlCall
    /\ control' = "close"
    /\ BeginClosing
    /\ UNCHANGED <<engineVars, thread, stopping, loop, lost, queued, due, frames, opens,
                   faults, incoming>>

(* close() waits for _socketMutex, which connectToUrl holds; stop then asks *)
(* a thread there is to stop.                                               *)
StopThread ==
    /\ control = "close"
    /\ loop # "handshake"
    /\ stopping' = (loop # "none")
    /\ control' = IF loop # "none" THEN "join" ELSE "clear"
    /\ UNCHANGED <<engineVars, thread, readyState, loop, txbuf, historyVars, countVars>>

JoinThread ==
    /\ control = "join"
    /\ loop = "exited"
    /\ loop' = "none"
    /\ stopping' = FALSE
    /\ control' = "clear"
    /\ UNCHANGED <<engineVars, thread, readyState, txbuf, historyVars, countVars>>

(* Mutant: m_connected is left to the close callback. *)
ClearSkipped ==
    /\ control = "clear"
    /\ control' = "idle"
    /\ UNCHANGED <<engineVars, thread, socketVars, historyVars, countVars>>

ClearConnected ==
    /\ control = "clear"
    /\ control' = "idle"
    /\ m_connected' = FALSE
    /\ UNCHANGED <<m_offlineQueue, m_messages, thread, socketVars, historyVars, countVars>>

-----------------------------------------------------------------------------

SendRaw(t) == TestConnected(t) \/ SendConnected(t) \/ SendWrite(t) \/ PushOffline(t)

Sending(s) ==
    \/ StoreMessage(s)
    \/ SendRaw(s)

(* What the background thread does by itself. *)
Run ==
    \/ CheckConnection
    \/ HandshakeFails
    \/ OnConnected
    \/ FlushLock
    \/ FlushOne
    \/ FlushWrite
    \/ FlushDone
    \/ RunTests
    \/ PollQuiet
    \/ Acknowledged
    \/ SendRaw(Background)

Controlling == StopThread \/ JoinThread \/ ClearConnected

(* The engine at rest: no thread of its own and no call under way. *)
Quiet ==
    /\ loop \in {"none", "exited"}
    /\ control = "idle"
    /\ \A t \in Threads : At(t, "idle")
    /\ UNCHANGED vars

Next ==
    \/ \E s \in Senders : SendMessage(s) \/ SendSignal(s) \/ Sending(s)
    \/ Run
    \/ HandshakeSucceeds
    \/ PollMessage
    \/ PollDropped
    \/ PollPingTimeout
    \/ PollClosed
    \/ Connect
    \/ Disconnect
    \/ Controlling
    \/ Quiet

Spec == Init /\ [][Next]_vars

(* Every thread the scheduler runs goes on.  A closing handshake has a time *)
(* limit that some later poll finds exceeded.  Between two handshakes the   *)
(* background thread sleeps at least a second, so close() gets the mutex.   *)
(* Nobody has to call, and the network owes nothing.                        *)
FairSpec ==
    /\ Spec
    /\ \A s \in Senders : WF_vars(Sending(s))
    /\ WF_vars(Run)
    /\ SF_vars(PollClosed)
    /\ SF_vars(StopThread)
    /\ WF_vars(Controlling)

-----------------------------------------------------------------------------
(* Properties *)

TypeOK ==
    /\ m_connected \in BOOLEAN
    /\ m_offlineQueue \in Seq(Frame)
    /\ m_messages \in Seq(Nat)
    /\ thread \in [Threads -> [pc : Places, frame : Frame]]
    /\ readyState \in {"OPEN", "CLOSING", "CLOSED"}
    /\ stopping \in BOOLEAN
    /\ loop \in Loops
    /\ control \in Controls
    /\ txbuf \in Seq(Frame)
    /\ wire \in Seq(Frame)
    /\ lost \subseteq [n : Nat, why : {"closed", "invalid"}]
    /\ queued \in Seq(Nat)
    /\ due \subseteq Nat
    /\ frames \in Nat /\ opens \in Nat /\ faults \in Nat /\ incoming \in Nat /\ calls \in Nat

Holders(n)      == {t \in Threads : thread[t].frame.n = n}
Positions(s, n) == {i \in DOMAIN s : s[i].n = n}

(* What was handed to the socket: written, and behind it what is in _txbuf. *)
Handed == wire \o txbuf

(* Every frame a call made is in one place only: with the thread that sends *)
(* it, in m_offlineQueue, in _txbuf, on the wire or dropped.  In particular *)
(* a frame that a failed write left in _txbuf, to go out on the next        *)
(* connection, is not sent again from elsewhere, and _txbuf forgets none,   *)
(* whatever sends, flushes, faults and reconnections run at once.           *)
InOnePlace ==
    \A n \in 1 .. frames :
        Cardinality(Holders(n)) + Cardinality(Positions(m_offlineQueue, n))
          + Cardinality(Positions(Handed, n)) + Cardinality({l \in lost : l.n = n}) = 1

(* flushOfflineQueue keeps the order of the queue: of two frames that were  *)
(* queued and handed to the socket, the one queued first goes out first,    *)
(* also when _txbuf carries them over to another connection.                *)
QueueOrderKept ==
    \A a, b \in DOMAIN queued : a < b =>
        \A i, j \in DOMAIN Handed :
            Handed[i].n = queued[a] /\ Handed[j].n = queued[b] => i < j

(* The connection was broken, now or earlier: a fault, or a second call of  *)
(* connect or disconnect, which is a disconnect of a session that was       *)
(* started.                                                                 *)
Broken == faults > 0 \/ calls > 1

Outbox == INSTANCE ChatOutbox WITH
    Reasons <- {"closed", "invalid"},
    holding <- [t \in Threads |-> thread[t].frame],
    queue   <- m_offlineQueue,
    buffer  <- txbuf,
    sent    <- wire,
    made    <- frames,
    broken  <- Broken

(* The engine implements ChatOutbox: whatever threads, callbacks and        *)
(* reconnections run at once, each call's frame is handed to the socket,    *)
(* queued or dropped once, the queue is emptied from its front, the socket  *)
(* writes what it was handed in order and forgets none of it, and no frame  *)
(* is dropped before the connection is broken for the first time.           *)
ImplementsOutbox == Outbox!OutboxSpec

(* Once disconnect has returned, the engine reports offline until the next  *)
(* connect: no late callback turns m_connected on again.                    *)
OfflineAfterDisconnect ==
    control = "idle" /\ loop = "none" => ~m_connected

(* Every send call returns: the flush lets m_queueMutex go. *)
SendReturns ==
    \A s \in Senders : ~At(s, "idle") ~> At(s, "idle")

(* Every disconnect returns: the background thread it joins ends, wherever  *)
(* stop met it.                                                             *)
DisconnectReturns ==
    control # "idle" ~> control = "idle"

(* What was queued when the connection opened has left the queue by the     *)
(* time the background thread is back from the callback, before it polls    *)
(* for the first time: onConnected ends with the flush, and the flush with  *)
(* an empty queue, also when the connection is lost in between.             *)
FlushedOnOpen ==
    loop \notin {"opened", "announce"} \cup Flushing =>
        \A n \in due : Positions(m_offlineQueue, n) = {}
====
