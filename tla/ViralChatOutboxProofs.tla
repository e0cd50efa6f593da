------------------------ MODULE ViralChatOutboxProofs ------------------------
(***************************************************************************)
(* The chat engine implements ChatOutbox, for any number of threads,       *)
(* frames, connections, faults and calls; every frame is in one place, and *)
(* queued frames reach the wire in the order of the queue.                 *)
(***************************************************************************)
EXTENDS ViralChatEngineProofs, FiniteSetTheorems

USE DEF engineVars, historyVars, socketVars, countVars

(* A thread holds a frame exactly while it is in a call that sends. *)
HoldsInv == \A t \in Threads : At(t, "idle") <=> thread[t].frame = NoFrame

(* Until the connection is broken the engine's flag, the socket's state and *)
(* the background thread agree: nobody is about to use a socket that is not *)
(* open, and no disconnect meets a session.                                 *)
UnbrokenInv ==
    ~Broken =>
        /\ readyState \in {"OPEN", "CLOSED"}
        /\ readyState = "CLOSED" => ~m_connected /\ \A t \in Threads : ~At(t, "send")
        /\ loop \in {"opened", "announce"} \cup Flushing => readyState = "OPEN"
        /\ readyState = "OPEN" => loop # "none"
        /\ loop # "none" => calls = 1 /\ control = "idle"

OutboxInv == TypeOK /\ HoldsInv /\ UnbrokenInv

(* Making a frame, going on to a place of a call and finishing keep the     *)
(* frame and the place of every thread in step.                             *)
LEMMA MakeHolds ==
    ASSUME TypeOK, HoldsInv, NEW t \in Threads, NEW place \in Places \ {"idle"},
           NEW chat \in BOOLEAN, MakeFrame(t, place, chat)
    PROVE  HoldsInv'
<1>1. frames + 1 # 0
  BY DEF TypeOK
<1>2. [n |-> frames + 1, chat |-> chat] # NoFrame
  BY <1>1 DEF NoFrame
<1>3. QED
  BY <1>2 DEF TypeOK, HoldsInv, MakeFrame, At

LEMMA GotoHolds ==
    ASSUME TypeOK, HoldsInv, NEW t \in Threads, ~At(t, "idle"),
           NEW place \in Places \ {"idle"}, Goto(t, place)
    PROVE  HoldsInv'
<1>1. ASSUME NEW u \in Threads PROVE At(u, "idle")' <=> thread'[u].frame = NoFrame
  <2>1. thread[u] \in [pc : Places, frame : Frame]
    BY DEF TypeOK
  <2>2. CASE u = t
    BY <2>1, <2>2 DEF TypeOK, HoldsInv, Goto, At
  <2>3. CASE u # t
    BY <2>3 DEF TypeOK, HoldsInv, Goto, At
  <2>4. QED
    BY <2>2, <2>3
<1>2. QED
  BY <1>1 DEF HoldsInv

LEMMA FinishHolds ==
    ASSUME TypeOK, HoldsInv, NEW t \in Threads, Finish(t)
    PROVE  HoldsInv'
BY DEF TypeOK, HoldsInv, Finish, Idle, At

LEMMA HoldsStep == TypeOK /\ HoldsInv /\ [Next]_vars => HoldsInv'
<1> SUFFICES ASSUME TypeOK, HoldsInv, [Next]_vars PROVE HoldsInv'
  OBVIOUS
<1>0. Background \in Threads /\ Senders \subseteq Threads
  BY DEF Threads
<1>1. ASSUME thread' = thread PROVE HoldsInv'
  BY <1>1 DEF HoldsInv, At
<1>2. ASSUME NEW t \in Threads, SendRaw(t) PROVE HoldsInv'
  <2>1. CASE TestConnected(t)
    BY <2>1, GotoHolds DEF TestConnected, At, Places
  <2>2. CASE SendWrite(t) \/ PushOffline(t)
    BY <2>2, FinishHolds DEF SendWrite, PushOffline
  <2>3. CASE SendConnected(t)
    BY <2>3, GotoHolds, FinishHolds DEF SendConnected, At, Places
  <2>4. QED
    BY <1>2, <2>1, <2>2, <2>3 DEF SendRaw
<1>3. CASE \E s \in Senders : SendMessage(s) \/ SendSignal(s) \/ Sending(s)
  <2>1. PICK s \in Senders : SendMessage(s) \/ SendSignal(s) \/ Sending(s)
    BY <1>3
  <2>2. CASE SendMessage(s) \/ SendSignal(s)
    BY <1>0, <2>2, MakeHolds DEF SendMessage, SendSignal, Places
  <2>3. CASE StoreMessage(s)
    BY <1>0, <2>3, GotoHolds DEF StoreMessage, At, Places
  <2>4. QED
    BY <1>0, <1>2, <2>1, <2>2, <2>3 DEF Sending
<1>4. CASE OnConnected \/ PollMessage
  BY <1>0, <1>4, MakeHolds DEF OnConnected, PollMessage, BackgroundSends, Places
<1>5. CASE CheckConnection \/ HandshakeFails \/ FlushLock \/ FlushOne \/ FlushWrite
             \/ FlushDone \/ RunTests \/ PollQuiet \/ Acknowledged \/ HandshakeSucceeds \/ PollDropped
             \/ PollPingTimeout \/ PollClosed
  BY <1>1, <1>5 DEF CheckConnection, HandshakeFails, FlushLock, FlushOne, FlushWrite, FlushDone,
     RunTests, PollQuiet, Acknowledged, HandshakeSucceeds, PollDropped, PollPingTimeout, PollClosed
<1>6. CASE Connect \/ Disconnect \/ Controlling
  BY <1>1, <1>6 DEF Connect, Disconnect, Controlling, StopThread, JoinThread, ClearConnected
<1>7. CASE UNCHANGED vars
  BY <1>1, <1>7 DEF vars
<1>8. QED
  BY <1>0, <1>2, <1>3, <1>4, <1>5, <1>6, <1>7 DEF Next, Quiet, Run

(* No step takes back a fault or a call. *)
LEMMA CountsGrow == TypeOK /\ [Next]_vars => faults' >= faults /\ calls' >= calls
<1> SUFFICES ASSUME TypeOK, [Next]_vars PROVE faults' >= faults /\ calls' >= calls
  OBVIOUS
<1>0. faults \in Nat /\ calls \in Nat
  BY DEF TypeOK
<1>1. ASSUME NEW f, Refused(f) \/ SocketWrite(f) PROVE faults' >= faults
  BY <1>0, <1>1 DEF Refused, SocketWrite, Fault
<1>2. ASSUME NEW t, SendRaw(t) PROVE faults' >= faults /\ calls' >= calls
  <2>1. CASE TestConnected(t) \/ PushOffline(t)
    BY <1>0, <2>1 DEF TestConnected, PushOffline
  <2>2. CASE SendConnected(t)
    BY <1>0, <1>1, <2>2 DEF SendConnected
  <2>3. CASE SendWrite(t)
    BY <1>0, <1>1, <2>3 DEF SendWrite
  <2>4. QED
    BY <1>2, <2>1, <2>2, <2>3 DEF SendRaw
<1>3. CASE \E s \in Senders : SendMessage(s) \/ SendSignal(s) \/ Sending(s)
  <2>1. PICK s \in Senders : SendMessage(s) \/ SendSignal(s) \/ Sending(s)
    BY <1>3
  <2>2. CASE SendMessage(s) \/ SendSignal(s) \/ StoreMessage(s)
    <3>1. faults' = faults /\ calls' = calls
      BY <2>2 DEF SendMessage, SendSignal, StoreMessage
    <3>2. QED
      BY <1>0, <3>1
  <2>3. QED
    BY <1>2, <2>1, <2>2 DEF Sending
<1>4. CASE Run
  <2>1. CASE FlushOne \/ FlushWrite
    BY <1>0, <1>1, <2>1 DEF FlushOne, FlushWrite
  <2>2. CASE CheckConnection \/ HandshakeFails \/ OnConnected \/ FlushLock \/ FlushDone
               \/ RunTests \/ PollQuiet \/ Acknowledged
    BY <1>0, <2>2 DEF CheckConnection, HandshakeFails, OnConnected, FlushLock, FlushDone,
       RunTests, PollQuiet, Acknowledged
  <2>3. QED
    BY <1>2, <1>4, <2>1, <2>2 DEF Run
<1>5. CASE HandshakeSucceeds \/ PollMessage \/ PollDropped \/ PollPingTimeout \/ PollClosed
  BY <1>0, <1>5 DEF HandshakeSucceeds, PollMessage, PollDropped, PollPingTimeout, PollClosed, Fault
<1>6. CASE Connect \/ Disconnect \/ Controlling
  BY <1>0, <1>6 DEF Connect, Disconnect, Controlling, StopThread, JoinThread, ClearConnected,
     ControlCall
<1>7. CASE UNCHANGED vars
  BY <1>0, <1>7 DEF vars
<1>8. QED
  BY <1>3, <1>4, <1>5, <1>6, <1>7 DEF Next, Quiet

(* A frame that is dropped or written keeps the agreement: only a fault     *)
(* changes the state of the socket.                                         *)
LEMMA SendUnbroken ==
    ASSUME TypeOK, NEW f, SocketWrite(f) \/ (Refused(f) /\ UNCHANGED m_connected), calls' = calls
    PROVE  Broken' \/ (readyState' = readyState /\ m_connected' = m_connected
                         /\ faults' = faults)
BY DEF TypeOK, SocketWrite, Refused, Fault, Broken

LEMMA UnbrokenStep == OutboxInv /\ [Next]_vars => UnbrokenInv'
<1> SUFFICES ASSUME OutboxInv, [Next]_vars, ~Broken' PROVE UnbrokenInv'
  BY DEF UnbrokenInv
<1>0. Background \in Threads /\ Senders \subseteq Threads
  BY DEF Threads
<1>1. ~Broken
  <2>1. faults' \in Nat /\ calls' \in Nat /\ faults \in Nat /\ calls \in Nat
    BY ChatTypeStep DEF OutboxInv, TypeOK
  <2>2. faults' >= faults /\ calls' >= calls
    BY <2>1, CountsGrow DEF OutboxInv
  <2>3. QED
    BY <2>1, <2>2 DEF Broken
<1>2. ASSUME NEW t \in Threads, NEW place \in Places \ {"send"}, NEW chat,
             MakeFrame(t, place, chat), readyState' = readyState
      PROVE  readyState' = "CLOSED" => \A u \in Threads : ~At(u, "send")'
  BY <1>1, <1>2 DEF OutboxInv, UnbrokenInv, TypeOK, MakeFrame, At
<1>3. ASSUME NEW t \in Threads, NEW place \in Places, Goto(t, place),
             place = "send" => m_connected, readyState' = readyState
      PROVE  readyState' = "CLOSED" => \A u \in Threads : ~At(u, "send")'
  BY <1>1, <1>3 DEF OutboxInv, UnbrokenInv, TypeOK, Goto, At
<1>4. ASSUME NEW t \in Threads, Finish(t), readyState' = readyState
      PROVE  readyState' = "CLOSED" => \A u \in Threads : ~At(u, "send")'
  BY <1>1, <1>4 DEF OutboxInv, UnbrokenInv, TypeOK, Finish, Idle, At
<1>5. ASSUME NEW t \in Threads, SendRaw(t) PROVE UnbrokenInv'
  <2>1. CASE TestConnected(t)
    <3>1. readyState' = "CLOSED" => \A u \in Threads : ~At(u, "send")'
      BY <2>1, <1>3 DEF TestConnected, Places
    <3>2. QED
      BY <1>1, <2>1, <3>1 DEF OutboxInv, UnbrokenInv, TestConnected
  <2>2. CASE SendConnected(t) \/ SendWrite(t)
    <3>1. readyState' = readyState /\ m_connected' = m_connected
      BY <2>2, SendUnbroken DEF OutboxInv, SendConnected, SendWrite
    <3>2. readyState' = "CLOSED" => \A u \in Threads : ~At(u, "send")'
      BY <2>2, <3>1, <1>3, <1>4 DEF SendConnected, SendWrite, Places
    <3>3. UNCHANGED <<loop, calls, control>>
      BY <2>2 DEF SendConnected, SendWrite
    <3>4. QED
      BY <1>1, <3>1, <3>2, <3>3 DEF OutboxInv, UnbrokenInv
  <2>3. CASE PushOffline(t)
    <3>1. readyState' = "CLOSED" => \A u \in Threads : ~At(u, "send")'
      BY <2>3, <1>4 DEF PushOffline
    <3>2. QED
      BY <1>1, <2>3, <3>1 DEF OutboxInv, UnbrokenInv, PushOffline
  <2>4. QED
    BY <1>5, <2>1, <2>2, <2>3 DEF SendRaw
<1>6. CASE \E s \in Senders : SendMessage(s) \/ SendSignal(s) \/ Sending(s)
  <2>1. PICK s \in Senders : SendMessage(s) \/ SendSignal(s) \/ Sending(s)
    BY <1>6
  <2>2. CASE SendMessage(s) \/ SendSignal(s)
    <3>1. readyState' = "CLOSED" => \A u \in Threads : ~At(u, "send")'
      BY <1>0, <2>2, <1>2 DEF SendMessage, SendSignal, Places
    <3>2. QED
      BY <1>1, <2>2, <3>1 DEF OutboxInv, UnbrokenInv, SendMessage, SendSignal
  <2>3. CASE StoreMessage(s)
    <3>1. readyState' = "CLOSED" => \A u \in Threads : ~At(u, "send")'
      BY <1>0, <2>3, <1>3 DEF StoreMessage, Places
    <3>2. QED
      BY <1>1, <2>3, <3>1 DEF OutboxInv, UnbrokenInv, StoreMessage
  <2>4. QED
    BY <1>0, <1>5, <2>1, <2>2, <2>3 DEF Sending
<1>7. CASE OnConnected \/ PollMessage
  <2>1. readyState' = "CLOSED" => \A u \in Threads : ~At(u, "send")'
    BY <1>0, <1>7, <1>2 DEF OnConnected, PollMessage, BackgroundSends, Places
  <2>2. QED
    BY <1>1, <1>7, <2>1 DEF OutboxInv, UnbrokenInv, Flushing, OnConnected, PollMessage, Turn
<1>8. CASE FlushOne \/ FlushWrite
  <2>1. readyState' = readyState /\ m_connected' = m_connected
    BY <1>8, SendUnbroken DEF OutboxInv, FlushOne, FlushWrite
  <2>2. loop \in Flushing /\ loop' \in Flushing /\ UNCHANGED <<thread, calls, control>>
    BY <1>8 DEF FlushOne, FlushWrite, Flushing
  <2>3. loop # "none" /\ loop' # "none"
    BY <2>2 DEF Flushing
  <2>4. QED
    BY <1>1, <2>1, <2>2, <2>3 DEF OutboxInv, UnbrokenInv, At
<1>9. CASE CheckConnection \/ HandshakeFails \/ FlushLock \/ FlushDone \/ RunTests
             \/ PollQuiet \/ Acknowledged \/ HandshakeSucceeds
  BY <1>1, <1>9 DEF OutboxInv, UnbrokenInv, Flushing, At, CheckConnection, HandshakeFails, FlushLock,
     FlushDone, RunTests, PollQuiet, Acknowledged, HandshakeSucceeds, Turn, OnDisconnected
<1>10. CASE PollDropped \/ PollPingTimeout \/ PollClosed
  BY <1>1, <1>10 DEF OutboxInv, UnbrokenInv, TypeOK, PollDropped, PollPingTimeout, PollClosed,
     Fault, Broken
<1>11. CASE Connect \/ Disconnect
  BY <1>1, <1>11 DEF OutboxInv, UnbrokenInv, TypeOK, Flushing, Broken, At, Connect, StartThread, Disconnect,
     ControlCall, BeginClosing
<1>12. CASE Controlling
  BY <1>1, <1>12 DEF OutboxInv, UnbrokenInv, Flushing, At, Controlling, StopThread, JoinThread,
     ClearConnected
<1>13. CASE UNCHANGED vars
  BY <1>1, <1>13 DEF OutboxInv, UnbrokenInv, vars, At
<1>14. QED
  BY <1>0, <1>5, <1>6, <1>7, <1>8, <1>9, <1>10, <1>11, <1>12, <1>13 DEF Next, Quiet, Run

(* What the socket does with _txbuf, or with a frame behind it, is a write  *)
(* of the outbox.                                                           *)
LEMMA WriteImplements ==
    ASSUME TypeOK, NEW out \in Seq(Frame), WriteOut(out)
    PROVE  Outbox!Write(out)
BY WriteKeeps DEF Outbox!Write

LEMMA KeepImplements ==
    ASSUME TypeOK, \/ UNCHANGED <<wire, txbuf>>
                   \/ WriteOut(txbuf)
                   \/ BeginClosing
    PROVE  Outbox!Write(txbuf)
<1>1. txbuf \in Seq(Frame) /\ Len(wire) \in Nat
  BY DEF TypeOK
<1>2. CASE UNCHANGED <<wire, txbuf>>
  BY <1>1, <1>2 DEF Outbox!Write
<1>3. CASE WriteOut(txbuf)
  BY <1>1, <1>3, WriteImplements
<1>4. QED
  BY <1>2, <1>3 DEF BeginClosing

(* A frame that is written or dropped is sent or lost: it is dropped only   *)
(* when the connection is broken.                                           *)
LEMMA SocketWriteImplements ==
    ASSUME TypeOK, NEW f \in Frame, SocketWrite(f), UNCHANGED <<lost, calls>>
    PROVE  Outbox!SendOrLose(f)
<1>1. Append(txbuf, f) \in Seq(Frame) /\ wire \in Seq(Frame) /\ Len(wire) \in Nat
  BY DEF TypeOK
<1>2. Outbox!Write(Append(txbuf, f))
  <2>1. CASE WriteOut(Append(txbuf, f))
    BY <1>1, <2>1, WriteImplements
  <2>2. CASE txbuf' = Append(txbuf, f) /\ UNCHANGED wire
    BY <1>1, <2>2 DEF Outbox!Write
  <2>3. QED
    BY <2>1, <2>2 DEF SocketWrite
<1>3. Broken' = Broken \/ Broken' = TRUE
  BY SendUnbroken DEF Broken
<1>4. Outbox!MayBreak
  BY <1>3 DEF Outbox!MayBreak
<1>5. QED
  BY <1>2, <1>4 DEF Outbox!SendOrLose

LEMMA RefusedImplements ==
    ASSUME TypeOK, NEW f \in Frame, Refused(f), readyState # "OPEN" => Broken, calls' = calls
    PROVE  Outbox!SendOrLose(f)
<1>1. Broken'
  BY DEF TypeOK, Refused, Fault, Broken
<1>2. Broken' = TRUE
  BY <1>1 DEF Broken
<1>3. Outbox!Write(txbuf)
  BY KeepImplements DEF Refused
<1>4. \E why \in {"closed", "invalid"} : lost' = lost \cup {[n |-> f.n, why |-> why]}
  BY DEF Refused, Lose
<1>5. QED
  BY <1>2, <1>3, <1>4 DEF Outbox!SendOrLose

(* A call that makes a frame takes one, and one that ends gives it away. *)
LEMMA MakeTakes ==
    ASSUME OutboxInv, NEW t \in Threads, NEW place, NEW chat \in BOOLEAN,
           MakeFrame(t, place, chat),
           UNCHANGED <<m_offlineQueue, txbuf, wire, lost, faults, calls>>
    PROVE  Outbox!Take(t)
BY DEF OutboxInv, HoldsInv, TypeOK, MakeFrame, At, Outbox!Take, Broken

LEMMA FinishReleases ==
    ASSUME OutboxInv, NEW t \in Threads, Finish(t), ~At(t, "idle")
    PROVE  Outbox!Release(t)
BY DEF OutboxInv, HoldsInv, TypeOK, Finish, Idle, Outbox!Release

(* A call that sends, and the flush, first test the socket and then write.  *)
LEMMA SendStep ==
    ASSUME OutboxInv, NEW t \in Threads, SendConnected(t) \/ SendWrite(t)
    PROVE  \/ Outbox!Send(t)
           \/ /\ \A u \in Threads : thread'[u].frame = thread[u].frame
              /\ UNCHANGED <<m_offlineQueue, txbuf, wire, lost, frames, faults, calls>>
<1>0. thread[t].frame \in Frame /\ TypeOK
  BY DEF OutboxInv, TypeOK
<1>1. CASE SendConnected(t) /\ Goto(t, "write")
             /\ UNCHANGED <<readyState, txbuf, wire, lost, faults>>
  <2>1. \A u \in Threads : thread'[u].frame = thread[u].frame
    BY <1>0, <1>1 DEF TypeOK, Goto
  <2>2. QED
    BY <1>1, <2>1 DEF SendConnected
<1>2. CASE SendConnected(t) /\ Refused(thread[t].frame) /\ Finish(t)
  <2>1. readyState # "OPEN" => Broken
    BY <1>2 DEF OutboxInv, UnbrokenInv, SendConnected
  <2>2. Outbox!SendOrLose(thread[t].frame)
    BY <1>0, <1>2, <2>1, RefusedImplements DEF SendConnected
  <2>3. Outbox!Release(t)
    BY <1>2, FinishReleases DEF SendConnected, At
  <2>4. QED
    BY <1>2, <2>2, <2>3 DEF Outbox!Send, SendConnected
<1>3. CASE SendWrite(t)
  <2>1. Outbox!SendOrLose(thread[t].frame)
    BY <1>0, <1>3, SocketWriteImplements DEF SendWrite
  <2>2. Outbox!Release(t)
    BY <1>3, FinishReleases DEF SendWrite, At
  <2>3. QED
    BY <1>3, <2>1, <2>2 DEF Outbox!Send, SendWrite
<1>4. QED
  BY <1>1, <1>2, <1>3 DEF SendConnected

LEMMA FlushStep ==
    ASSUME OutboxInv, FlushOne \/ FlushWrite
    PROVE  \/ Outbox!Flush
           \/ UNCHANGED <<thread, m_offlineQueue, txbuf, wire, lost, frames, faults, calls>>
<1>1. Head(m_offlineQueue) \in Frame /\ TypeOK
  BY DEF OutboxInv, TypeOK, FlushOne, FlushWrite
<1>2. CASE FlushOne /\ UNCHANGED <<m_offlineQueue, readyState, txbuf, wire, lost, faults>>
  BY <1>2 DEF FlushOne
<1>3. CASE FlushOne /\ Refused(Head(m_offlineQueue)) /\ m_offlineQueue' = Tail(m_offlineQueue)
  <2>1. readyState # "OPEN" => Broken
    BY <1>3 DEF OutboxInv, UnbrokenInv, FlushOne, Flushing
  <2>2. Outbox!SendOrLose(Head(m_offlineQueue))
    BY <1>1, <1>3, <2>1, RefusedImplements DEF FlushOne
  <2>3. QED
    BY <1>3, <2>2 DEF Outbox!Flush, FlushOne
<1>4. CASE FlushWrite
  <2>1. Outbox!SendOrLose(Head(m_offlineQueue))
    BY <1>1, <1>4, SocketWriteImplements DEF FlushWrite
  <2>2. QED
    BY <1>4, <2>1 DEF Outbox!Flush, FlushWrite
<1>5. QED
  BY <1>2, <1>3, <1>4 DEF FlushOne

LEMMA OutboxStep == OutboxInv /\ [Next]_vars => [Outbox!OutboxNext]_(Outbox!outboxVars)
<1> SUFFICES ASSUME OutboxInv, [Next]_vars
             PROVE  [Outbox!OutboxNext]_(Outbox!outboxVars)
  OBVIOUS
<1>0. Background \in Threads /\ Senders \subseteq Threads
  BY DEF Threads
<1>1. ASSUME thread' = thread, UNCHANGED <<m_offlineQueue, lost, frames>>, Outbox!Write(txbuf),
             Broken' = Broken \/ Broken' = TRUE
      PROVE  [Outbox!OutboxNext]_(Outbox!outboxVars)
  <2>1. Outbox!MayBreak
    BY <1>1 DEF Outbox!MayBreak
  <2>2. Outbox!Network
    BY <1>1, <2>1 DEF Outbox!Network
  <2>3. QED
    BY <2>2 DEF Outbox!OutboxNext
<1>2. ASSUME NEW t \in Threads, NEW place, NEW chat \in BOOLEAN, MakeFrame(t, place, chat),
             UNCHANGED <<m_offlineQueue, txbuf, wire, lost, faults, calls>>
      PROVE  Outbox!Take(t)
  BY <1>2, MakeTakes
<1>3. ASSUME NEW t \in Threads, NEW place, Goto(t, place)
      PROVE  [u \in Threads |-> thread'[u].frame] = [u \in Threads |-> thread[u].frame]
  BY <1>3 DEF OutboxInv, TypeOK, Goto
<1>4. ASSUME NEW t \in Threads, Finish(t), ~At(t, "idle")
      PROVE  Outbox!Release(t)
  BY <1>4, FinishReleases
<1>5. ASSUME NEW t \in Threads, SendRaw(t) PROVE [Outbox!OutboxNext]_(Outbox!outboxVars)
  <2>1. CASE TestConnected(t)
    BY <1>3, <2>1 DEF TestConnected, Outbox!outboxVars, Broken
  <2>2. CASE SendConnected(t) \/ SendWrite(t)
    <3>1. CASE Outbox!Send(t)
      BY <3>1 DEF Outbox!OutboxNext
    <3>2. CASE /\ \A u \in Threads : thread'[u].frame = thread[u].frame
               /\ UNCHANGED <<m_offlineQueue, txbuf, wire, lost, frames, faults, calls>>
      BY <3>2 DEF Outbox!outboxVars, Broken
    <3>3. QED
      BY <2>2, <3>1, <3>2, SendStep
  <2>3. CASE PushOffline(t)
    <3>1. Outbox!Release(t)
      BY <1>4, <2>3 DEF PushOffline, At
    <3>2. Outbox!Queue(t)
      BY <2>3, <3>1 DEF Outbox!Queue, PushOffline, Broken
    <3>3. QED
      BY <3>2 DEF Outbox!OutboxNext
  <2>4. QED
    BY <1>5, <2>1, <2>2, <2>3 DEF SendRaw
<1>6. CASE \E s \in Senders : SendMessage(s) \/ SendSignal(s) \/ Sending(s)
  <2>1. PICK s \in Senders : SendMessage(s) \/ SendSignal(s) \/ Sending(s)
    BY <1>6
  <2>2. CASE SendMessage(s) \/ SendSignal(s)
    <3>1. Outbox!Take(s)
      BY <1>0, <1>2, <2>2 DEF SendMessage, SendSignal
    <3>2. QED
      BY <1>0, <3>1 DEF Outbox!OutboxNext
  <2>3. CASE StoreMessage(s)
    BY <1>0, <1>3, <2>3 DEF StoreMessage, Outbox!outboxVars, Broken
  <2>4. QED
    BY <1>0, <1>5, <2>1, <2>2, <2>3 DEF Sending
<1>7. CASE OnConnected \/ PollMessage
  <2>1. Outbox!Take(Background)
    BY <1>0, <1>2, <1>7 DEF OnConnected, PollMessage, BackgroundSends
  <2>2. QED
    BY <1>0, <2>1 DEF Outbox!OutboxNext
<1>8. CASE FlushOne \/ FlushWrite
  <2>1. CASE Outbox!Flush
    BY <2>1 DEF Outbox!OutboxNext
  <2>2. CASE UNCHANGED <<thread, m_offlineQueue, txbuf, wire, lost, frames, faults, calls>>
    BY <2>2 DEF Outbox!outboxVars, Broken
  <2>3. QED
    BY <1>8, <2>1, <2>2, FlushStep
<1>9. CASE CheckConnection \/ HandshakeFails \/ FlushLock \/ FlushDone \/ RunTests
             \/ PollQuiet \/ Acknowledged \/ HandshakeSucceeds \/ PollClosed
  <2>1. thread' = thread /\ UNCHANGED <<m_offlineQueue, lost, frames, faults, calls>>
    BY <1>9 DEF CheckConnection, HandshakeFails, FlushLock, FlushDone, RunTests, PollQuiet,
       Acknowledged, HandshakeSucceeds, PollClosed
  <2>2. Outbox!Write(txbuf)
    BY <1>9, KeepImplements DEF OutboxInv, CheckConnection, HandshakeFails, FlushLock, FlushDone,
       RunTests, PollQuiet, Acknowledged, HandshakeSucceeds, PollClosed
  <2>3. QED
    BY <1>1, <2>1, <2>2 DEF Broken
<1>10. CASE PollDropped \/ PollPingTimeout
  <2>1. thread' = thread /\ UNCHANGED <<m_offlineQueue, lost, frames>> /\ Fault
    BY <1>10 DEF PollDropped, PollPingTimeout
  <2>2. Broken'
    BY <2>1 DEF OutboxInv, TypeOK, Fault, Broken
  <2>3. Outbox!Write(txbuf)
    BY <1>10, KeepImplements DEF OutboxInv, PollDropped, PollPingTimeout
  <2>4. QED
    BY <1>1, <2>1, <2>2, <2>3 DEF Broken
<1>11. CASE Connect \/ Disconnect
  <2>1. thread' = thread /\ UNCHANGED <<m_offlineQueue, lost, frames, faults>>
          /\ calls' = calls + 1
    BY <1>11 DEF Connect, Disconnect, ControlCall
  <2>2. Broken => Broken'
    BY <2>1 DEF OutboxInv, TypeOK, Broken
  <2>3. Outbox!Write(txbuf)
    BY <1>11, KeepImplements DEF OutboxInv, Connect, Disconnect
  <2>4. QED
    BY <1>1, <2>1, <2>2, <2>3 DEF Broken
<1>12. CASE Controlling \/ UNCHANGED vars
  <2>1. thread' = thread
          /\ UNCHANGED <<m_offlineQueue, txbuf, wire, lost, frames, faults, calls>>
    BY <1>12 DEF Controlling, StopThread, JoinThread, ClearConnected, vars
  <2>2. Outbox!Write(txbuf)
    BY <2>1, KeepImplements DEF OutboxInv
  <2>3. QED
    BY <1>1, <2>1, <2>2 DEF Broken
<1>13. QED
  BY <1>0, <1>5, <1>6, <1>7, <1>8, <1>9, <1>10, <1>11, <1>12 DEF Next, Quiet, Run

LEMMA OutboxInvInit == Init => OutboxInv
<1> SUFFICES ASSUME Init PROVE OutboxInv
  OBVIOUS
<1>1. HoldsInv
  BY DEF Init, HoldsInv, At, Idle
<1>2. UnbrokenInv
  BY DEF Init, UnbrokenInv, Flushing, At, Idle
<1>3. QED
  BY <1>1, <1>2, ChatTypeInit DEF OutboxInv

(* The chat engine implements the outbox.  Every frame a call makes is      *)
(* handed to the socket, queued or dropped exactly once, the queue is       *)
(* emptied from its front, the socket writes in order all it was handed,    *)
(* also what a failed write left in _txbuf, and a frame is dropped only on  *)
(* a connection that was broken, whatever sends, flushes, callbacks and     *)
(* reconnections run at once.                                               *)
THEOREM ChatImplementsOutbox == Spec => ImplementsOutbox
<1>1. Init => OutboxInv /\ Outbox!OutboxInit
  <2> SUFFICES ASSUME Init PROVE OutboxInv /\ Outbox!OutboxInit
    OBVIOUS
  <2>1. ~Broken
    BY DEF Init, Broken
  <2>2. Outbox!OutboxInit
    BY <2>1 DEF Init, Outbox!OutboxInit, Idle
  <2>3. QED
    BY <2>2, OutboxInvInit
<1>2. OutboxInv /\ [Next]_vars => OutboxInv'
  BY ChatTypeStep, HoldsStep, UnbrokenStep DEF OutboxInv
<1>3. QED
  BY <1>1, <1>2, OutboxStep, PTL DEF Spec, ImplementsOutbox, Outbox!OutboxSpec

-----------------------------------------------------------------------------
(* Where a frame is *)

(* What a write does to what the socket was handed: nothing, or the frame   *)
(* goes behind it.                                                          *)
LEMMA HandedTyped == TypeOK => Handed \in Seq(Frame)
BY ConcatProperties DEF TypeOK, Handed

LEMMA HandedKept ==
    ASSUME TypeOK, Outbox!Write(txbuf)
    PROVE  Handed' = Handed
BY DEF Outbox!Write, Handed

LEMMA HandedGrows ==
    ASSUME TypeOK, NEW f \in Frame, Outbox!Write(Append(txbuf, f))
    PROVE  Handed' = Append(Handed, f)
<1>1. wire \in Seq(Frame) /\ txbuf \in Seq(Frame)
  BY DEF TypeOK
<1>2. wire \o Append(txbuf, f) = Append(wire \o txbuf, f)
  BY <1>1, HandedBehind
<1>3. QED
  BY <1>2 DEF Outbox!Write, Handed

Losses(n) == {l \in lost : l.n = n}

Single(S) == \E x : S = {x}

(* A frame is with one thread, at one position of the queue or of what the  *)
(* socket was handed, or dropped for one reason, and nowhere else.          *)
OnePlace(n) ==
    \/ /\ Single(Holders(n))
       /\ Positions(m_offlineQueue, n) = {} /\ Positions(Handed, n) = {} /\ Losses(n) = {}
    \/ /\ Single(Positions(m_offlineQueue, n))
       /\ Holders(n) = {} /\ Positions(Handed, n) = {} /\ Losses(n) = {}
    \/ /\ Single(Positions(Handed, n))
       /\ Holders(n) = {} /\ Positions(m_offlineQueue, n) = {} /\ Losses(n) = {}
    \/ /\ Single(Losses(n))
       /\ Holders(n) = {} /\ Positions(m_offlineQueue, n) = {} /\ Positions(Handed, n) = {}

(* Frames are numbered in the order they are made, and every one that was   *)
(* made is in one place.                                                    *)
PlaceInv ==
    /\ \A t \in Threads :
           IF thread[t].frame = NoFrame THEN thread[t].frame.n = 0
           ELSE thread[t].frame.n \in 1 .. frames
    /\ \A i \in DOMAIN m_offlineQueue : m_offlineQueue[i].n \in 1 .. frames
    /\ \A i \in DOMAIN Handed : Handed[i].n \in 1 .. frames
    /\ \A l \in lost : l.n \in 1 .. frames
    /\ \A n \in 1 .. frames : OnePlace(n)

(* m_offlineQueue is the end of all that was ever queued, no frame is       *)
(* queued twice, and none goes back to a thread.                            *)
QueueInv ==
    /\ \A a, b \in DOMAIN queued : queued[a] = queued[b] => a = b
    /\ Len(m_offlineQueue) <= Len(queued)
    /\ \A i \in DOMAIN m_offlineQueue :
           m_offlineQueue[i].n = queued[Len(queued) - Len(m_offlineQueue) + i]
    /\ \A a \in DOMAIN queued : queued[a] \in 1 .. frames /\ Holders(queued[a]) = {}

FramesInv == OutboxInv /\ PlaceInv /\ QueueInv /\ QueueOrderKept

(* Positions of a frame in a sequence that grows at its end or loses its    *)
(* first element.                                                           *)
LEMMA AppendPositions ==
    ASSUME NEW s \in Seq(Frame), NEW f \in Frame
    PROVE  /\ Positions(Append(s, f), f.n) = Positions(s, f.n) \cup {Len(s) + 1}
           /\ \A m : m # f.n => Positions(Append(s, f), m) = Positions(s, m)
<1>1. /\ DOMAIN s = 1 .. Len(s) /\ DOMAIN Append(s, f) = 1 .. Len(s) + 1 /\ Len(s) \in Nat
      /\ Append(s, f)[Len(s) + 1] = f
      /\ \A i \in 1 .. Len(s) : Append(s, f)[i] = s[i]
  OBVIOUS
<1>2. 1 .. Len(s) + 1 = (1 .. Len(s)) \cup {Len(s) + 1} /\ Len(s) + 1 \notin 1 .. Len(s)
  BY <1>1
<1>3. QED
  BY <1>1, <1>2 DEF Positions

LEMMA TailPositions ==
    ASSUME NEW s \in Seq(Frame), s # <<>>
    PROVE  /\ Positions(s, Head(s).n) = {1} => Positions(Tail(s), Head(s).n) = {}
           /\ \A m : m # Head(s).n =>
                  /\ Positions(s, m) = {} => Positions(Tail(s), m) = {}
                  /\ Single(Positions(s, m)) => Single(Positions(Tail(s), m))
           /\ \A i \in DOMAIN Tail(s) : i + 1 \in DOMAIN s /\ Tail(s)[i] = s[i + 1]
           /\ 1 \in Positions(s, Head(s).n)
<1>1. /\ Len(s) \in Nat /\ Len(s) >= 1 /\ DOMAIN s = 1 .. Len(s) /\ Head(s) = s[1]
      /\ Tail(s) \in Seq(Frame) /\ Len(Tail(s)) = Len(s) - 1
      /\ DOMAIN Tail(s) = 1 .. Len(Tail(s))
      /\ \A i \in 1 .. Len(s) - 1 : Tail(s)[i] = s[i + 1]
  OBVIOUS
<1>2. /\ DOMAIN Tail(s) = 1 .. Len(s) - 1
      /\ \A i \in DOMAIN Tail(s) : i + 1 \in DOMAIN s /\ Tail(s)[i] = s[i + 1] /\ i + 1 # 1
      /\ \A j \in DOMAIN s : j # 1 => j - 1 \in DOMAIN Tail(s) /\ Tail(s)[j - 1] = s[j]
  <2> DEFINE l == Len(s)
  <2>1. \A i \in 1 .. l - 1 : i + 1 \in 1 .. l /\ i + 1 # 1
    BY <1>1
  <2>2. \A j \in 1 .. l : j # 1 => j - 1 \in 1 .. l - 1 /\ (j - 1) + 1 = j
    BY <1>1
  <2>3. DOMAIN Tail(s) = 1 .. l - 1
    BY <1>1
  <2> HIDE DEF l
  <2>4. QED
    BY <1>1, <2>1, <2>2, <2>3 DEF l
<1>3. \A m, i : i \in Positions(Tail(s), m) => i \in Nat /\ i + 1 \in Positions(s, m) /\ i + 1 # 1
  BY <1>1, <1>2 DEF Positions
<1>4. \A m, j : j \in Positions(s, m) /\ j # 1 => j - 1 \in Positions(Tail(s), m)
  BY <1>2 DEF Positions
<1>5. \A m : m # Head(s).n => 1 \notin Positions(s, m)
  BY <1>1 DEF Positions
<1>6. ASSUME NEW m, m # Head(s).n, NEW x, Positions(s, m) = {x}
      PROVE  Positions(Tail(s), m) = {x - 1}
  <2>1. x \in Nat /\ x # 1 /\ x - 1 \in Positions(Tail(s), m)
    BY <1>1, <1>4, <1>5, <1>6 DEF Positions
  <2>2. ASSUME NEW i \in Positions(Tail(s), m) PROVE i = x - 1
    <3>1. i \in Nat /\ i + 1 = x
      BY <1>3, <1>6, <2>2
    <3>2. QED
      BY <3>1
  <2>3. QED
    BY <2>1, <2>2
<1>7. 1 \in Positions(s, Head(s).n)
  BY <1>1 DEF Positions
<1>8. QED
  BY <1>2, <1>3, <1>6, <1>7 DEF Single

(* A frame whose places change only in their positions stays in one place. *)
LEMMA StaysInPlace ==
    ASSUME NEW m, OnePlace(m), Holders(m)' = Holders(m), Losses(m)' = Losses(m),
           Positions(Handed, m)' = Positions(Handed, m),
           Positions(m_offlineQueue, m) = {} => Positions(m_offlineQueue, m)' = {},
           Single(Positions(m_offlineQueue, m)) => Single(Positions(m_offlineQueue, m)')
    PROVE  OnePlace(m)'
BY DEF OnePlace

(* A thread that takes a new frame, and one that gives its frame away. *)
LEMMA TakeHolders ==
    ASSUME TypeOK, PlaceInv, NEW t \in Threads, Outbox!Take(t), NEW new, new = frames + 1
    PROVE  /\ frames' = new
           /\ Holders(new)' = {t}
           /\ \A m \in 1 .. frames : Holders(m)' = Holders(m)
           /\ \A u \in Threads :
                  IF thread'[u].frame = NoFrame THEN thread'[u].frame.n = 0
                  ELSE thread'[u].frame.n \in 1 .. frames + 1
<1>0. frames \in Nat /\ frames + 1 # 0 /\ frames + 1 \in 1 .. frames + 1
  BY DEF TypeOK
<1>1. PICK chat \in BOOLEAN :
          [u \in Threads |-> thread'[u].frame]
             = [[u \in Threads |-> thread[u].frame] EXCEPT ![t] = [n |-> frames + 1, chat |-> chat]]
  BY DEF Outbox!Take
<1>2. \A u \in Threads : thread'[u].frame = IF u = t THEN [n |-> frames + 1, chat |-> chat]
                                            ELSE thread[u].frame
  BY <1>1
<1>3. thread'[t].frame.n = frames + 1 /\ thread'[t].frame # NoFrame
  BY <1>0, <1>2 DEF NoFrame
<1>4. \A u \in Threads \ {t} : thread'[u].frame = thread[u].frame
  BY <1>2
<1>5. thread[t].frame = NoFrame /\ thread[t].frame.n = 0 /\ frames' = frames + 1
  BY DEF Outbox!Take, PlaceInv
<1>6. \A u \in Threads : thread[u].frame.n \in 0 .. frames
  BY <1>0 DEF PlaceInv
<1>7. \A m \in 1 .. frames : m # 0 /\ m # frames + 1 /\ m \in 1 .. frames + 1
  BY <1>0
<1>8. frames + 1 \notin 0 .. frames
  BY <1>0
<1>9. Holders(new)' = {t}
  <2>1. \A u \in Threads : thread'[u].frame.n = new <=> u = t
    BY <1>3, <1>4, <1>6, <1>8
  <2>2. QED
    BY <2>1 DEF Holders
<1>10. \A m \in 1 .. frames : Holders(m)' = Holders(m)
  BY <1>3, <1>4, <1>5, <1>7 DEF Holders
<1>11. QED
  BY <1>0, <1>3, <1>4, <1>5, <1>7, <1>9, <1>10 DEF PlaceInv

LEMMA ReleaseHolders ==
    ASSUME TypeOK, PlaceInv, NEW t \in Threads, Outbox!Release(t), NEW n, n = thread[t].frame.n
    PROVE  /\ thread[t].frame \in Frame /\ n \in 1 .. frames
           /\ Holders(n) = {t} /\ Holders(n)' = {}
           /\ \A m \in 1 .. frames : m # n => Holders(m)' = Holders(m)
           /\ \A u \in Threads :
                  IF thread'[u].frame = NoFrame THEN thread'[u].frame.n = 0
                  ELSE thread'[u].frame.n \in 1 .. frames
<1>0. thread[t].frame \in Frame /\ NoFrame.n = 0
  BY DEF TypeOK, NoFrame
<1>1. n \in 1 .. frames
  BY DEF PlaceInv, Outbox!Release
<1>2. [u \in Threads |-> thread'[u].frame] = [[u \in Threads |-> thread[u].frame] EXCEPT ![t] = NoFrame]
  BY DEF Outbox!Release
<1>3. /\ \A u \in Threads \ {t} : thread'[u].frame = thread[u].frame
      /\ thread'[t].frame = NoFrame /\ thread'[t].frame.n = 0
  <2>1. \A u \in Threads : thread'[u].frame = IF u = t THEN NoFrame ELSE thread[u].frame
    BY <1>2
  <2>2. QED
    BY <1>0, <2>1
<1>4. Holders(n) = {t}
  <2>1. t \in Holders(n) /\ OnePlace(n)
    BY <1>1 DEF Holders, PlaceInv
  <2>2. QED
    BY <2>1 DEF OnePlace, Single
<1>5. \A m \in 1 .. frames : m # 0
  BY DEF TypeOK
<1>6. \A u \in Threads : thread[u].frame.n = n <=> u = t
  BY <1>4 DEF Holders
<1>7. Holders(n)' = {}
  BY <1>1, <1>3, <1>5, <1>6 DEF Holders
<1>8. \A m \in 1 .. frames : m # n => Holders(m)' = Holders(m)
  BY <1>3, <1>5 DEF Holders
<1>9. \A u \in Threads : IF thread'[u].frame = NoFrame THEN thread'[u].frame.n = 0
                         ELSE thread'[u].frame.n \in 1 .. frames
  BY <1>3 DEF PlaceInv
<1>10. QED
  BY <1>0, <1>1, <1>4, <1>7, <1>8, <1>9

(* The frame that is sent, or that is lost, is so once. *)
LEMMA Arrives ==
    ASSUME TypeOK, PlaceInv, NEW f \in Frame, f.n \in 1 .. frames, Outbox!SendOrLose(f),
           Positions(Handed, f.n) = {}, Losses(f.n) = {}
    PROVE  /\ \A m : m # f.n => /\ Positions(Handed, m)' = Positions(Handed, m)
                                /\ Losses(m)' = Losses(m)
           /\ \/ Single(Positions(Handed, f.n)') /\ Losses(f.n)' = {}
              \/ Single(Losses(f.n)') /\ Positions(Handed, f.n)' = {}
           /\ \A i \in DOMAIN Handed' : Handed'[i].n \in 1 .. frames
           /\ \A l \in lost' : l.n \in 1 .. frames
<1>0. /\ Handed \in Seq(Frame)
      /\ \A i \in DOMAIN Handed : Handed[i].n \in 1 .. frames
      /\ \A l \in lost : l.n \in 1 .. frames
  BY HandedTyped DEF PlaceInv
<1>1. CASE Handed' = Append(Handed, f) /\ lost' = lost
  <2>1. /\ Positions(Handed, f.n)' = {Len(Handed) + 1}
        /\ \A m : m # f.n => Positions(Handed, m)' = Positions(Handed, m)
    BY <1>0, <1>1, AppendPositions DEF Positions
  <2>2. \A m : Losses(m)' = Losses(m)
    BY <1>1 DEF Losses
  <2>3. \A i \in DOMAIN Handed' : Handed'[i].n \in 1 .. frames
    <3>1. \A i \in DOMAIN Append(Handed, f) : \/ i \in DOMAIN Handed /\ Append(Handed, f)[i] = Handed[i]
                                              \/ Append(Handed, f)[i] = f
      BY <1>0
    <3>2. QED
      BY <1>0, <1>1, <3>1
  <2>4. Single(Positions(Handed, f.n)')
    BY <2>1, Zenon DEF Single
  <2>5. QED
    BY <1>0, <1>1, <2>1, <2>2, <2>3, <2>4
<1>2. ASSUME NEW why, lost' = lost \cup {[n |-> f.n, why |-> why]}, Handed' = Handed
      PROVE  /\ \A m : m # f.n => /\ Positions(Handed, m)' = Positions(Handed, m)
                                  /\ Losses(m)' = Losses(m)
             /\ Single(Losses(f.n)') /\ Positions(Handed, f.n)' = {}
             /\ \A l \in lost' : l.n \in 1 .. frames
  <2> DEFINE e == [n |-> f.n, why |-> why]
  <2>1. e.n = f.n /\ lost' = lost \cup {e}
    BY <1>2
  <2> HIDE DEF e
  <2>2. Losses(f.n)' = {e}
    BY <2>1 DEF Losses
  <2>3. \A m : m # f.n => Losses(m)' = Losses(m)
    BY <2>1 DEF Losses
  <2>4. \A m : Positions(Handed, m)' = Positions(Handed, m)
    BY <1>2 DEF Positions
  <2>5. \A l \in lost' : l.n \in 1 .. frames
    BY <1>0, <2>1
  <2>6. Single(Losses(f.n)')
    BY <2>2, Zenon DEF Single
  <2>7. QED
    BY <2>3, <2>4, <2>5, <2>6
<1>3. CASE Outbox!Write(Append(txbuf, f)) /\ UNCHANGED lost
  BY <1>1, <1>3, HandedGrows
<1>4. CASE /\ Outbox!Write(txbuf)
           /\ \E why \in {"closed", "invalid"} : lost' = lost \cup {[n |-> f.n, why |-> why]}
  <2>1. Handed' = Handed
    BY <1>4, HandedKept
  <2>2. \A i \in DOMAIN Handed' : Handed'[i].n \in 1 .. frames
    BY <1>0, <2>1
  <2>3. QED
    BY <1>2, <1>4, <2>1, <2>2
<1>5. QED
  BY <1>3, <1>4 DEF Outbox!SendOrLose

LEMMA PlaceStep ==
    ASSUME TypeOK, PlaceInv, [Outbox!OutboxNext]_(Outbox!outboxVars)
    PROVE  PlaceInv'
<1>0. /\ m_offlineQueue \in Seq(Frame) /\ Handed \in Seq(Frame) /\ frames \in Nat
      /\ \A n \in 1 .. frames : OnePlace(n)
      /\ \A i \in DOMAIN m_offlineQueue : m_offlineQueue[i].n \in 1 .. frames
      /\ \A i \in DOMAIN Handed : Handed[i].n \in 1 .. frames
      /\ \A l \in lost : l.n \in 1 .. frames
  BY HandedTyped DEF TypeOK, PlaceInv
<1>1. CASE UNCHANGED Outbox!outboxVars \/ Outbox!Network
  <2>0. UNCHANGED Handed
    BY <1>1, HandedKept DEF Outbox!outboxVars, Outbox!Network, Handed
  <2>1. /\ UNCHANGED <<m_offlineQueue, Handed, lost, frames>>
        /\ [u \in Threads |-> thread'[u].frame] = [u \in Threads |-> thread[u].frame]
    BY <1>1, <2>0 DEF Outbox!outboxVars, Outbox!Network
  <2>2. \A u \in Threads : thread'[u].frame = thread[u].frame
    BY <2>1
  <2>3. \A n : /\ Holders(n)' = Holders(n) /\ Losses(n)' = Losses(n)
               /\ Positions(Handed, n)' = Positions(Handed, n)
               /\ Positions(m_offlineQueue, n)' = Positions(m_offlineQueue, n)
    BY <2>1, <2>2 DEF Holders, Losses, Positions
  <2>4. \A n \in 1 .. frames : OnePlace(n)'
    BY <1>0, <2>3, StaysInPlace
  <2>5. QED
    BY <1>0, <2>1, <2>2, <2>4 DEF PlaceInv
<1>2. ASSUME NEW t \in Threads, Outbox!Take(t) PROVE PlaceInv'
  <2>1. UNCHANGED <<m_offlineQueue, Handed, lost>>
    BY <1>2 DEF Outbox!Take, Handed
  <2>2. PICK new : new = frames + 1
    OBVIOUS
  <2>3. /\ frames' = new /\ Holders(new)' = {t}
        /\ \A m \in 1 .. frames : Holders(m)' = Holders(m)
        /\ \A u \in Threads :
               IF thread'[u].frame = NoFrame THEN thread'[u].frame.n = 0
               ELSE thread'[u].frame.n \in 1 .. new
    BY <1>2, <2>2, TakeHolders
  <2>4. \A n : /\ Losses(n)' = Losses(n)
               /\ Positions(Handed, n)' = Positions(Handed, n)
               /\ Positions(m_offlineQueue, n)' = Positions(m_offlineQueue, n)
    BY <2>1 DEF Losses, Positions
  <2>5. \A n \in 1 .. frames : OnePlace(n)'
    BY <1>0, <2>3, <2>4, StaysInPlace
  <2>6. new \notin 1 .. frames /\ \A n \in 1 .. new : n \in 1 .. frames \/ n = new
    BY <1>0, <2>2
  <2>7. Positions(m_offlineQueue, new)' = {} /\ Positions(Handed, new)' = {} /\ Losses(new)' = {}
    <3>1. Positions(m_offlineQueue, new) = {} /\ Positions(Handed, new) = {} /\ Losses(new) = {}
      BY <1>0, <2>6 DEF Positions, Losses
    <3>2. QED
      BY <2>4, <3>1
  <2>8. OnePlace(new)'
    <3>1. Single(Holders(new)')
      BY <2>3, Zenon DEF Single
    <3>2. QED
      BY <2>7, <3>1 DEF OnePlace
  <2>9. \A n \in 1 .. frames : n \in 1 .. new
    BY <1>0, <2>2
  <2>10. QED
    BY <1>0, <2>1, <2>3, <2>5, <2>6, <2>8, <2>9 DEF PlaceInv
<1>3. ASSUME NEW t \in Threads, Outbox!Send(t) PROVE PlaceInv'
  <2>1. PICK f : f = thread[t].frame
    OBVIOUS
  <2>2. /\ Outbox!Release(t) /\ Outbox!SendOrLose(f) /\ UNCHANGED <<m_offlineQueue, frames>>
    BY <1>3, <2>1 DEF Outbox!Send
  <2>3. PICK n : n = f.n
    OBVIOUS
  <2>4. /\ f \in Frame /\ n \in 1 .. frames /\ Holders(n) = {t} /\ Holders(n)' = {}
        /\ \A m \in 1 .. frames : m # n => Holders(m)' = Holders(m)
        /\ \A u \in Threads :
               IF thread'[u].frame = NoFrame THEN thread'[u].frame.n = 0
               ELSE thread'[u].frame.n \in 1 .. frames
    BY <2>1, <2>2, <2>3, ReleaseHolders
  <2>5. Positions(m_offlineQueue, n) = {} /\ Positions(Handed, n) = {} /\ Losses(n) = {}
    BY <1>0, <2>4 DEF OnePlace
  <2>6. /\ \A m : m # n => /\ Positions(Handed, m)' = Positions(Handed, m)
                           /\ Losses(m)' = Losses(m)
        /\ \/ Single(Positions(Handed, n)') /\ Losses(n)' = {}
           \/ Single(Losses(n)') /\ Positions(Handed, n)' = {}
        /\ \A i \in DOMAIN Handed' : Handed'[i].n \in 1 .. frames
        /\ \A l \in lost' : l.n \in 1 .. frames
    BY <2>2, <2>3, <2>4, <2>5, Arrives
  <2>7. \A m : Positions(m_offlineQueue, m)' = Positions(m_offlineQueue, m)
    BY <2>2 DEF Positions
  <2>8. \A m \in 1 .. frames : m # n => OnePlace(m)'
    BY <1>0, <2>4, <2>6, <2>7, StaysInPlace
  <2>9. OnePlace(n)'
    BY <2>4, <2>5, <2>6, <2>7 DEF OnePlace
  <2>10. QED
    BY <1>0, <2>2, <2>4, <2>6, <2>8, <2>9 DEF PlaceInv
<1>4. ASSUME NEW t \in Threads, Outbox!Queue(t) PROVE PlaceInv'
  <2>1. PICK f : f = thread[t].frame
    OBVIOUS
  <2>2. /\ Outbox!Release(t) /\ m_offlineQueue' = Append(m_offlineQueue, f)
        /\ UNCHANGED <<Handed, lost, frames>>
    BY <1>4, <2>1 DEF Outbox!Queue, Handed
  <2>3. PICK n : n = f.n
    OBVIOUS
  <2>4. /\ f \in Frame /\ n \in 1 .. frames /\ Holders(n) = {t} /\ Holders(n)' = {}
        /\ \A m \in 1 .. frames : m # n => Holders(m)' = Holders(m)
        /\ \A u \in Threads :
               IF thread'[u].frame = NoFrame THEN thread'[u].frame.n = 0
               ELSE thread'[u].frame.n \in 1 .. frames
    BY <2>1, <2>2, <2>3, ReleaseHolders
  <2>5. Positions(m_offlineQueue, n) = {} /\ Positions(Handed, n) = {} /\ Losses(n) = {}
    BY <1>0, <2>4 DEF OnePlace
  <2>6. \A m : Positions(Handed, m)' = Positions(Handed, m) /\ Losses(m)' = Losses(m)
    BY <2>2 DEF Positions, Losses
  <2>7. /\ Positions(m_offlineQueue, n)' = {Len(m_offlineQueue) + 1}
        /\ \A m : m # n => Positions(m_offlineQueue, m)' = Positions(m_offlineQueue, m)
    BY <1>0, <2>2, <2>3, <2>4, <2>5, AppendPositions DEF Positions
  <2>8. \A m \in 1 .. frames : m # n => OnePlace(m)'
    BY <1>0, <2>4, <2>6, <2>7, StaysInPlace
  <2>9. OnePlace(n)'
    <3>1. Single(Positions(m_offlineQueue, n)')
      BY <2>7, Zenon DEF Single
    <3>2. QED
      BY <2>4, <2>5, <2>6, <3>1 DEF OnePlace
  <2>10. \A i \in DOMAIN m_offlineQueue' : m_offlineQueue'[i].n \in 1 .. frames
    <3>1. \A i \in DOMAIN Append(m_offlineQueue, f) :
              \/ i \in DOMAIN m_offlineQueue /\ Append(m_offlineQueue, f)[i] = m_offlineQueue[i]
              \/ Append(m_offlineQueue, f)[i] = f
      BY <1>0, <2>4
    <3>2. QED
      BY <1>0, <2>2, <2>3, <2>4, <3>1
  <2>11. QED
    BY <1>0, <2>2, <2>4, <2>8, <2>9, <2>10 DEF PlaceInv
<1>5. CASE Outbox!Flush
  <2>1. PICK f : f = Head(m_offlineQueue)
    OBVIOUS
  <2>2. /\ m_offlineQueue # <<>> /\ Outbox!SendOrLose(f)
        /\ m_offlineQueue' = Tail(m_offlineQueue) /\ UNCHANGED frames
        /\ [u \in Threads |-> thread'[u].frame] = [u \in Threads |-> thread[u].frame]
    BY <1>5, <2>1 DEF Outbox!Flush
  <2>3. PICK n : n = f.n
    OBVIOUS
  <2>4. \A u \in Threads : thread'[u].frame = thread[u].frame
    BY <2>2
  <2>5. \A m : Holders(m)' = Holders(m)
    BY <2>4 DEF Holders
  <2>6. f \in Frame /\ n \in 1 .. frames /\ 1 \in Positions(m_offlineQueue, n)
    BY <1>0, <2>1, <2>2, <2>3 DEF Positions
  <2>7. /\ Positions(m_offlineQueue, n) = {1} /\ Holders(n) = {}
        /\ Positions(Handed, n) = {} /\ Losses(n) = {}
    BY <1>0, <2>6 DEF OnePlace, Single
  <2>8. /\ \A m : m # n => /\ Positions(Handed, m)' = Positions(Handed, m)
                           /\ Losses(m)' = Losses(m)
        /\ \/ Single(Positions(Handed, n)') /\ Losses(n)' = {}
           \/ Single(Losses(n)') /\ Positions(Handed, n)' = {}
        /\ \A i \in DOMAIN Handed' : Handed'[i].n \in 1 .. frames
        /\ \A l \in lost' : l.n \in 1 .. frames
    BY <2>2, <2>3, <2>6, <2>7, Arrives
  <2>9. /\ Positions(m_offlineQueue, n)' = {}
        /\ \A m : m # n =>
               /\ Positions(m_offlineQueue, m) = {} => Positions(m_offlineQueue, m)' = {}
               /\ Single(Positions(m_offlineQueue, m)) => Single(Positions(m_offlineQueue, m)')
        /\ \A i \in DOMAIN m_offlineQueue' : m_offlineQueue'[i].n \in 1 .. frames
    <3>1. \A m : Positions(m_offlineQueue, m)' = Positions(Tail(m_offlineQueue), m)
      BY <2>2 DEF Positions
    <3>2. /\ Positions(Tail(m_offlineQueue), n) = {}
          /\ \A m : m # n =>
               /\ Positions(m_offlineQueue, m) = {} => Positions(Tail(m_offlineQueue), m) = {}
               /\ Single(Positions(m_offlineQueue, m)) => Single(Positions(Tail(m_offlineQueue), m))
          /\ \A i \in DOMAIN Tail(m_offlineQueue) :
               i + 1 \in DOMAIN m_offlineQueue /\ Tail(m_offlineQueue)[i] = m_offlineQueue[i + 1]
      BY <1>0, <2>1, <2>2, <2>3, <2>7, TailPositions
    <3>3. \A i \in DOMAIN m_offlineQueue' : m_offlineQueue'[i].n \in 1 .. frames
      BY <1>0, <2>2, <3>2
    <3>4. QED
      BY <3>1, <3>2, <3>3
  <2>10. \A m \in 1 .. frames : m # n => OnePlace(m)'
    BY <1>0, <2>5, <2>8, <2>9, StaysInPlace
  <2>11. OnePlace(n)'
    BY <2>5, <2>7, <2>8, <2>9 DEF OnePlace
  <2>12. QED
    BY <1>0, <2>2, <2>4, <2>8, <2>9, <2>10, <2>11 DEF PlaceInv
<1>6. QED
  BY <1>1, <1>2, <1>3, <1>4, <1>5 DEF Outbox!OutboxNext

-----------------------------------------------------------------------------
(* The order of the queue *)

(* What was queued stays with no thread, when no thread is given a frame    *)
(* that was made before.                                                    *)
LEMMA QueuedReleased ==
    ASSUME TypeOK, QueueInv, frames' \in {frames, frames + 1},
           \A m \in 1 .. frames : Holders(m) = {} => Holders(m)' = {}
    PROVE  \A a \in DOMAIN queued :
               /\ queued[a] \in 1 .. frames'
               /\ \A u \in Threads : thread'[u].frame.n # queued[a]
<1>1. frames \in Nat
  BY DEF TypeOK
<1>2. \A m \in 1 .. frames : m \in 1 .. frames'
  BY <1>1
<1>3. ASSUME NEW m \in 1 .. frames, Holders(m) = {}
      PROVE  \A u \in Threads : thread'[u].frame.n # m
  <2>1. Holders(m)' = {u \in Threads : thread'[u].frame.n = m}
    BY DEF Holders
  <2>2. QED
    BY <1>3, <2>1
<1>4. QED
  BY <1>2, <1>3 DEF QueueInv

(* A step that leaves the queue and what the socket was handed as they are. *)
LEMMA QueueUntouched ==
    ASSUME TypeOK, QueueInv, QueueOrderKept, UNCHANGED <<queued, m_offlineQueue, Handed>>,
           frames' \in {frames, frames + 1},
           \A m \in 1 .. frames : Holders(m) = {} => Holders(m)' = {}
    PROVE  QueueInv' /\ QueueOrderKept'
<1>1. \A a \in DOMAIN queued : queued[a] \in 1 .. frames' /\ Holders(queued[a])' = {}
  BY QueuedReleased DEF Holders
<1>2. QED
  BY <1>1 DEF QueueInv, QueueOrderKept

(* A frame a thread sends or drops itself was never queued. *)
LEMMA QueueSend ==
    ASSUME OutboxInv, PlaceInv, QueueInv, QueueOrderKept, NEW t \in Threads, Outbox!Send(t),
           UNCHANGED queued
    PROVE  QueueInv' /\ QueueOrderKept'
<1>0. TypeOK /\ Handed \in Seq(Frame) /\ thread[t].frame \in Frame
  BY HandedTyped DEF OutboxInv, TypeOK
<1>1. PICK f \in Frame : f = thread[t].frame
  BY <1>0
<1>2. PICK n : n = f.n
  OBVIOUS
<1>3. Outbox!Release(t) /\ Outbox!SendOrLose(f) /\ UNCHANGED <<queued, m_offlineQueue, frames>>
  BY <1>0, <1>1 DEF Outbox!Send
<1>4. /\ n \in 1 .. frames /\ Holders(n) = {t} /\ Holders(n)' = {}
      /\ \A m \in 1 .. frames : m # n => Holders(m)' = Holders(m)
  BY <1>0, <1>1, <1>2, <1>3, ReleaseHolders
<1>6. \A a \in DOMAIN queued : queued[a] # n
  BY <1>4 DEF QueueInv
<1>7. Handed' = Handed \/ Handed' = Append(Handed, f)
  BY <1>0, <1>3, HandedKept, HandedGrows DEF Outbox!SendOrLose
<1>8. CASE Handed' = Handed
  BY <1>0, <1>3, <1>4, <1>8, QueueUntouched
<1>9. CASE Handed' = Append(Handed, f)
  <2>1. \A i \in DOMAIN Handed' : \/ i \in DOMAIN Handed /\ Handed'[i] = Handed[i]
                                  \/ Handed'[i] = f
    BY <1>0, <1>9
  <2>2. QueueOrderKept'
    BY <1>2, <1>3, <1>6, <2>1 DEF QueueOrderKept
  <2>3. QueueInv'
    <3>1. \A m \in 1 .. frames : Holders(m) = {} => Holders(m)' = {}
      BY <1>4
    <3>2. \A a \in DOMAIN queued : queued[a] \in 1 .. frames' /\ Holders(queued[a])' = {}
      BY <1>0, <1>3, <3>1, QueuedReleased DEF Holders
    <3>3. QED
      BY <1>3, <3>2 DEF QueueInv
  <2>4. QED
    BY <2>2, <2>3
<1>10. QED
  BY <1>7, <1>8, <1>9

(* A frame that is queued was not queued before and was not handed over. *)
LEMMA QueuePush ==
    ASSUME OutboxInv, PlaceInv, QueueInv, QueueOrderKept, NEW t \in Threads, PushOffline(t)
    PROVE  QueueInv' /\ QueueOrderKept'
<1> DEFINE K == Len(queued)
           L == Len(m_offlineQueue)
<1>0. /\ TypeOK /\ Handed \in Seq(Frame) /\ thread[t].frame \in Frame
      /\ m_offlineQueue \in Seq(Frame) /\ queued \in Seq(Nat) /\ frames \in Nat
  BY HandedTyped DEF OutboxInv, TypeOK
<1>1. PICK f \in Frame : f = thread[t].frame
  BY <1>0
<1>2. PICK n \in Nat : n = f.n
  BY DEF Frame
<1>3. Outbox!Release(t)
  BY FinishReleases DEF PushOffline, At
<1>4. /\ n \in 1 .. frames /\ Holders(n) = {t} /\ Holders(n)' = {}
      /\ \A m \in 1 .. frames : m # n => Holders(m)' = Holders(m)
  BY <1>0, <1>1, <1>2, <1>3, ReleaseHolders
<1>5. /\ queued' = Append(queued, n) /\ m_offlineQueue' = Append(m_offlineQueue, f)
      /\ UNCHANGED <<Handed, frames>>
  BY <1>1, <1>2 DEF PushOffline, Handed
<1>6. (\A a \in DOMAIN queued : queued[a] # n) /\ (\A i \in DOMAIN Handed : Handed[i].n # n)
  <2>1. Positions(Handed, n) = {}
    BY <1>4 DEF PlaceInv, OnePlace
  <2>2. QED
    BY <1>4, <2>1 DEF QueueInv, Positions
<1>7. /\ K \in Nat /\ L \in Nat /\ L <= K
      /\ DOMAIN queued = 1 .. K /\ DOMAIN m_offlineQueue = 1 .. L
  BY <1>0 DEF QueueInv
<1>8. /\ DOMAIN queued' = 1 .. K + 1 /\ queued'[K + 1] = n /\ Len(queued') = K + 1
      /\ \A a \in 1 .. K : queued'[a] = queued[a]
  BY <1>0, <1>5
<1>9. /\ DOMAIN m_offlineQueue' = 1 .. L + 1 /\ m_offlineQueue'[L + 1] = f
      /\ Len(m_offlineQueue') = L + 1
      /\ \A i \in 1 .. L : m_offlineQueue'[i] = m_offlineQueue[i]
  BY <1>0, <1>5
<1>10. \A i \in 1 .. L : m_offlineQueue[i].n = queued[K - L + i]
  BY <1>7 DEF QueueInv
<1> HIDE DEF K, L
<1>11. \A a \in 1 .. K + 1 : a \in 1 .. K \/ a = K + 1
  BY <1>7
<1>12. \A a, b \in DOMAIN queued' : queued'[a] = queued'[b] => a = b
  BY <1>6, <1>7, <1>8, <1>11 DEF QueueInv
<1>13. \A i \in DOMAIN m_offlineQueue' :
           m_offlineQueue'[i].n = queued'[Len(queued') - Len(m_offlineQueue') + i]
  <2>1. ASSUME NEW i \in 1 .. L PROVE m_offlineQueue'[i].n = queued'[(K + 1) - (L + 1) + i]
    <3>1. K - L + i \in 1 .. K /\ (K + 1) - (L + 1) + i = K - L + i
      BY <1>7
    <3>2. QED
      BY <1>8, <1>9, <1>10, <3>1
  <2>2. m_offlineQueue'[L + 1].n = queued'[(K + 1) - (L + 1) + (L + 1)]
    <3>1. (K + 1) - (L + 1) + (L + 1) = K + 1
      BY <1>7
    <3>2. QED
      BY <1>2, <1>8, <1>9, <3>1
  <2>3. \A i \in 1 .. L + 1 : i \in 1 .. L \/ i = L + 1
    BY <1>7
  <2>4. QED
    BY <1>8, <1>9, <2>1, <2>2, <2>3
<1>14. \A a \in DOMAIN queued' : queued'[a] \in 1 .. frames' /\ Holders(queued[a])' = {}
  <2>1. \A m \in 1 .. frames : Holders(m) = {} => Holders(m)' = {}
    BY <1>4
  <2>2. \A a \in DOMAIN queued : /\ queued[a] \in 1 .. frames'
                                 /\ \A u \in Threads : thread'[u].frame.n # queued[a]
    BY <1>0, <1>5, <2>1, QueuedReleased
  <2>3. \A u \in Threads : thread'[u].frame.n # n
    BY <1>4 DEF Holders
  <2>4. \A a \in DOMAIN queued' : /\ queued'[a] \in 1 .. frames'
                                  /\ \A u \in Threads : thread'[u].frame.n # queued'[a]
    BY <1>4, <1>5, <1>7, <1>8, <1>11, <2>2, <2>3
  <2>5. QED
    BY <2>4 DEF Holders
<1>15. QueueOrderKept'
  <2> SUFFICES ASSUME NEW a \in 1 .. K + 1, NEW b \in 1 .. K + 1, a < b,
                      NEW i \in DOMAIN Handed, NEW j \in DOMAIN Handed,
                      Handed[i].n = queued'[a], Handed[j].n = queued'[b]
               PROVE  i < j
    BY <1>5, <1>8 DEF QueueOrderKept
  <2>1. b # K + 1
    BY <1>6, <1>8
  <2>2. a \in 1 .. K /\ b \in 1 .. K
    BY <1>7, <2>1
  <2>3. QED
    BY <1>7, <1>8, <2>2 DEF QueueOrderKept
<1>16. Len(m_offlineQueue') <= Len(queued')
  BY <1>7, <1>8, <1>9
<1>17. QED
  BY <1>12, <1>13, <1>14, <1>15, <1>16 DEF QueueInv

(* The frame the flush sends is the first of the queue: those queued before *)
(* it left the queue before, those queued after it were not handed over.    *)
LEMMA QueueFlush ==
    ASSUME OutboxInv, PlaceInv, QueueInv, QueueOrderKept, Outbox!Flush,
           UNCHANGED <<queued, thread>>
    PROVE  QueueInv' /\ QueueOrderKept'
<1> DEFINE K == Len(queued)
           L == Len(m_offlineQueue)
<1>0. /\ TypeOK /\ Handed \in Seq(Frame) /\ m_offlineQueue \in Seq(Frame)
      /\ queued \in Seq(Nat) /\ frames \in Nat /\ m_offlineQueue # <<>>
  BY HandedTyped DEF OutboxInv, TypeOK, Outbox!Flush
<1>1. PICK f \in Frame : f = m_offlineQueue[1] /\ f = Head(m_offlineQueue)
  BY <1>0
<1>2. /\ UNCHANGED <<queued, thread, frames>> /\ m_offlineQueue' = Tail(m_offlineQueue)
      /\ Handed' = Handed \/ Handed' = Append(Handed, f)
  BY <1>0, <1>1, HandedKept, HandedGrows DEF Outbox!Flush, Outbox!SendOrLose
<1>3. /\ K \in Nat /\ L \in Nat /\ L >= 1 /\ L <= K
      /\ DOMAIN queued = 1 .. K /\ DOMAIN m_offlineQueue = 1 .. L
  BY <1>0 DEF QueueInv
<1>4. /\ DOMAIN m_offlineQueue' = 1 .. L - 1 /\ Len(m_offlineQueue') = L - 1
      /\ \A i \in 1 .. L - 1 : m_offlineQueue'[i] = m_offlineQueue[i + 1]
  BY <1>0, <1>2
<1>5. \A i \in 1 .. L : m_offlineQueue[i].n = queued[K - L + i]
  BY <1>3 DEF QueueInv
<1>6. \A a \in 1 .. K : Holders(queued[a])' = {} /\ queued[a] \in 1 .. frames
  BY <1>2, <1>3 DEF QueueInv, Holders
<1>7. \A a, b \in 1 .. K : queued[a] = queued[b] => a = b
  BY <1>3 DEF QueueInv
<1>8. DOMAIN Handed = 1 .. Len(Handed) /\ Len(Handed) \in Nat
  BY <1>0
<1> HIDE DEF K, L
<1>9. QueueInv'
  <2>1. \A i \in 1 .. L - 1 : m_offlineQueue'[i].n = queued[K - (L - 1) + i]
    <3>1. \A i \in 1 .. L - 1 : i + 1 \in 1 .. L /\ K - (L - 1) + i = K - L + (i + 1)
      BY <1>3
    <3>2. QED
      BY <1>4, <1>5, <3>1
  <2>2. L - 1 <= K
    BY <1>3
  <2>3. Len(queued') = K /\ DOMAIN queued' = 1 .. K
    BY <1>2, <1>3 DEF K
  <2>4. QED
    BY <1>2, <1>3, <1>4, <1>6, <1>7, <2>1, <2>2, <2>3 DEF QueueInv
<1>10. CASE Handed' = Handed
  BY <1>2, <1>9, <1>10 DEF QueueOrderKept
<1>11. CASE Handed' = Append(Handed, f)
  <2>0. PICK first : first = K - L + 1
    OBVIOUS
  <2>1. first \in 1 .. K /\ queued[first] = f.n
    BY <1>1, <1>3, <1>5, <2>0
  <2>2. \A i \in DOMAIN Handed' : \/ i \in DOMAIN Handed /\ Handed'[i] = Handed[i]
                                  \/ i = Len(Handed) + 1 /\ Handed'[i] = f
    BY <1>0, <1>11
  <2>3. ASSUME NEW b \in 1 .. K, first < b, NEW j \in DOMAIN Handed, Handed[j].n = queued[b]
        PROVE  FALSE
    <3>1. PICK k \in 1 .. L : b = K - L + k
      <4>1. b - (K - L) \in 1 .. L /\ b = K - L + (b - (K - L))
        BY <1>3, <2>0, <2>3
      <4>2. QED
        BY <4>1
    <3>2. m_offlineQueue[k].n = queued[b]
      BY <1>5, <3>1
    <3>3. PICK m \in 1 .. frames : m = queued[b]
      BY <1>6
    <3>4. Positions(m_offlineQueue, m) # {} /\ Positions(Handed, m) # {}
      BY <1>3, <2>3, <3>2, <3>3 DEF Positions
    <3>5. OnePlace(m)
      BY DEF PlaceInv
    <3>6. QED
      BY <3>4, <3>5 DEF OnePlace
  <2>4. QueueOrderKept'
    <3> SUFFICES ASSUME NEW a \in 1 .. K, NEW b \in 1 .. K, a < b,
                        NEW i \in DOMAIN Handed', NEW j \in DOMAIN Handed',
                        Handed'[i].n = queued[a], Handed'[j].n = queued[b]
                 PROVE  i < j
      BY <1>2, <1>3 DEF QueueOrderKept
    <3>1. CASE i \in DOMAIN Handed /\ Handed'[i] = Handed[i] /\ j \in DOMAIN Handed /\ Handed'[j] = Handed[j]
      BY <1>3, <3>1 DEF QueueOrderKept
    <3>2. CASE i \in DOMAIN Handed /\ j = Len(Handed) + 1
      BY <1>8, <3>2
    <3>3. CASE i = Len(Handed) + 1 /\ Handed'[i] = f
      <4>1. a = first
        BY <1>7, <2>1, <3>3
      <4>2. CASE Handed'[j] = f
        BY <1>7, <2>1, <4>1, <4>2
      <4>3. CASE j \in DOMAIN Handed /\ Handed'[j] = Handed[j]
        BY <2>3, <4>1, <4>3
      <4>4. QED
        BY <2>2, <4>2, <4>3
    <3>4. QED
      BY <2>2, <3>1, <3>2, <3>3
  <2>5. QED
    BY <1>9, <2>4
<1>12. QED
  BY <1>2, <1>9, <1>10, <1>11

LEMMA QueueStep ==
    ASSUME OutboxInv, PlaceInv, QueueInv, QueueOrderKept, [Next]_vars
    PROVE  QueueInv' /\ QueueOrderKept'
<1>0. TypeOK /\ Background \in Threads /\ Senders \subseteq Threads
  BY DEF OutboxInv, Threads
<1>1. ASSUME \A u \in Threads : thread'[u].frame = thread[u].frame,
             UNCHANGED <<queued, m_offlineQueue, Handed, frames>>
      PROVE  QueueInv' /\ QueueOrderKept'
  <2>1. \A m : Holders(m)' = Holders(m)
    BY <1>1 DEF Holders
  <2>2. QED
    BY <1>0, <1>1, <2>1, QueueUntouched
<1>2. ASSUME NEW t \in Threads, NEW place, NEW chat \in BOOLEAN, MakeFrame(t, place, chat),
             UNCHANGED <<queued, m_offlineQueue, txbuf, wire, lost, faults, calls>>
      PROVE  QueueInv' /\ QueueOrderKept'
  <2>0. UNCHANGED Handed
    BY <1>2 DEF Handed
  <2>1. Outbox!Take(t)
    BY <1>2, MakeTakes
  <2>2. PICK new : new = frames + 1
    OBVIOUS
  <2>3. frames' = new /\ \A m \in 1 .. frames : Holders(m)' = Holders(m)
    BY <1>0, <2>1, <2>2, TakeHolders
  <2>4. QED
    BY <1>0, <1>2, <2>0, <2>2, <2>3, QueueUntouched
<1>3. ASSUME NEW t \in Threads, NEW place, Goto(t, place)
      PROVE  \A u \in Threads : thread'[u].frame = thread[u].frame
  BY <1>0, <1>3 DEF TypeOK, Goto
<1>4. ASSUME NEW t \in Threads, SendRaw(t) PROVE QueueInv' /\ QueueOrderKept'
  <2>1. CASE TestConnected(t)
    BY <1>1, <1>3, <2>1 DEF TestConnected, Handed
  <2>2. CASE SendConnected(t) \/ SendWrite(t)
    <3>1. UNCHANGED queued
      BY <2>2 DEF SendConnected, SendWrite
    <3>2. CASE Outbox!Send(t)
      BY <3>1, <3>2, QueueSend
    <3>3. CASE /\ \A u \in Threads : thread'[u].frame = thread[u].frame
               /\ UNCHANGED <<m_offlineQueue, txbuf, wire, lost, frames, faults, calls>>
      BY <1>1, <3>1, <3>3 DEF Handed
    <3>4. QED
      BY <2>2, <3>2, <3>3, SendStep
  <2>3. QED
    BY <1>4, <2>1, <2>2, QueuePush DEF SendRaw
<1>5. CASE \E s \in Senders : SendMessage(s) \/ SendSignal(s) \/ Sending(s)
  <2>1. PICK s \in Senders : SendMessage(s) \/ SendSignal(s) \/ Sending(s)
    BY <1>5
  <2>2. CASE SendMessage(s) \/ SendSignal(s)
    BY <1>0, <1>2, <2>2 DEF SendMessage, SendSignal
  <2>3. CASE StoreMessage(s)
    BY <1>0, <1>1, <1>3, <2>3 DEF StoreMessage, Handed
  <2>4. QED
    BY <1>0, <1>4, <2>1, <2>2, <2>3 DEF Sending
<1>6. CASE OnConnected \/ PollMessage
  BY <1>0, <1>2, <1>6 DEF OnConnected, PollMessage, BackgroundSends
<1>7. CASE FlushOne \/ FlushWrite
  <2>1. UNCHANGED <<queued, thread>>
    BY <1>7 DEF FlushOne, FlushWrite
  <2>2. CASE Outbox!Flush
    BY <2>1, <2>2, QueueFlush
  <2>3. CASE UNCHANGED <<thread, m_offlineQueue, txbuf, wire, lost, frames, faults, calls>>
    BY <1>1, <2>1, <2>3 DEF Handed
  <2>4. QED
    BY <1>7, <2>2, <2>3, FlushStep
<1>8. CASE CheckConnection \/ HandshakeFails \/ FlushLock \/ FlushDone \/ RunTests
             \/ PollQuiet \/ Acknowledged \/ HandshakeSucceeds \/ PollClosed
             \/ PollDropped \/ PollPingTimeout
  <2>1. UNCHANGED <<thread, queued, m_offlineQueue, frames>>
    BY <1>8 DEF CheckConnection, HandshakeFails, FlushLock, FlushDone, RunTests, PollQuiet,
       Acknowledged, HandshakeSucceeds, PollClosed, PollDropped, PollPingTimeout
  <2>2. Outbox!Write(txbuf)
    BY <1>0, <1>8, KeepImplements DEF CheckConnection, HandshakeFails, FlushLock, FlushDone,
       RunTests, PollQuiet, Acknowledged, HandshakeSucceeds, PollClosed, PollDropped,
       PollPingTimeout
  <2>3. UNCHANGED Handed
    BY <1>0, <2>2, HandedKept
  <2>4. QED
    BY <1>1, <2>1, <2>3
<1>9. CASE Connect \/ Disconnect \/ Controlling \/ UNCHANGED vars
  <2>1. UNCHANGED <<thread, queued, m_offlineQueue, frames>>
    BY <1>9 DEF Connect, Disconnect, Controlling, StopThread, JoinThread, ClearConnected, vars
  <2>2. Outbox!Write(txbuf)
    BY <1>0, <1>9, KeepImplements DEF Connect, Disconnect, Controlling, StopThread, JoinThread,
       ClearConnected, vars
  <2>3. UNCHANGED Handed
    BY <1>0, <2>2, HandedKept
  <2>4. QED
    BY <1>1, <2>1, <2>3
<1>10. QED
  BY <1>0, <1>4, <1>5, <1>6, <1>7, <1>8, <1>9 DEF Next, Quiet, Run

(* Where every frame is, and which of them were queued in which order. *)
THEOREM FramesInvariant == Spec => []FramesInv
<1>1. Init => FramesInv
  <2> SUFFICES ASSUME Init PROVE FramesInv
    OBVIOUS
  <2>1. \A t \in Threads : thread[t].frame = NoFrame /\ thread[t].frame.n = 0
    BY DEF Init, Idle, NoFrame
  <2>2. \A n \in 1 .. frames : FALSE
    BY DEF Init
  <2>3. DOMAIN Handed = {}
    <3>1. Handed \in Seq(Frame) /\ Len(Handed) = 0
      BY ConcatProperties DEF Init, Handed
    <3>2. QED
      BY <3>1
  <2>4. PlaceInv
    BY <2>1, <2>2, <2>3 DEF Init, PlaceInv
  <2>5. QueueInv /\ QueueOrderKept
    BY DEF Init, QueueInv, QueueOrderKept
  <2>6. QED
    BY <2>4, <2>5, OutboxInvInit DEF FramesInv
<1>2. FramesInv /\ [Next]_vars => FramesInv'
  <2> SUFFICES ASSUME FramesInv, [Next]_vars PROVE FramesInv'
    OBVIOUS
  <2>1. OutboxInv'
    BY ChatTypeStep, HoldsStep, UnbrokenStep DEF OutboxInv, FramesInv
  <2>2. PlaceInv'
    BY OutboxStep, PlaceStep DEF OutboxInv, FramesInv
  <2>3. QueueInv' /\ QueueOrderKept'
    BY QueueStep DEF FramesInv
  <2>4. QED
    BY <2>1, <2>2, <2>3 DEF FramesInv
<1>3. QED
  BY <1>1, <1>2, PTL DEF Spec

(* No frame is duplicated and none disappears unrecorded: each is with the  *)
(* thread that sends it, in m_offlineQueue, in _txbuf, on the wire or       *)
(* dropped, in one of them and there once, for any number of threads that   *)
(* send while the queue is flushed, writes fail and the socket reconnects.  *)
THEOREM EachInOnePlace == Spec => []InOnePlace
<1>1. ASSUME NEW S, Single(S) PROVE Cardinality(S) = 1
  BY <1>1, FS_Singleton DEF Single
<1>2. Cardinality({}) = 0
  BY FS_EmptySet
<1>3. PlaceInv => InOnePlace
  <2> SUFFICES ASSUME PlaceInv, NEW n \in 1 .. frames
               PROVE  Cardinality(Holders(n)) + Cardinality(Positions(m_offlineQueue, n))
                        + Cardinality(Positions(Handed, n)) + Cardinality({l \in lost : l.n = n}) = 1
    BY DEF InOnePlace
  <2>1. OnePlace(n)
    BY DEF PlaceInv
  <2> DEFINE h == Cardinality(Holders(n))
             q == Cardinality(Positions(m_offlineQueue, n))
             w == Cardinality(Positions(Handed, n))
             l == Cardinality(Losses(n))
  <2>2. \/ h = 1 /\ q = 0 /\ w = 0 /\ l = 0
        \/ h = 0 /\ q = 1 /\ w = 0 /\ l = 0
        \/ h = 0 /\ q = 0 /\ w = 1 /\ l = 0
        \/ h = 0 /\ q = 0 /\ w = 0 /\ l = 1
    BY <1>1, <1>2, <2>1, Zenon DEF OnePlace
  <2>3. l = Cardinality({e \in lost : e.n = n})
    BY DEF Losses
  <2> HIDE DEF h, q, w, l
  <2>4. h + q + w + l = 1
    BY <2>2
  <2>5. QED
    BY <2>3, <2>4 DEF h, q, w
<1>4. FramesInv => InOnePlace
  BY <1>3 DEF FramesInv
<1>5. QED
  BY <1>4, FramesInvariant, PTL

(* The flush keeps the order of the queue across failed writes and          *)
(* reconnections: of two frames that were queued and handed to the socket,  *)
(* the first queued goes out first.                                         *)
THEOREM OrderKept == Spec => []QueueOrderKept
<1>1. FramesInv => QueueOrderKept
  BY DEF FramesInv
<1>2. QED
  BY <1>1, FramesInvariant, PTL

-----------------------------------------------------------------------------
(* The flush after a connection has opened *)

(* What was in the queue when the connection opened was queued before. *)
DueInv == \A n \in due : \E a \in DOMAIN queued : queued[a] = n

AtOpen == {"opened", "announce"} \cup Flushing

LEMMA DuePush ==
    ASSUME FramesInv, DueInv, FlushedOnOpen, NEW t \in Threads, PushOffline(t)
    PROVE  DueInv' /\ FlushedOnOpen'
<1>0. /\ TypeOK /\ OutboxInv /\ PlaceInv /\ QueueInv /\ thread[t].frame \in Frame
      /\ m_offlineQueue \in Seq(Frame) /\ queued \in Seq(Nat) /\ thread[t].frame.n \in Nat
  BY DEF FramesInv, OutboxInv, TypeOK, Frame
<1>1. PICK f \in Frame : f = thread[t].frame
  BY <1>0
<1>2. /\ queued' = Append(queued, f.n) /\ m_offlineQueue' = Append(m_offlineQueue, f)
      /\ UNCHANGED <<due, loop>>
  BY <1>1 DEF PushOffline
<1>3. t \in Holders(f.n)
  BY <1>1 DEF Holders
<1>4. \A n \in due : n # f.n
  BY <1>0, <1>3 DEF DueInv, QueueInv
<1>5. \A n \in due : Positions(Append(m_offlineQueue, f), n) = Positions(m_offlineQueue, n)
  BY <1>0, <1>4, AppendPositions
<1>6. FlushedOnOpen'
  BY <1>2, <1>5 DEF FlushedOnOpen, Positions
<1>7. \A a \in DOMAIN queued : a \in DOMAIN queued' /\ queued'[a] = queued[a]
  BY <1>0, <1>1, <1>2
<1>8. QED
  BY <1>2, <1>6, <1>7 DEF DueInv

LEMMA DueOpens ==
    ASSUME FramesInv, HandshakeSucceeds
    PROVE  DueInv' /\ FlushedOnOpen'
<1>0. m_offlineQueue \in Seq(Frame) /\ queued \in Seq(Nat) /\ QueueInv
  BY DEF FramesInv, OutboxInv, TypeOK
<1>1. /\ due' = {m_offlineQueue[i].n : i \in DOMAIN m_offlineQueue} /\ queued' = queued
      /\ loop' = "opened"
  BY DEF HandshakeSucceeds, Turn
<1>2. ASSUME NEW i \in DOMAIN m_offlineQueue
      PROVE  \E a \in DOMAIN queued : queued[a] = m_offlineQueue[i].n
  <2>1. PICK a : a = Len(queued) - Len(m_offlineQueue) + i
    OBVIOUS
  <2>2. a \in DOMAIN queued
    BY <1>0, <2>1 DEF QueueInv
  <2>3. QED
    BY <1>0, <2>1, <2>2 DEF QueueInv
<1>3. QED
  BY <1>1, <1>2 DEF DueInv, FlushedOnOpen

LEMMA DueStep ==
    ASSUME FramesInv, DueInv, FlushedOnOpen, [Next]_vars
    PROVE  DueInv' /\ FlushedOnOpen'
<1>0. Background \in Threads /\ Senders \subseteq Threads
  BY DEF Threads
<1>1. ASSUME UNCHANGED <<queued, due>>,
             loop' \in AtOpen \/ (UNCHANGED m_offlineQueue /\ loop \notin AtOpen)
      PROVE  DueInv' /\ FlushedOnOpen'
  BY <1>1 DEF DueInv, FlushedOnOpen, AtOpen, Positions
<1>2. ASSUME UNCHANGED <<queued, due, m_offlineQueue, loop>>
      PROVE  DueInv' /\ FlushedOnOpen'
  BY <1>2 DEF DueInv, FlushedOnOpen, Positions
<1>3. ASSUME NEW t \in Threads, SendRaw(t) PROVE DueInv' /\ FlushedOnOpen'
  <2>1. CASE TestConnected(t) \/ SendConnected(t) \/ SendWrite(t)
    BY <1>2, <2>1 DEF TestConnected, SendConnected, SendWrite
  <2>2. QED
    BY <1>3, <2>1, DuePush DEF SendRaw
<1>4. CASE \E s \in Senders : SendMessage(s) \/ SendSignal(s) \/ Sending(s)
  <2>1. PICK s \in Senders : SendMessage(s) \/ SendSignal(s) \/ Sending(s)
    BY <1>4
  <2>2. CASE SendMessage(s) \/ SendSignal(s) \/ StoreMessage(s)
    BY <1>2, <2>2 DEF SendMessage, SendSignal, StoreMessage
  <2>3. QED
    BY <1>0, <1>3, <2>1, <2>2 DEF Sending
<1>5. CASE OnConnected \/ FlushLock \/ FlushOne \/ FlushWrite
  <2>1. UNCHANGED <<queued, due>> /\ loop' \in AtOpen
    BY <1>5 DEF OnConnected, FlushLock, FlushOne, FlushWrite, Turn, AtOpen, Flushing
  <2>2. QED
    BY <1>1, <2>1
<1>6. CASE FlushDone
  BY <1>6 DEF FlushDone, DueInv, FlushedOnOpen, Positions
<1>7. CASE CheckConnection \/ HandshakeFails \/ RunTests \/ PollQuiet \/ Acknowledged
             \/ PollMessage \/ PollDropped \/ PollPingTimeout \/ PollClosed
  <2>1. UNCHANGED <<queued, due, m_offlineQueue>> /\ loop \notin AtOpen
    BY <1>7 DEF CheckConnection, HandshakeFails, RunTests, PollQuiet, Acknowledged, PollMessage,
       PollDropped, PollPingTimeout, PollClosed, Turn, AtOpen, Flushing
  <2>2. QED
    BY <1>1, <2>1
<1>8. CASE Connect \/ JoinThread
  <2>1. UNCHANGED <<queued, due, m_offlineQueue>> /\ loop \notin AtOpen
    BY <1>8 DEF Connect, StartThread, JoinThread, AtOpen, Flushing
  <2>2. QED
    BY <1>1, <2>1
<1>9. CASE Disconnect \/ StopThread \/ ClearConnected \/ UNCHANGED vars
  BY <1>2, <1>9 DEF Disconnect, StopThread, ClearConnected, vars
<1>10. QED
  BY <1>0, <1>3, <1>4, <1>5, <1>6, <1>7, <1>8, <1>9, DueOpens DEF Next, Quiet, Run, Controlling

(* When the background thread polls for the first time after a connection  *)
(* has opened, nothing that was queued at that moment is still queued, for *)
(* any number of threads that go on queueing and whatever becomes of the   *)
(* connection: the flush of onConnected ends with an empty queue.          *)
THEOREM FlushedBeforePoll == Spec => []FlushedOnOpen
<1>1. Init => DueInv /\ FlushedOnOpen
  BY DEF Init, DueInv, FlushedOnOpen
<1>2. FramesInv /\ DueInv /\ FlushedOnOpen /\ [Next]_vars => (DueInv /\ FlushedOnOpen)'
  BY DueStep
<1>3. QED
  BY <1>1, <1>2, FramesInvariant, PTL DEF Spec

=============================================================================
