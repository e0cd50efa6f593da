------------------------ MODULE ViralChatEngineProofs ------------------------
(***************************************************************************)
(* Proofs about the chat engine, for any number of threads, frames,        *)
(* connections, faults and calls.                                          *)
(***************************************************************************)
EXTENDS ViralChatEngine, SequenceTheorems, TLAPS

USE DEF engineVars, historyVars, socketVars, countVars

(* The frames written and the frames behind them in _txbuf, as one sequence. *)
LEMMA HandedTogether ==
    ASSUME NEW s \in Seq(Frame), NEW t \in Seq(Frame), NEW u \in Seq(Frame)
    PROVE  (s \o t) \o u = s \o (t \o u)
BY ConcatAssociative

LEMMA HandedBehind ==
    ASSUME NEW s \in Seq(Frame), NEW t \in Seq(Frame), NEW f \in Frame
    PROVE  s \o Append(t, f) = Append(s \o t, f)
OBVIOUS

(* However far the operating system gets with what it is given, the wire    *)
(* and _txbuf behind it hold the same frames in the same order, and nothing *)
(* written comes back.                                                      *)
LEMMA WriteKeeps ==
    ASSUME TypeOK, NEW out \in Seq(Frame), WriteOut(out)
    PROVE  /\ wire' \in Seq(Frame) /\ txbuf' \in Seq(Frame)
           /\ wire' \o txbuf' = wire \o out
           /\ Len(wire') >= Len(wire)
<1>1. PICK k \in 0 .. Len(out) : /\ wire' = wire \o SubSeq(out, 1, k)
                                /\ txbuf' = SubSeq(out, k + 1, Len(out))
  BY DEF WriteOut
<1>2. wire \in Seq(Frame) /\ Len(wire) \in Nat /\ Len(out) \in Nat
  BY DEF TypeOK
<1>3. /\ k \in Int /\ k + 1 \in Int /\ Len(out) \in Int
      /\ 1 \in 1 .. Len(out) + 1 /\ k \in (1 - 1) .. Len(out) /\ Len(out) \in k .. Len(out)
  BY <1>2
<1>4. /\ \A i \in 1 .. k : out[i] \in Frame
      /\ \A i \in k + 1 .. Len(out) : out[i] \in Frame
  <2>1. \A i \in 1 .. Len(out) : out[i] \in Frame
    OBVIOUS
  <2>2. /\ \A i \in 1 .. k : i \in 1 .. Len(out)
        /\ \A i \in k + 1 .. Len(out) : i \in 1 .. Len(out)
    BY <1>2
  <2>3. QED
    BY <2>1, <2>2
<1>5. SubSeq(out, 1, k) \in Seq(Frame) /\ SubSeq(out, k + 1, Len(out)) \in Seq(Frame)
  BY <1>3, <1>4, SubSeqProperties
<1>6. SubSeq(out, 1, k) \o SubSeq(out, k + 1, Len(out)) = SubSeq(out, 1, Len(out))
  BY <1>3, ConcatAdjacentSubSeq
<1>7. SubSeq(out, 1, Len(out)) = out
  BY SubSeqFull
<1>8. (wire \o SubSeq(out, 1, k)) \o SubSeq(out, k + 1, Len(out))
        = wire \o (SubSeq(out, 1, k) \o SubSeq(out, k + 1, Len(out)))
  BY <1>2, <1>5, HandedTogether
<1>9. wire \o SubSeq(out, 1, k) \in Seq(Frame)
      /\ Len(wire \o SubSeq(out, 1, k)) = Len(wire) + Len(SubSeq(out, 1, k))
  BY <1>2, <1>5, ConcatProperties
<1>10. Len(SubSeq(out, 1, k)) \in Nat
  BY <1>5
<1>11. Len(wire) + Len(SubSeq(out, 1, k)) >= Len(wire)
  BY <1>2, <1>10
<1>12. QED
  BY <1>1, <1>5, <1>6, <1>7, <1>8, <1>9, <1>11

(* What closing, dropping a frame and writing one do to the socket and the  *)
(* histories keeps their types.                                             *)
LEMMA ClosingTyped ==
    ASSUME TypeOK, BeginClosing
    PROVE  /\ readyState' \in {"OPEN", "CLOSING", "CLOSED"}
           /\ wire' \in Seq(Frame) /\ txbuf' \in Seq(Frame)
<1>0. txbuf \in Seq(Frame)
  BY DEF TypeOK
<1>1. CASE readyState = "OPEN"
  BY <1>0, <1>1, WriteKeeps DEF BeginClosing
<1>2. CASE readyState # "OPEN"
  BY <1>2 DEF TypeOK, BeginClosing
<1>3. QED
  BY <1>1, <1>2

LEMMA RefusedTyped ==
    ASSUME TypeOK, NEW f \in Frame, Refused(f)
    PROVE  /\ readyState' \in {"OPEN", "CLOSING", "CLOSED"}
           /\ wire' \in Seq(Frame) /\ txbuf' \in Seq(Frame)
           /\ lost' \subseteq [n : Nat, why : {"closed", "invalid"}]
           /\ faults' \in Nat
<1>1. f.n \in Nat
  BY DEF Frame
<1>2. CASE readyState # "OPEN" /\ Lose(f, "closed")
             /\ UNCHANGED <<readyState, txbuf, wire, faults>>
  BY <1>1, <1>2 DEF TypeOK, Lose
<1>3. CASE Fault /\ Lose(f, "invalid") /\ BeginClosing
  <2>1. lost' \subseteq [n : Nat, why : {"closed", "invalid"}] /\ faults' \in Nat
    BY <1>1, <1>3 DEF TypeOK, Fault, Lose
  <2>2. QED
    BY <1>3, <2>1, ClosingTyped
<1>4. QED
  BY <1>2, <1>3 DEF Refused

LEMMA WriteTyped ==
    ASSUME TypeOK, NEW f \in Frame, SocketWrite(f)
    PROVE  /\ m_connected' \in BOOLEAN
           /\ readyState' \in {"OPEN", "CLOSING", "CLOSED"}
           /\ wire' \in Seq(Frame) /\ txbuf' \in Seq(Frame)
           /\ faults' \in Nat
<1>0. txbuf \in Seq(Frame) /\ Append(txbuf, f) \in Seq(Frame)
  BY DEF TypeOK
<1>1. CASE WriteOut(Append(txbuf, f)) /\ UNCHANGED <<readyState, m_connected, faults>>
  <2>1. wire' \in Seq(Frame) /\ txbuf' \in Seq(Frame)
    BY <1>0, <1>1, WriteKeeps
  <2>2. QED
    BY <1>1, <2>1 DEF TypeOK
<1>2. CASE /\ Fault /\ WriteOut(Append(txbuf, f))
           /\ IF readyState = "CLOSING" THEN UNCHANGED <<readyState, m_connected>> ELSE SetClosed
  <2>1. wire' \in Seq(Frame) /\ txbuf' \in Seq(Frame)
    BY <1>0, <1>2, WriteKeeps
  <2>2. m_connected' \in BOOLEAN /\ readyState' \in {"OPEN", "CLOSING", "CLOSED"}
    BY <1>2 DEF TypeOK, SetClosed, OnDisconnected
  <2>3. faults' \in Nat
    BY <1>2 DEF TypeOK, Fault
  <2>4. QED
    BY <2>1, <2>2, <2>3
<1>3. CASE txbuf' = Append(txbuf, f) /\ UNCHANGED <<readyState, wire, m_connected, faults>>
  BY <1>0, <1>3 DEF TypeOK
<1>4. QED
  BY <1>1, <1>2, <1>3 DEF SocketWrite

(* A call that makes a frame leaves the thread with a frame. *)
LEMMA MakeTyped ==
    ASSUME TypeOK, NEW t \in Threads, NEW place \in Places, NEW chat \in BOOLEAN,
           MakeFrame(t, place, chat)
    PROVE  /\ thread' \in [Threads -> [pc : Places, frame : Frame]]
           /\ frames' \in Nat
BY DEF TypeOK, MakeFrame, Frame, At

(* The idle value of a thread is one of its values. *)
LEMMA IdleTyped == Idle \in [pc : Places, frame : Frame]
BY DEF Idle, NoFrame, Places, Frame

(* A thread that goes on to another place keeps its frame. *)
LEMMA GotoTyped ==
    ASSUME TypeOK, NEW t \in Threads, NEW place \in Places, Goto(t, place)
    PROVE  thread' \in [Threads -> [pc : Places, frame : Frame]]
<1>1. thread[t] \in [pc : Places, frame : Frame]
  BY DEF TypeOK
<1>2. [thread[t] EXCEPT !.pc = place] \in [pc : Places, frame : Frame]
  BY <1>1
<1>3. QED
  BY <1>2 DEF TypeOK, Goto

(* sendRaw, on any thread, keeps the types. *)
LEMMA SendRawTyped ==
    ASSUME TypeOK, NEW t \in Threads, SendRaw(t)
    PROVE  TypeOK'
<1>1. CASE TestConnected(t)
  <2>1. (IF m_connected THEN "send" ELSE "queue") \in Places
    BY DEF Places
  <2>2. thread' \in [Threads -> [pc : Places, frame : Frame]]
    BY <1>1, <2>1, GotoTyped DEF TestConnected
  <2>3. QED
    BY <1>1, <2>2 DEF TypeOK, TestConnected
<1>2. CASE SendConnected(t)
  <2>1. thread[t].frame \in Frame
    BY DEF TypeOK
  <2>2. CASE Goto(t, "write") /\ UNCHANGED <<readyState, txbuf, wire, lost, faults>>
    <3>1. thread' \in [Threads -> [pc : Places, frame : Frame]]
      BY <2>2, GotoTyped DEF Places
    <3>2. QED
      BY <1>2, <2>2, <3>1 DEF TypeOK, SendConnected
  <2>3. CASE Refused(thread[t].frame) /\ Finish(t)
    <3>1. thread' \in [Threads -> [pc : Places, frame : Frame]]
      BY <2>3, IdleTyped DEF TypeOK, Finish
    <3>2. QED
      BY <1>2, <2>1, <2>3, <3>1, RefusedTyped DEF TypeOK, SendConnected
  <2>4. QED
    BY <1>2, <2>2, <2>3 DEF SendConnected
<1>5. CASE SendWrite(t)
  <2>1. thread[t].frame \in Frame
    BY DEF TypeOK
  <2>2. SocketWrite(thread[t].frame)
    BY <1>5 DEF SendWrite
  <2>3. thread' \in [Threads -> [pc : Places, frame : Frame]]
    BY <1>5, IdleTyped DEF TypeOK, SendWrite, Finish
  <2>4. QED
    BY <1>5, <2>1, <2>2, <2>3, WriteTyped DEF TypeOK, SendWrite
<1>3. CASE PushOffline(t)
  <2>1. thread[t].frame \in Frame /\ thread[t].frame.n \in Nat
    BY DEF TypeOK, Frame
  <2>2. thread' \in [Threads -> [pc : Places, frame : Frame]]
    BY <1>3, IdleTyped DEF TypeOK, PushOffline, Finish
  <2>3. QED
    BY <1>3, <2>1, <2>2 DEF TypeOK, PushOffline
<1>4. QED
  BY <1>1, <1>2, <1>3, <1>5 DEF SendRaw

(* The calls of the sending threads keep the types. *)
LEMMA SenderTyped ==
    ASSUME TypeOK, NEW s \in Senders, SendMessage(s) \/ SendSignal(s) \/ Sending(s)
    PROVE  TypeOK'
<1>0. s \in Threads
  BY DEF Threads
<1>1. CASE SendMessage(s)
  BY <1>0, <1>1, MakeTyped DEF SendMessage, TypeOK, Places
<1>2. CASE SendSignal(s)
  BY <1>0, <1>2, MakeTyped DEF SendSignal, TypeOK, Places
<1>3. CASE StoreMessage(s)
  <2>1. thread[s].frame.n \in Nat
    BY <1>0 DEF TypeOK, Frame
  <2>2. thread' \in [Threads -> [pc : Places, frame : Frame]]
    BY <1>0, <1>3, GotoTyped DEF StoreMessage, Places
  <2>3. QED
    BY <1>3, <2>1, <2>2 DEF TypeOK, StoreMessage
<1>4. CASE SendRaw(s)
  BY <1>0, <1>4, SendRawTyped
<1>5. QED
  BY <1>1, <1>2, <1>3, <1>4 DEF Sending

(* The steps of the background thread keep the types. *)
LEMMA BackgroundTyped ==
    ASSUME TypeOK,
           Run \/ HandshakeSucceeds \/ PollMessage \/ PollDropped \/ PollPingTimeout \/ PollClosed
    PROVE  TypeOK'
<1>0. Background \in Threads
  BY DEF Threads
<1>1. CASE CheckConnection \/ FlushLock \/ FlushDone \/ RunTests \/ Acknowledged
  BY <1>1 DEF TypeOK, CheckConnection, FlushLock, FlushDone, RunTests, Acknowledged, Turn, Loops
<1>10. txbuf \in Seq(Frame)
  BY DEF TypeOK
<1>11. CASE PollQuiet
  <2>1. wire' \in Seq(Frame) /\ txbuf' \in Seq(Frame)
    <3>1. CASE readyState = "CLOSED"
      BY <1>11, <3>1 DEF TypeOK, PollQuiet
    <3>2. CASE readyState # "CLOSED"
      BY <1>10, <1>11, <3>2, WriteKeeps DEF PollQuiet
    <3>3. QED
      BY <3>1, <3>2
  <2>2. QED
    BY <1>11, <2>1 DEF TypeOK, PollQuiet, Turn, Loops
<1>2. CASE HandshakeSucceeds
  <2>1. due' \subseteq Nat
    <3>1. m_offlineQueue \in Seq(Frame)
      BY DEF TypeOK
    <3>2. \A i \in DOMAIN m_offlineQueue : m_offlineQueue[i] \in Frame
      BY <3>1
    <3>3. \A f \in Frame : f.n \in Nat
      BY DEF Frame
    <3>4. due' = {m_offlineQueue[i].n : i \in DOMAIN m_offlineQueue}
      BY <1>2 DEF HandshakeSucceeds
    <3>5. QED
      BY <3>2, <3>3, <3>4
  <2>2. QED
    BY <1>2, <2>1 DEF TypeOK, HandshakeSucceeds, Turn, Loops
<1>3. CASE HandshakeFails
  BY <1>3 DEF TypeOK, HandshakeFails, OnDisconnected, Turn, Loops
<1>4. CASE OnConnected
  BY <1>0, <1>4, MakeTyped DEF TypeOK, OnConnected, BackgroundSends, Turn, Loops, Places
<1>5. CASE FlushOne
  <2>1. Head(m_offlineQueue) \in Frame /\ Tail(m_offlineQueue) \in Seq(Frame)
    BY <1>5 DEF TypeOK, FlushOne
  <2>2. CASE loop' = "write" /\ UNCHANGED <<m_offlineQueue, readyState, txbuf, wire, lost, faults>>
    BY <1>5, <2>2 DEF TypeOK, FlushOne, Loops
  <2>3. CASE /\ Refused(Head(m_offlineQueue)) /\ m_offlineQueue' = Tail(m_offlineQueue)
             /\ loop' = "flush"
    BY <1>5, <2>1, <2>3, RefusedTyped DEF TypeOK, FlushOne, Loops
  <2>4. QED
    BY <1>5, <2>2, <2>3 DEF FlushOne
<1>12. CASE FlushWrite
  <2>0. m_offlineQueue # <<>>
    BY <1>12 DEF FlushWrite
  <2>1. Head(m_offlineQueue) \in Frame /\ Tail(m_offlineQueue) \in Seq(Frame)
    BY <2>0 DEF TypeOK
  <2>2. SocketWrite(Head(m_offlineQueue))
    BY <1>12 DEF FlushWrite
  <2>3. QED
    BY <1>12, <2>1, <2>2, WriteTyped DEF TypeOK, FlushWrite, Loops
<1>6. CASE PollMessage
  <2>1. thread' \in [Threads -> [pc : Places, frame : Frame]] /\ frames' \in Nat
    BY <1>0, <1>6, MakeTyped DEF PollMessage, BackgroundSends, Places
  <2>2. m_messages' \in Seq(Nat)
    BY <1>6 DEF TypeOK, PollMessage, Received
  <2>3. QED
    BY <1>6, <2>1, <2>2 DEF TypeOK, PollMessage, Turn, Loops
<1>7. CASE PollDropped \/ PollPingTimeout \/ PollClosed
  <2>1. m_connected' \in BOOLEAN
    BY <1>7 DEF TypeOK, PollDropped, PollPingTimeout, PollClosed, SetClosed, OnDisconnected
  <2>2. CASE PollDropped
    <3>1. wire' \in Seq(Frame) /\ txbuf' \in Seq(Frame)
      BY <1>10, <2>2, WriteKeeps DEF PollDropped
    <3>2. QED
      BY <2>1, <2>2, <3>1 DEF TypeOK, PollDropped, Turn, Loops, Fault, SetClosed
  <2>3. CASE PollPingTimeout
    <3>1. /\ readyState' \in {"OPEN", "CLOSING", "CLOSED"}
          /\ wire' \in Seq(Frame) /\ txbuf' \in Seq(Frame)
      BY <2>3, ClosingTyped DEF PollPingTimeout
    <3>2. QED
      BY <2>1, <2>3, <3>1 DEF TypeOK, PollPingTimeout, Turn, Loops, Fault
  <2>4. CASE PollClosed
    BY <2>1, <2>4 DEF TypeOK, PollClosed, Turn, Loops, SetClosed
  <2>5. QED
    BY <1>7, <2>2, <2>3, <2>4
<1>8. CASE SendRaw(Background)
  BY <1>0, <1>8, SendRawTyped
<1>9. QED
  BY <1>1, <1>2, <1>3, <1>4, <1>5, <1>6, <1>7, <1>8, <1>11, <1>12 DEF Run

(* connect and disconnect keep the types. *)
LEMMA ControlTyped ==
    ASSUME TypeOK, Connect \/ Disconnect \/ Controlling
    PROVE  TypeOK'
<1>1. CASE Connect
  BY <1>1 DEF TypeOK, Connect, StartThread, ControlCall, Loops
<1>2. CASE Disconnect
  <2>1. /\ readyState' \in {"OPEN", "CLOSING", "CLOSED"}
        /\ wire' \in Seq(Frame) /\ txbuf' \in Seq(Frame)
    BY <1>2, ClosingTyped DEF Disconnect
  <2>2. QED
    BY <1>2, <2>1 DEF TypeOK, Disconnect, ControlCall, Controls
<1>3. CASE StopThread
  <2>1. stopping' \in BOOLEAN
    BY <1>3 DEF StopThread
  <2>2. QED
    BY <1>3, <2>1 DEF TypeOK, StopThread, Controls
<1>4. CASE JoinThread
  BY <1>4 DEF TypeOK, JoinThread, Loops, Controls
<1>5. CASE ClearConnected
  BY <1>5 DEF TypeOK, ClearConnected, Controls
<1>6. QED
  BY <1>1, <1>2, <1>3, <1>4, <1>5 DEF Controlling

(* The types hold at the start. *)
LEMMA ChatTypeInit == Init => TypeOK
<1> SUFFICES ASSUME Init PROVE TypeOK
  OBVIOUS
<1>1. thread \in [Threads -> [pc : Places, frame : Frame]]
  BY IdleTyped DEF Init
<1>2. m_connected \in BOOLEAN /\ stopping \in BOOLEAN
  BY DEF Init
<1>3. QED
  BY <1>1, <1>2 DEF Init, TypeOK, Loops, Controls

(* Every step keeps the types. *)
LEMMA ChatTypeStep == TypeOK /\ [Next]_vars => TypeOK'
<1> SUFFICES ASSUME TypeOK, [Next]_vars PROVE TypeOK'
  OBVIOUS
<1>1. CASE \E s \in Senders : SendMessage(s) \/ SendSignal(s) \/ Sending(s)
  BY <1>1, SenderTyped
<1>2. CASE Run \/ HandshakeSucceeds \/ PollMessage \/ PollDropped \/ PollPingTimeout
             \/ PollClosed
  BY <1>2, BackgroundTyped
<1>3. CASE Connect \/ Disconnect \/ Controlling
  BY <1>3, ControlTyped
<1>4. CASE UNCHANGED vars
  BY <1>4 DEF TypeOK, vars
<1>5. QED
  BY <1>1, <1>2, <1>3, <1>4 DEF Next, Quiet

(* Every variable of the engine and of its socket keeps its type: the       *)
(* background thread and disconnect are always at a known place and the     *)
(* queue and the wire hold frames.                                          *)
THEOREM ChatTypeCorrect == Spec => []TypeOK
<1>1. Init => TypeOK
  BY ChatTypeInit
<1>2. TypeOK /\ [Next]_vars => TypeOK'
  BY ChatTypeStep
<1>3. QED
  BY <1>1, <1>2, PTL DEF Spec

(* Once disconnect has returned the engine stays offline until the next     *)
(* connect: m_connected is cleared after the join, and the only step that   *)
(* sets it is one of the thread that was joined.                            *)
THEOREM OfflineStays == Spec => []OfflineAfterDisconnect
<1>1. Init => OfflineAfterDisconnect
  BY DEF Init, OfflineAfterDisconnect
<1>2. OfflineAfterDisconnect /\ [Next]_vars => OfflineAfterDisconnect'
  <2> SUFFICES ASSUME OfflineAfterDisconnect, [Next]_vars PROVE OfflineAfterDisconnect'
    OBVIOUS
  <2>1. ASSUME NEW f, SocketWrite(f) PROVE m_connected' = m_connected \/ ~m_connected'
    BY <2>1 DEF SocketWrite, SetClosed, OnDisconnected
  <2>2. ASSUME NEW t, SendRaw(t) PROVE OfflineAfterDisconnect'
    BY <2>1, <2>2 DEF OfflineAfterDisconnect, SendRaw, TestConnected, SendConnected, SendWrite,
       PushOffline
  <2>3. CASE \E s \in Senders : SendMessage(s) \/ SendSignal(s) \/ Sending(s)
    BY <2>2, <2>3 DEF OfflineAfterDisconnect, SendMessage, SendSignal, Sending, StoreMessage
  <2>4. CASE Run \/ HandshakeSucceeds \/ PollMessage \/ PollDropped \/ PollPingTimeout
               \/ PollClosed
    BY <2>2, <2>4 DEF OfflineAfterDisconnect, Run, CheckConnection, HandshakeFails, OnConnected,
       FlushLock, FlushOne, FlushWrite, FlushDone, RunTests, PollQuiet, Acknowledged, HandshakeSucceeds,
       PollMessage, PollDropped, PollPingTimeout, PollClosed, Turn
  <2>5. CASE Connect \/ Disconnect \/ Controlling
    BY <2>5 DEF OfflineAfterDisconnect, Connect, StartThread, Disconnect, Controlling, StopThread,
       JoinThread, ClearConnected, ControlCall
  <2>6. CASE UNCHANGED vars
    BY <2>6 DEF OfflineAfterDisconnect, vars
  <2>7. QED
    BY <2>3, <2>4, <2>5, <2>6 DEF Next, Quiet
<1>3. QED
  BY <1>1, <1>2, PTL DEF Spec

=============================================================================
