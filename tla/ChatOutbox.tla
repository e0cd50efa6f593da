----------------------------- MODULE ChatOutbox -----------------------------
(***************************************************************************)
(* What the chat engine promises about the frames it is given, with the    *)
(* connection, its callbacks and its background thread left out.           *)
(*                                                                         *)
(* A frame is taken by a call, on some thread.  The call hands it to the   *)
(* socket, queues it or drops it; a queued frame leaves the queue from the *)
(* front, once.  What the socket was handed goes out in order; a frame it  *)
(* could not write stays with it, also when the connection breaks, and     *)
(* goes out later.  Frames are dropped only when the connection has been   *)
(* broken: by the network, by a payload the socket refuses, or by          *)
(* disconnect.                                                             *)
(***************************************************************************)
EXTENDS Naturals, Sequences

CONSTANTS
    Threads,     \* the threads that send
    NoFrame,     \* what a thread without a frame holds
    Reasons      \* why a frame is lost

VARIABLES
    holding,     \* the frame each thread is sending
    queue,       \* m_offlineQueue
    buffer,      \* the frames the socket was handed and has not sent
    sent,        \* the frames it has sent, in order
    lost,        \* the frames nobody holds any more
    made,        \* how many frames were taken
    broken       \* the connection was broken at least once

outboxVars == <<holding, queue, buffer, sent, lost, made, broken>>

OutboxInit ==
    /\ holding = [t \in Threads |-> NoFrame]
    /\ queue = <<>>
    /\ buffer = <<>>
    /\ sent = <<>>
    /\ lost = {}
    /\ made = 0
    /\ broken = FALSE

(* A call of the application or of the background thread makes a frame. *)
Take(t) ==
    /\ holding[t] = NoFrame
    /\ \E chat \in BOOLEAN :
           holding' = [holding EXCEPT ![t] = [n |-> made + 1, chat |-> chat]]
    /\ made' = made + 1
    /\ UNCHANGED <<queue, buffer, sent, lost, broken>>

Release(t) == holding[t] # NoFrame /\ holding' = [holding EXCEPT ![t] = NoFrame]

(* The socket has out to send: it sends some of it, from the front, and     *)
(* keeps the rest.                                                          *)
Write(out) ==
    /\ sent' \o buffer' = sent \o out
    /\ Len(sent') >= Len(sent)

MayBreak == broken' \in {broken, TRUE}

(* The frame is handed to the socket, or the connection is found broken and *)
(* it is gone.                                                              *)
SendOrLose(f) ==
    \/ Write(Append(buffer, f)) /\ MayBreak /\ UNCHANGED lost
    \/ /\ broken' = TRUE
       /\ \E why \in Reasons : lost' = lost \cup {[n |-> f.n, why |-> why]}
       /\ Write(buffer)

Send(t) ==
    /\ Release(t)
    /\ SendOrLose(holding[t])
    /\ UNCHANGED <<queue, made>>

Queue(t) ==
    /\ Release(t)
    /\ queue' = Append(queue, holding[t])
    /\ UNCHANGED <<buffer, sent, lost, made, broken>>

Flush ==
    /\ queue # <<>>
    /\ SendOrLose(Head(queue))
    /\ queue' = Tail(queue)
    /\ UNCHANGED <<holding, made>>

(* The socket sends what it kept, the network fails, disconnect is called. *)
Network ==
    /\ Write(buffer)
    /\ MayBreak
    /\ UNCHANGED <<holding, queue, lost, made>>

OutboxNext ==
    \/ \E t \in Threads : Take(t) \/ Send(t) \/ Queue(t)
    \/ Flush
    \/ Network

OutboxSpec == OutboxInit /\ [][OutboxNext]_outboxVars
=============================================================================
