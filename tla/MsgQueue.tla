------------------------------ MODULE MsgQueue ------------------------------
(***************************************************************************)
(* The message queue of the vendored player (ff_ffmsg_queue.h) is a        *)
(* sequence: msg_queue_put appends to it and msg_queue_get takes its head. *)
(* A request replaces those that wait.                                     *)
(***************************************************************************)
EXTENDS Naturals, Sequences

(* msg_queue_remove: what is left of the queue, message by message.  It is  *)
(* a recursive function, and not SelectSeq, for the proofs.                 *)
Without(queue, removed) ==
    LET left[n \in 0 .. Len(queue)] ==
            IF n = 0 THEN <<>>
            ELSE IF queue[n] \in removed THEN left[n - 1]
            ELSE Append(left[n - 1], queue[n])
    IN  left[Len(queue)]
=============================================================================
