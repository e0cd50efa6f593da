--------------------------- MODULE IjkMediaPlayer ---------------------------
(***************************************************************************)
(* The vendored player as the feed uses it: what each ijkmp_ function does *)
(* to one IjkMediaPlayer under its mutex (ijkmedia/ijkplayer/ijkplayer.c), *)
(* its message queue (ff_ffmsg_queue.h) and the messages the read thread   *)
(* of ff_ffplay.c posts.  A player is a value; the operators return the    *)
(* player after the call.                                                  *)
(*                                                                         *)
(* Messages are the ones the feed's loop or ijkmp_get_msg acts on:         *)
(* PREPARED, STATE (FFP_MSG_PLAYBACK_STATE_CHANGED), COMPLETED and ERROR,  *)
(* and the requests START and PAUSE.                                       *)
(***************************************************************************)
EXTENDS Naturals, Sequences, MsgQueue

MpState == {"ASYNC_PREPARING", "PAUSED", "STARTED", "COMPLETED", "STOPPED", "ERROR"}

Message == {"PREPARED", "STATE", "COMPLETED", "ERROR", "START", "PAUSE"}

(* asleep: the loops that wait on the queue's condition; woken: those of    *)
(* them that were signalled and have not run yet.  stream: what the read    *)
(* thread has left to say of the file.  index: the video it was created     *)
(* for; started: it has played; both are history.                           *)
Player == [mp_state : MpState, msgs : Seq(Message), abort : BOOLEAN, ref : Nat,
           asleep : Nat, woken : Nat,
           stream : {"opening", "waiting", "open", "over"}, index : Nat, started : BOOLEAN]

(* SDL_CondWait. *)
Sleep(p) == [p EXCEPT !.asleep = @ + 1]

(* SDL_CondSignal wakes one waiter, if there is one. *)
Signal(p) ==
    IF p.asleep = 0 THEN p ELSE [p EXCEPT !.asleep = @ - 1, !.woken = @ + 1]

(* msg_queue_put: dropped once the queue is aborted. *)
Put(p, m) == IF p.abort THEN p ELSE Signal([p EXCEPT !.msgs = Append(@, m)])

(* ijkmp_change_state_l notifies of every state.  The loop acts on the      *)
(* notification only if the player plays by then, and it is the loop itself *)
(* that changes the state when it takes a request, in the order of the      *)
(* queue: only the notification of STARTED ever matters.                    *)
ChangeState(p, s) ==
    LET q == [p EXCEPT !.mp_state = s] IN IF s = "STARTED" THEN Put(q, "STATE") ELSE q

(* ijkmp_create, set_data_source and prepare_async: one reference for the   *)
(* caller, one "released in msg_loop"; the state messages before            *)
(* msg_queue_start are dropped.  opens: ffp_prepare_async_l succeeded.      *)
Prepared(index, opens) ==
    LET p == [mp_state |-> "ASYNC_PREPARING", msgs |-> <<>>, abort |-> FALSE, ref |-> 2,
              asleep |-> 0, woken |-> 0,
              stream |-> IF opens THEN "opening" ELSE "over", index |-> index,
              started |-> FALSE]
    IN  IF opens THEN p ELSE ChangeState(p, "ERROR")

(* ikjmp_chkst_start_l and ikjmp_chkst_pause_l accept the same states. *)
Startable(p) == p.mp_state \in {"STARTED", "PAUSED", "COMPLETED"}

(* A new request replaces the ones that wait. *)
Request(p, req) ==
    IF Startable(p)
    THEN Put([p EXCEPT !.msgs = Without(@, {"START", "PAUSE"})], req)
    ELSE p

Start(p) == Request(p, "START")

PausePlayer(p) == Request(p, "PAUSE")

(* msg_queue_abort: of the loops that wait on the queue one is woken. *)
Abort(p) == Signal([p EXCEPT !.abort = TRUE])

(* Mutant: the queue is aborted, and signalled, once. *)
ReleaseOnce(p) ==
    [Abort(p) EXCEPT !.mp_state = IF @ = "ERROR" THEN @ ELSE "STOPPED",
                     !.msgs = <<>>, !.stream = "over", !.ref = @ - 1]

(* ijkmp_stop, ijkmp_shutdown and ijkmp_dec_ref_p in a row.  stop and       *)
(* shutdown abort the queue, so that two waiters are woken; stop does       *)
(* nothing in the state ERROR.  What is in the queue is never read; the     *)
(* stream is closed and the caller's reference given back.                  *)
Release(p) ==
    LET stopped == IF p.mp_state = "ERROR" THEN p
                   ELSE [Abort(p) EXCEPT !.mp_state = "STOPPED"]
    IN  [Abort(stopped) EXCEPT !.msgs = <<>>, !.stream = "over", !.ref = @ - 1]

IsPlaying(p) == p.mp_state = "STARTED"

(* ijkmp_get_msg on the first message.  start-on-prepared is 0, so a        *)
(* prepared player passes through PREPARED to PAUSED in one critical        *)
(* section; START on a completed player plays from the beginning.           *)
GetMsg(p) ==
    LET m    == Head(p.msgs)
        rest == [p EXCEPT !.msgs = Tail(@)]
    IN  CASE m = "PREPARED"  -> ChangeState(rest, "PAUSED")
          [] m = "COMPLETED" -> ChangeState(rest, "COMPLETED")
          [] m = "START"     -> IF Startable(p)
                                THEN ChangeState([rest EXCEPT !.stream = IF @ = "over" THEN "open" ELSE @,
                                                              !.started = TRUE], "STARTED")
                                ELSE rest
          [] m = "PAUSE"     -> IF Startable(p) THEN ChangeState(rest, "PAUSED") ELSE rest
          [] OTHER           -> rest

(* The read thread: the file was opened, and it waits for the first start   *)
(* to ask for it once more; the file could not be opened, or failed; it was *)
(* played to its end.                                                       *)
Opens(p, waits) == Put([p EXCEPT !.stream = IF waits THEN "waiting" ELSE "open"], "PREPARED")

Resumes(p) == Put([p EXCEPT !.stream = "open"], "START")

Fails(p) == Put([p EXCEPT !.stream = "over"], "ERROR")

Ends(p) == Put([p EXCEPT !.stream = "over"], "COMPLETED")
=============================================================================
