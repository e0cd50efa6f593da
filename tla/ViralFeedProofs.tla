--------------------------- MODULE ViralFeedProofs ---------------------------
(***************************************************************************)
(* Proofs about the feed, for pools, feeds and preload counts of any size  *)
(* and for any number of players, calls and failures.                      *)
(***************************************************************************)
EXTENDS ViralFeed, MsgQueueProofs, TLAPS

(* A player that was not released still has the reference of its slot, and  *)
(* a slot that holds a player holds one that was not released.              *)
PoolInv ==
    /\ \A k \in DOMAIN players : ~players[k].abort => players[k].ref = 2
    /\ \A s \in Slots : pool[s].mp # NoPlayer /\ ~destroyed => ~players[pool[s].mp].abort

(* Inside scroll_to the index is one of the list; from its second part on   *)
(* the current slot holds the current video.                                *)
ScrollInv ==
    /\ ui.pc # "idle" => current_index \in 0 .. url_count - 1 /\ ui.i >= 1 /\ ~destroyed
    /\ current_index >= 0 => current_index \in visited
    /\ current_index >= 0 /\ ui.pc # "current" => Loaded(current_index)

(* A loop that runs has a player of the slot it writes to.  One that goes   *)
(* through the handler of PREPARED has a player that can be started, and    *)
(* starts it for a video that was visited, unless it was released.          *)
LoopOK(l, ps, seen) ==
    LET p == ps[l.mp]
    IN  /\ l.pc \in {"wait", "asleep"} \cup Handling => l.mp # NoPlayer
        /\ l.mp # NoPlayer => PoolSlot(p.index) = l.slot
        /\ l.pc \in {"PREPARED", "compare", "start"} => p.abort \/ Startable(p)
        /\ l.pc = "start" => p.abort \/ p.index \in seen

LoopInv == \A k \in DOMAIN loops : LoopOK(loops[k], players, visited)

(* No request to start waits for a video that was not visited. *)
NoStart(p) == p.msgs \in Seq(Message \ {"START"})
HasStart(p) == \E i \in DOMAIN p.msgs : p.msgs[i] = "START"

StartOK(p, seen) ==
    /\ IsPlaying(p) => p.started
    /\ p.index \in seen \/ (~p.started /\ NoStart(p))

StartInv == \A k \in DOMAIN players : StartOK(players[k], visited)

(* READY is the state of a player that can be started. *)
IsReady(slot) == slot.mp # NoPlayer /\ slot.state = "READY" /\ ~slot.tainted

ReadyInv == ~destroyed => \A s \in Slots : IsReady(pool[s]) => Startable(players[pool[s].mp])

(* The start of the player m: done, unwanted, requested, or still to be     *)
(* requested by a loop that compares.                                       *)
Prompted(m, ps, ls, paused) ==
    \/ ps[m].started
    \/ paused
    \/ HasStart(ps[m])
    \/ \E k \in DOMAIN ls : ls[k].mp = m /\ ls[k].pc \in {"compare", "start"}

PromptInv ==
    current_index >= 0 /\ ui.pc # "current" /\ ~destroyed /\ IsReady(CurrentSlot)
        => Prompted(CurrentSlot.mp, players, loops, userPaused)

FeedInv ==
    /\ TypeOK /\ PoolInv /\ DroppedIsStopped /\ ScrollInv /\ LoopInv /\ StartInv /\ ReadyInv
    /\ PromptInv

-----------------------------------------------------------------------------
(* The players *)

(* q is the player p after a call that leaves it in its slot. *)
Kept(p, q) ==
    /\ q \in Player
    /\ q.abort = p.abort /\ q.ref = p.ref /\ q.index = p.index
    /\ p.started => q.started
    /\ Startable(p) => Startable(q)
    /\ (IsPlaying(p) => p.started) => (IsPlaying(q) => q.started)

(* A call that asks for no start. *)
Unasked(p, q) == Kept(p, q) /\ (~p.started /\ NoStart(p) => ~q.started /\ NoStart(q))

(* A call that takes back no request to start. *)
Asked(p, q) == HasStart(p) /\ Startable(p) /\ ~p.abort => HasStart(q) \/ q.started

LEMMA AppendStart ==
    ASSUME NEW s \in Seq(Message), NEW m \in Message
    PROVE  /\ Append(s, m) \in Seq(Message)
           /\ m = "START" => \E i \in DOMAIN Append(s, m) : Append(s, m)[i] = "START"
           /\ (\E i \in DOMAIN s : s[i] = "START")
                  => \E i \in DOMAIN Append(s, m) : Append(s, m)[i] = "START"
<1>1. /\ Append(s, m) \in Seq(Message) /\ Len(s) \in Nat
      /\ DOMAIN s = 1 .. Len(s) /\ DOMAIN Append(s, m) = 1 .. Len(s) + 1
      /\ Append(s, m)[Len(s) + 1] = m /\ \A i \in 1 .. Len(s) : Append(s, m)[i] = s[i]
  OBVIOUS
<1>2. Len(s) + 1 \in 1 .. Len(s) + 1 /\ 1 .. Len(s) \subseteq 1 .. Len(s) + 1
  BY <1>1
<1> QED BY <1>1, <1>2

(* q is p but for the loops that wait. *)
SameButWaiting(p, q) ==
    /\ q \in Player /\ q.msgs = p.msgs /\ q.mp_state = p.mp_state /\ q.stream = p.stream
    /\ q.abort = p.abort /\ q.ref = p.ref /\ q.index = p.index /\ q.started = p.started

(* What the condition variable of the queue does. *)
LEMMA SignalIs ==
    ASSUME NEW p \in Player
    PROVE  SameButWaiting(p, Signal(p)) /\ SameButWaiting(p, Sleep(p))
<1>1. SameButWaiting(p, Sleep(p))
  BY DEF Sleep, Player, SameButWaiting
<1>2. CASE p.asleep = 0
  <2>1. Signal(p) = p
    BY <1>2 DEF Signal
  <2> QED BY <1>1, <2>1 DEF SameButWaiting
<1>3. CASE p.asleep # 0
  <2> DEFINE x == p.asleep - 1
  <2> DEFINE y == p.woken + 1
  <2> DEFINE q == [p EXCEPT !.asleep = x, !.woken = y]
  <2>1. Signal(p) = q
    BY <1>3 DEF Signal, Player
  <2>2. x \in Nat /\ y \in Nat
    BY <1>3 DEF Player
  <2> HIDE DEF x, y
  <2>3. q \in Player
    BY <2>2 DEF Player
  <2>4. /\ q.msgs = p.msgs /\ q.mp_state = p.mp_state /\ q.stream = p.stream
        /\ q.abort = p.abort /\ q.ref = p.ref /\ q.index = p.index /\ q.started = p.started
    BY DEF Player
  <2> HIDE DEF q
  <2> QED BY <1>1, <2>1, <2>3, <2>4 DEF SameButWaiting
<1> QED BY <1>1, <1>2, <1>3

(* What msg_queue_abort does. *)
LEMMA AbortIs ==
    ASSUME NEW p \in Player
    PROVE  /\ Abort(p) \in Player /\ Abort(p).abort /\ Abort(p).mp_state = p.mp_state
           /\ Abort(p).ref = p.ref /\ Abort(p).index = p.index /\ Abort(p).started = p.started
<1> DEFINE r == [p EXCEPT !.abort = TRUE]
<1>1. /\ r \in Player /\ r.abort /\ r.mp_state = p.mp_state
      /\ r.ref = p.ref /\ r.index = p.index /\ r.started = p.started
  BY DEF Player
<1>2. Abort(p) = Signal(r)
  BY DEF Abort
<1> HIDE DEF r
<1> QED BY <1>1, <1>2, SignalIs DEF SameButWaiting

(* What msg_queue_put does. *)
LEMMA PutKeeps ==
    ASSUME NEW p \in Player, NEW m \in Message
    PROVE  /\ Put(p, m) \in Player
           /\ Put(p, m).abort = p.abort /\ Put(p, m).ref = p.ref /\ Put(p, m).index = p.index
           /\ Put(p, m).started = p.started /\ Put(p, m).mp_state = p.mp_state
           /\ Put(p, m).stream = p.stream
           /\ (m # "START" \/ p.abort) /\ NoStart(p) => NoStart(Put(p, m))
           /\ HasStart(p) => HasStart(Put(p, m))
           /\ m = "START" /\ ~p.abort => HasStart(Put(p, m))
<1>1. p.msgs \in Seq(Message)
  BY DEF Player
<1>2. CASE p.abort
  BY <1>2 DEF Put
<1>3. CASE ~p.abort
  <2> DEFINE q == Put(p, m)
  <2> DEFINE r == [p EXCEPT !.msgs = Append(p.msgs, m)]
  <2>1. q = Signal(r)
    BY <1>3 DEF Put, Player
  <2>2. Append(p.msgs, m) \in Seq(Message)
    BY <1>1
  <2>6. /\ r \in Player /\ r.msgs = Append(p.msgs, m)
        /\ r.abort = p.abort /\ r.ref = p.ref /\ r.index = p.index
        /\ r.started = p.started /\ r.mp_state = p.mp_state /\ r.stream = p.stream
    BY <2>2 DEF Player
  <2> HIDE DEF r
  <2>3. /\ q \in Player /\ q.msgs = Append(p.msgs, m)
        /\ q.abort = p.abort /\ q.ref = p.ref /\ q.index = p.index
        /\ q.started = p.started /\ q.mp_state = p.mp_state /\ q.stream = p.stream
    BY <2>1, <2>6, SignalIs DEF SameButWaiting
  <2>4. m # "START" /\ NoStart(p) => Append(p.msgs, m) \in Seq(Message \ {"START"})
    BY DEF NoStart
  <2> HIDE DEF q
  <2>5. HasStart(p) \/ m = "START" => HasStart(q)
    BY <1>1, <2>3, AppendStart DEF HasStart
  <2> QED BY <1>3, <2>3, <2>4, <2>5 DEF NoStart, q
<1> QED BY <1>2, <1>3 DEF Player

(* What ijkmp_change_state_l does. *)
LEMMA ChangeStateKeeps ==
    ASSUME NEW p \in Player, NEW s \in MpState
    PROVE  LET q == ChangeState(p, s)
           IN  /\ q \in Player /\ q.mp_state = s
               /\ q.abort = p.abort /\ q.ref = p.ref /\ q.index = p.index
               /\ q.started = p.started
               /\ NoStart(p) => NoStart(q)
               /\ HasStart(p) => HasStart(q)
<1> DEFINE r == [p EXCEPT !.mp_state = s]
<1>1. /\ r \in Player /\ r.mp_state = s /\ r.abort = p.abort /\ r.ref = p.ref
      /\ r.index = p.index /\ r.started = p.started /\ r.msgs = p.msgs
  BY DEF Player
<1>2. ChangeState(p, s) = IF s = "STARTED" THEN Put(r, "STATE") ELSE r
  BY DEF ChangeState
<1>3. (NoStart(p) <=> NoStart(r)) /\ (HasStart(p) <=> HasStart(r))
  BY <1>1 DEF NoStart, HasStart
<1>4. "STATE" \in Message
  BY DEF Message
<1> HIDE DEF r
<1>5. CASE s = "STARTED"
  BY <1>1, <1>2, <1>3, <1>4, <1>5, PutKeeps
<1>6. CASE s # "STARTED"
  BY <1>1, <1>2, <1>3, <1>6
<1> QED BY <1>5, <1>6

(* What ijkmp_start and ijkmp_pause do: the new request replaces the rest. *)
LEMMA RequestKeeps ==
    ASSUME NEW p \in Player, NEW req \in {"START", "PAUSE"}
    PROVE  /\ Kept(p, Request(p, req))
           /\ Request(p, req).started = p.started
           /\ req = "PAUSE" \/ p.abort => Unasked(p, Request(p, req))
           /\ req = "START" /\ Startable(p) /\ ~p.abort => HasStart(Request(p, req))
           /\ req = "START" => Asked(p, Request(p, req))
<1>1. CASE ~Startable(p)
  BY <1>1 DEF Request, Kept, Unasked, Asked
<1>2. CASE Startable(p)
  <2> DEFINE r == [p EXCEPT !.msgs = Without(p.msgs, {"START", "PAUSE"})]
  <2> DEFINE q == Request(p, req)
  <2>1. q = Put(r, req)
    BY <1>2 DEF Request, Player
  <2>2. Without(p.msgs, {"START", "PAUSE"}) \in Seq(Message)
    BY WithoutType DEF Player
  <2>3. NoStart(p) => Without(p.msgs, {"START", "PAUSE"}) \in Seq(Message \ {"START"})
    BY WithoutType DEF NoStart
  <2>4. /\ r \in Player /\ r.mp_state = p.mp_state /\ r.abort = p.abort /\ r.ref = p.ref
        /\ r.index = p.index /\ r.started = p.started
        /\ NoStart(p) => NoStart(r)
    BY <2>2, <2>3 DEF Player, NoStart
  <2>5. req \in Message
    BY DEF Message
  <2> HIDE DEF r
  <2>6. /\ q \in Player /\ q.mp_state = p.mp_state /\ q.abort = p.abort /\ q.ref = p.ref
        /\ q.index = p.index /\ q.started = p.started
        /\ (req # "START" \/ p.abort) /\ NoStart(p) => NoStart(q)
        /\ req = "START" /\ ~p.abort => HasStart(q)
    BY <2>1, <2>4, <2>5, PutKeeps
  <2> HIDE DEF q
  <2>7. Kept(p, q) /\ (req = "PAUSE" \/ p.abort => Unasked(p, q)) /\ (req = "START" => Asked(p, q))
    BY <2>6 DEF Kept, Unasked, Asked, Startable, IsPlaying
  <2> QED BY <2>6, <2>7 DEF q
<1> QED BY <1>1, <1>2

(* What the read thread does to the player. *)
LEMMA StreamKeeps ==
    ASSUME NEW p \in Player, NEW waits \in BOOLEAN
    PROVE  /\ Unasked(p, Opens(p, waits)) /\ Asked(p, Opens(p, waits))
           /\ Unasked(p, Fails(p)) /\ Asked(p, Fails(p))
           /\ Unasked(p, Ends(p)) /\ Asked(p, Ends(p))
           /\ Kept(p, Resumes(p)) /\ Asked(p, Resumes(p)) /\ Resumes(p).started = p.started
<1>1. ASSUME NEW to \in {"opening", "waiting", "open", "over"}, NEW m \in Message
      PROVE  LET q == Put([p EXCEPT !.stream = to], m)
             IN  Kept(p, q) /\ Asked(p, q) /\ q.started = p.started
                 /\ (m # "START" => Unasked(p, q))
  <2> DEFINE r == [p EXCEPT !.stream = to]
  <2>1. /\ r \in Player /\ r.mp_state = p.mp_state /\ r.abort = p.abort /\ r.ref = p.ref
        /\ r.index = p.index /\ r.started = p.started /\ r.msgs = p.msgs
    BY DEF Player
  <2>2. (NoStart(p) <=> NoStart(r)) /\ (HasStart(p) <=> HasStart(r))
    BY <2>1 DEF NoStart, HasStart
  <2> HIDE DEF r
  <2> DEFINE q == Put(r, m)
  <2>3. /\ q \in Player /\ q.mp_state = p.mp_state /\ q.abort = p.abort /\ q.ref = p.ref
        /\ q.index = p.index /\ q.started = p.started
        /\ m # "START" /\ NoStart(p) => NoStart(q)
        /\ HasStart(p) => HasStart(q)
    BY <2>1, <2>2, PutKeeps
  <2> HIDE DEF q
  <2>4. Kept(p, q) /\ Asked(p, q) /\ q.started = p.started /\ (m # "START" => Unasked(p, q))
    BY <2>3 DEF Kept, Unasked, Asked, Startable, IsPlaying
  <2> QED BY <2>4 DEF q, r
<1>2. /\ "PREPARED" \in Message /\ "ERROR" \in Message /\ "COMPLETED" \in Message
      /\ "START" \in Message
  BY DEF Message
<1>3. Unasked(p, Opens(p, waits)) /\ Asked(p, Opens(p, waits))
  BY <1>1, <1>2 DEF Opens
<1>4. Unasked(p, Fails(p)) /\ Asked(p, Fails(p))
  BY <1>1, <1>2 DEF Fails
<1>5. Unasked(p, Ends(p)) /\ Asked(p, Ends(p))
  BY <1>1, <1>2 DEF Ends
<1>6. Kept(p, Resumes(p)) /\ Asked(p, Resumes(p)) /\ Resumes(p).started = p.started
  BY <1>1, <1>2 DEF Resumes
<1> QED BY <1>3, <1>4, <1>5, <1>6

(* What ijkmp_get_msg does with the first message. *)
LEMMA GetMsgKeeps ==
    ASSUME NEW p \in Player, p.msgs # <<>>
    PROVE  /\ Unasked(p, GetMsg(p)) /\ Asked(p, GetMsg(p))
           /\ Head(p.msgs) = "PREPARED" => Startable(GetMsg(p))
           /\ Head(p.msgs) \in Message
<1> DEFINE m == Head(p.msgs)
<1> DEFINE rest == [p EXCEPT !.msgs = Tail(p.msgs)]
<1> DEFINE q == GetMsg(p)
<1>1. p.msgs \in Seq(Message) /\ m \in Message /\ Tail(p.msgs) \in Seq(Message) /\ m = p.msgs[1]
  BY DEF Player
<1>2. /\ rest \in Player /\ rest.mp_state = p.mp_state /\ rest.abort = p.abort
      /\ rest.ref = p.ref /\ rest.index = p.index /\ rest.started = p.started
      /\ rest.msgs = Tail(p.msgs)
  BY <1>1 DEF Player
<1>3. NoStart(p) => NoStart(rest) /\ m # "START"
  <2>1. ASSUME NoStart(p)
        PROVE  Tail(p.msgs) \in Seq(Message \ {"START"}) /\ Head(p.msgs) \in Message \ {"START"}
    BY <2>1 DEF NoStart
  <2> HIDE DEF rest
  <2> QED BY <1>2, <2>1 DEF NoStart
<1>4. HasStart(p) => HasStart(rest) \/ m = "START"
  <2>1. ASSUME NEW i \in DOMAIN p.msgs, i # 1
        PROVE  i - 1 \in DOMAIN Tail(p.msgs) /\ Tail(p.msgs)[i - 1] = p.msgs[i]
    BY <1>1, <2>1
  <2> HIDE DEF rest
  <2> QED BY <1>1, <1>2, <2>1 DEF HasStart
<1>5. \A s \in {"PAUSED", "COMPLETED", "STARTED"} : s \in MpState
  BY DEF MpState
<1>6. CASE m = "PREPARED" \/ m = "COMPLETED" \/ (m = "PAUSE" /\ Startable(p))
  <2>1. PICK s \in {"PAUSED", "COMPLETED"} : q = ChangeState(rest, s)
    BY <1>6, <1>2 DEF GetMsg, Player
  <2> HIDE DEF q, rest
  <2>2. /\ q \in Player /\ q.mp_state = s /\ q.abort = p.abort /\ q.ref = p.ref
        /\ q.index = p.index /\ q.started = p.started
        /\ NoStart(rest) => NoStart(q)
        /\ HasStart(rest) => HasStart(q)
    BY <1>2, <1>5, <2>1, ChangeStateKeeps
  <2>3. Startable(q) /\ ~IsPlaying(q)
    BY <2>2 DEF Startable, IsPlaying
  <2> QED BY <1>1, <1>3, <1>4, <1>6, <2>2, <2>3 DEF q, Unasked, Asked, Kept
<1>7. CASE m = "START" /\ Startable(p)
  <2> DEFINE r == [rest EXCEPT !.stream = IF @ = "over" THEN "open" ELSE @, !.started = TRUE]
  <2>1. q = ChangeState(r, "STARTED")
    BY <1>7, <1>2 DEF GetMsg, Player
  <2> HIDE DEF rest
  <2>2. /\ r \in Player /\ r.abort = p.abort /\ r.ref = p.ref /\ r.index = p.index /\ r.started
    BY <1>2 DEF Player
  <2> HIDE DEF q, r
  <2>3. /\ q \in Player /\ q.mp_state = "STARTED" /\ q.abort = p.abort /\ q.ref = p.ref
        /\ q.index = p.index /\ q.started
    BY <1>5, <2>1, <2>2, ChangeStateKeeps
  <2> QED BY <1>1, <1>3, <1>7, <2>3 DEF q, Unasked, Asked, Kept, Startable
<1>8. CASE m \notin {"PREPARED", "COMPLETED"} /\ ~(m \in {"START", "PAUSE"} /\ Startable(p))
  <2>1. q = rest
    BY <1>8, <1>2 DEF GetMsg, Player
  <2> HIDE DEF q, rest
  <2> QED BY <1>1, <1>2, <1>3, <1>4, <1>8, <2>1
          DEF q, Unasked, Asked, Kept, Startable, IsPlaying
<1> QED BY <1>6, <1>7, <1>8

(* The end of a player that still has the reference of its slot. *)
LEMMA ReleaseEnds ==
    ASSUME NEW p \in Player, p.ref = 2
    PROVE  LET q == Release(p)
           IN  /\ q \in Player /\ q.abort /\ q.index = p.index /\ q.started = p.started
               /\ ~IsPlaying(q) /\ NoStart(q)
<1>1. <<>> \in Seq(Message) /\ <<>> \in Seq(Message \ {"START"})
  OBVIOUS
<1> DEFINE a == [Abort(p) EXCEPT !.mp_state = "STOPPED"]
<1> DEFINE r == IF p.mp_state = "ERROR" THEN p ELSE a
<1> DEFINE b == Abort(r)
<1> DEFINE q == [b EXCEPT !.msgs = <<>>, !.stream = "over", !.ref = 1]
<1>2. Abort(p) \in Player /\ "STOPPED" \in MpState
  BY AbortIs DEF MpState
<1>3. a \in Player /\ a.mp_state = "STOPPED" /\ a.ref = Abort(p).ref
      /\ a.index = Abort(p).index /\ a.started = Abort(p).started
  BY <1>2 DEF Player
<1> HIDE DEF a
<1>4. /\ r \in Player /\ r.mp_state # "STARTED" /\ r.ref = 2
      /\ r.index = p.index /\ r.started = p.started
  BY <1>3, AbortIs
<1>5. Release(p) = [Abort(r) EXCEPT !.msgs = <<>>, !.stream = "over", !.ref = @ - 1]
  BY DEF Release, a
<1> HIDE DEF r
<1>6. /\ b \in Player /\ b.abort /\ b.mp_state # "STARTED"
      /\ b.ref = 2 /\ b.index = p.index /\ b.started = p.started
  BY <1>4, AbortIs
<1> HIDE DEF b
<1>7. Release(p) = q
  BY <1>5, <1>6 DEF Player, b
<1>8. /\ q \in Player /\ q.abort /\ q.index = p.index /\ q.started = p.started
      /\ q.mp_state # "STARTED" /\ q.msgs = <<>>
  BY <1>1, <1>6 DEF Player
<1> HIDE DEF q
<1> QED BY <1>1, <1>7, <1>8 DEF IsPlaying, NoStart

(* The player that viral_player_init_slot makes. *)
LEMMA PreparedIs ==
    ASSUME NEW index \in Nat, NEW opens \in BOOLEAN
    PROVE  LET q == Prepared(index, opens)
           IN  /\ q \in Player /\ ~q.abort /\ q.ref = 2 /\ q.index = index /\ ~q.started
               /\ ~IsPlaying(q) /\ NoStart(q)
<1> DEFINE p == [mp_state |-> "ASYNC_PREPARING", msgs |-> <<>>, abort |-> FALSE, ref |-> 2,
                 asleep |-> 0, woken |-> 0,
                 stream |-> IF opens THEN "opening" ELSE "over", index |-> index,
                 started |-> FALSE]
<1>1. <<>> \in Seq(Message) /\ <<>> \in Seq(Message \ {"START"})
  OBVIOUS
<1>2. /\ p \in Player /\ ~p.abort /\ p.ref = 2 /\ p.index = index /\ ~p.started
      /\ p.mp_state = "ASYNC_PREPARING" /\ NoStart(p)
  BY <1>1 DEF Player, MpState, NoStart
<1>3. Prepared(index, opens) = IF opens THEN p ELSE ChangeState(p, "ERROR")
  BY DEF Prepared
<1> HIDE DEF p
<1>4. "ERROR" \in MpState
  BY DEF MpState
<1>5. CASE opens
  BY <1>2, <1>3, <1>5 DEF IsPlaying
<1>6. CASE ~opens
  BY <1>2, <1>3, <1>4, <1>6, ChangeStateKeeps DEF IsPlaying
<1> QED BY <1>5, <1>6

-----------------------------------------------------------------------------
(* Steps that neither make nor release a player *)

(* The residues of the pool. *)
LEMMA PoolSlots ==
    ASSUME NEW index \in Nat
    PROVE  PoolSlot(index) \in Slots
<1>1. PoolSize \in Nat /\ PoolSize > 0
  BY FeedAssumption
<1> QED BY <1>1 DEF PoolSlot, Slots

(* Indices closer to each other than the size of the pool have slots of     *)
(* their own.                                                               *)
LEMMA OtherSlot ==
    ASSUME NEW a \in Nat, NEW i \in 1 .. PoolSize - 1
    PROVE  PoolSlot(a + i) # PoolSlot(a)
<1> DEFINE n == PoolSize
<1>1. n \in Nat /\ n > 0
  BY FeedAssumption
<1>2. \A x \in Nat : \E d \in Int : x = n * d + (x % n)
  BY <1>1
<1>3. SUFFICES ASSUME (a + i) % n = a % n PROVE FALSE
  BY DEF PoolSlot
<1>4. PICK d \in Int : a = n * d + (a % n)
  BY <1>2
<1>5. PICK e \in Int : a + i = n * e + ((a + i) % n)
  BY <1>1, <1>2
<1>6. i = n * e - n * d
  BY <1>1, <1>3, <1>4, <1>5
<1>7. n * e - n * d = n * (e - d)
  BY <1>1
<1>8. CASE e - d <= 0
  <2>1. n * (e - d) <= 0
    BY <1>1, <1>8
  <2> QED BY <1>1, <1>6, <1>7, <2>1
<1>9. CASE e - d >= 1
  <2>1. n * (e - d) >= n
    BY <1>1, <1>9
  <2> QED BY <1>1, <1>6, <1>7, <2>1
<1> QED BY <1>8, <1>9

(* What a player may become in any step: released, or kept. *)
Passed(p, q) ==
    /\ q \in Player /\ q.index = p.index
    /\ p.abort => q.abort
    /\ Startable(p) => Startable(q) \/ q.abort

LEMMA LoopPasses ==
    ASSUME NEW l, NEW ps, NEW qs, NEW seen, NEW now, seen \subseteq now,
           l.mp # NoPlayer => Passed(ps[l.mp], qs[l.mp]), LoopOK(l, ps, seen)
    PROVE  LoopOK(l, qs, now)
<1>1. CASE l.mp = NoPlayer
  BY <1>1 DEF LoopOK, Handling
<1>2. CASE l.mp # NoPlayer
  BY <1>2 DEF LoopOK, Passed
<1> QED BY <1>1, <1>2

(* One player changes and is kept. *)
LEMMA OnePlayer ==
    ASSUME TypeOK, NEW m \in DOMAIN players, NEW q, Kept(players[m], q),
           players' = [players EXCEPT ![m] = q]
    PROVE  /\ players' \in Seq(Player) /\ DOMAIN players' = DOMAIN players
           /\ players'[m] = q
           /\ \A k \in DOMAIN players : k # m => players'[k] = players[k]
           /\ \A k \in DOMAIN players : Kept(players[k], players'[k])
<1>1. players \in Seq(Player) /\ q \in Player
  BY DEF TypeOK, Kept
<1>2. /\ players' \in Seq(Player) /\ DOMAIN players' = DOMAIN players /\ players'[m] = q
      /\ \A k \in DOMAIN players : k # m => players'[k] = players[k]
  BY <1>1
<1>3. \A k \in DOMAIN players : Kept(players[k], players[k])
  <2>1. \A k \in DOMAIN players : players[k] \in Player
    BY <1>1
  <2> QED BY <2>1 DEF Kept
<1> QED BY <1>2, <1>3

LoopType == [pc : LoopPlaces, mp : DOMAIN players \cup {NoPlayer}, slot : Slots]

CalmPlayers ==
    /\ players' \in Seq(Player) /\ DOMAIN players' = DOMAIN players
    /\ \A k \in DOMAIN players : Kept(players[k], players'[k])

SameVideos ==
    /\ pool' \in [Slots -> Slot]
    /\ \A s \in Slots : pool'[s].mp = pool[s].mp /\ pool'[s].feed_index = pool[s].feed_index

(* The variables that neither the pool nor a thread depends on. *)
RestTypes ==
    /\ urls \in Seq(Int) /\ current_index \in Nat \cup {-1}
    /\ ui \in [pc : {"idle", "current", "preload", "release"}, i : Nat]
    /\ destroyed \in BOOLEAN /\ outOfBounds \in BOOLEAN /\ visited \subseteq Nat
    /\ userPaused \in BOOLEAN /\ faults \in Nat

LEMMA CalmTypes ==
    ASSUME FeedInv, CalmPlayers, SameVideos, RestTypes', destroyed' = destroyed,
           loops' \in Seq(LoopType), DOMAIN loops' = DOMAIN loops
    PROVE  TypeOK' /\ PoolInv' /\ DroppedIsStopped'
<1>1. \A k \in DOMAIN players : /\ players'[k].index = players[k].index
                                /\ players'[k].abort = players[k].abort
                                /\ players'[k].ref = players[k].ref
  BY DEF CalmPlayers, Kept
<1>2. \A s \in Slots : pool[s].mp # NoPlayer =>
          /\ pool[s].mp \in DOMAIN players
          /\ pool[s].feed_index = players[pool[s].mp].index
          /\ PoolSlot(pool[s].feed_index) = s
  BY DEF FeedInv, TypeOK
<1>3. \A s \in Slots : pool'[s].mp # NoPlayer =>
          /\ pool'[s].mp \in DOMAIN players'
          /\ pool'[s].feed_index = players'[pool'[s].mp].index
          /\ PoolSlot(pool'[s].feed_index) = s
  BY <1>1, <1>2 DEF SameVideos, CalmPlayers
<1>4. loops' \in Seq([pc : LoopPlaces, mp : DOMAIN players' \cup {NoPlayer}, slot : Slots])
  BY DEF CalmPlayers, LoopType
<1>5. TypeOK'
  BY <1>3, <1>4 DEF TypeOK, FeedInv, CalmPlayers, SameVideos, RestTypes
<1>6. PoolInv'
  BY <1>1, <1>2 DEF PoolInv, FeedInv, SameVideos, CalmPlayers
<1>7. DroppedIsStopped'
  BY <1>1 DEF DroppedIsStopped, FeedInv, SameVideos, CalmPlayers
<1> QED BY <1>5, <1>6, <1>7

LEMMA LoopTypes ==
    ASSUME TypeOK, NEW k \in DOMAIN loops
    PROVE  loops[k] \in LoopType
<1>1. loops \in Seq(LoopType)
  BY DEF TypeOK, LoopType
<1> QED BY <1>1

LEMMA CalmLoops ==
    ASSUME FeedInv, CalmPlayers, visited \subseteq visited', DOMAIN loops' = DOMAIN loops,
           \A k \in DOMAIN loops : loops'[k] = loops[k] \/ LoopOK(loops'[k], players', visited')
    PROVE  LoopInv'
<1> SUFFICES ASSUME NEW k \in DOMAIN loops, loops'[k] = loops[k]
             PROVE  LoopOK(loops[k], players', visited')
  BY DEF LoopInv
<1>1. loops[k].mp # NoPlayer => loops[k].mp \in DOMAIN players
  BY LoopTypes DEF FeedInv, LoopType
<1>2. loops[k].mp # NoPlayer => Passed(players[loops[k].mp], players'[loops[k].mp])
  BY <1>1 DEF CalmPlayers, Kept, Passed
<1>3. LoopOK(loops[k], players, visited)
  BY DEF FeedInv, LoopInv
<1> QED BY <1>2, <1>3, LoopPasses

LEMMA CalmStart ==
    ASSUME FeedInv, CalmPlayers, visited \subseteq visited',
           \A k \in DOMAIN players :
               players[k].index \in visited' \/ Unasked(players[k], players'[k])
    PROVE  StartInv'
BY DEF FeedInv, StartInv, StartOK, CalmPlayers, Kept, Unasked

LEMMA CalmReady ==
    ASSUME FeedInv, CalmPlayers, SameVideos, destroyed' = destroyed,
           \A s \in Slots : IsReady(pool'[s]) =>
               IsReady(pool[s]) \/ Startable(players[pool[s].mp])
    PROVE  ReadyInv'
<1> SUFFICES ASSUME ~destroyed, NEW s \in Slots, IsReady(pool'[s])
             PROVE  Startable(players'[pool'[s].mp])
  BY DEF ReadyInv
<1>1. pool'[s].mp = pool[s].mp /\ pool[s].mp \in DOMAIN players
  BY DEF SameVideos, FeedInv, TypeOK, IsReady
<1>2. Startable(players[pool[s].mp])
  BY DEF FeedInv, ReadyInv
<1> QED BY <1>1, <1>2 DEF CalmPlayers, Kept

LEMMA CalmScroll ==
    ASSUME FeedInv, SameVideos, UNCHANGED <<urls, current_index, ui, destroyed>>,
           visited \subseteq visited'
    PROVE  ScrollInv'
<1>1. current_index >= 0 => PoolSlot(current_index) \in Slots
  BY PoolSlots DEF FeedInv, TypeOK
<1> QED BY <1>1 DEF FeedInv, ScrollInv, SameVideos, Loaded, Covered, url_count

(* The current slot, from the second part of a scroll_to on. *)
LEMMA TheCurrent ==
    ASSUME FeedInv, current_index >= 0, ui.pc # "current"
    PROVE  /\ PoolSlot(current_index) \in Slots
           /\ CurrentSlot.mp \in DOMAIN players /\ CurrentSlot.mp # NoPlayer
           /\ CurrentSlot.feed_index = current_index
           /\ players[CurrentSlot.mp].index = current_index
           /\ players[CurrentSlot.mp] \in Player
           /\ current_index \in visited
           /\ ~destroyed => ~players[CurrentSlot.mp].abort
           /\ ~destroyed /\ IsReady(CurrentSlot) => Startable(players[CurrentSlot.mp])
<1>1. PoolSlot(current_index) \in Slots
  BY PoolSlots DEF FeedInv, TypeOK
<1>2. Loaded(current_index) /\ current_index \in visited
  BY DEF FeedInv, ScrollInv
<1>3. CurrentSlot.mp # NoPlayer /\ CurrentSlot.feed_index = current_index
  BY <1>2 DEF Loaded, Covered, CurrentSlot
<1>4. CurrentSlot.mp \in DOMAIN players /\ players[CurrentSlot.mp].index = current_index
  BY <1>1, <1>3 DEF FeedInv, TypeOK, CurrentSlot
<1>5. players[CurrentSlot.mp] \in Player
  BY <1>4 DEF FeedInv, TypeOK
<1>6. ~destroyed => ~players[CurrentSlot.mp].abort
  BY <1>1, <1>3 DEF FeedInv, PoolInv, CurrentSlot
<1>7. ~destroyed /\ IsReady(CurrentSlot) => Startable(players[CurrentSlot.mp])
  BY <1>1 DEF FeedInv, ReadyInv, CurrentSlot
<1> QED BY <1>1, <1>2, <1>3, <1>4, <1>5, <1>6, <1>7

LEMMA CalmPrompt ==
    ASSUME FeedInv, CalmPlayers, SameVideos, UNCHANGED <<current_index, ui, destroyed>>,
           userPaused => userPaused',
           \A s \in Slots : s = PoolSlot(current_index) /\ IsReady(pool'[s]) => IsReady(pool[s]),
           \A k \in DOMAIN players : Asked(players[k], players'[k]),
           DOMAIN loops' = DOMAIN loops,
           \A k \in DOMAIN loops : loops'[k] = loops[k] \/ loops[k].pc \notin {"compare", "start"}
    PROVE  PromptInv'
<1> SUFFICES ASSUME current_index >= 0, ui.pc # "current", ~destroyed, IsReady(CurrentSlot')
             PROVE  Prompted(CurrentSlot'.mp, players', loops', userPaused')
  BY DEF PromptInv
<1> DEFINE m == CurrentSlot.mp
<1>1. /\ PoolSlot(current_index) \in Slots /\ m \in DOMAIN players /\ ~players[m].abort
      /\ IsReady(CurrentSlot) => Startable(players[m])
  BY TheCurrent
<1>2. IsReady(CurrentSlot) /\ CurrentSlot'.mp = m
  BY <1>1 DEF SameVideos, CurrentSlot
<1>3. Prompted(m, players, loops, userPaused)
  BY <1>2 DEF FeedInv, PromptInv
<1>4. players[m].started => players'[m].started
  BY <1>1 DEF CalmPlayers, Kept
<1>5. HasStart(players[m]) => HasStart(players'[m]) \/ players'[m].started
  BY <1>1, <1>2 DEF Asked
<1> HIDE DEF m
<1> QED BY <1>2, <1>3, <1>4, <1>5 DEF Prompted

(* Nothing happens to the players. *)
LEMMA PlayersStay ==
    ASSUME FeedInv, UNCHANGED players
    PROVE  /\ CalmPlayers
           /\ \A k \in DOMAIN players : Unasked(players[k], players'[k])
           /\ \A k \in DOMAIN players : Asked(players[k], players'[k])
<1>1. players \in Seq(Player)
  BY DEF FeedInv, TypeOK
<1>2. \A k \in DOMAIN players : players[k] \in Player
  BY <1>1
<1> QED BY <1>1, <1>2 DEF CalmPlayers, Kept, Unasked, Asked

LEMMA VideosStay ==
    ASSUME FeedInv, UNCHANGED pool
    PROVE  SameVideos /\ \A s \in Slots : IsReady(pool'[s]) => IsReady(pool[s])
BY DEF FeedInv, TypeOK, SameVideos

LEMMA LoopsStay ==
    ASSUME FeedInv, UNCHANGED loops
    PROVE  /\ loops' \in Seq(LoopType) /\ DOMAIN loops' = DOMAIN loops
           /\ \A k \in DOMAIN loops : loops'[k] = loops[k]
BY DEF FeedInv, TypeOK, LoopType

(* A call on one player: the thread that makes it changes no other state    *)
(* that the invariant speaks of, but for userPaused.                        *)
LEMMA OneCall ==
    ASSUME FeedInv, NEW m \in DOMAIN players, NEW q,
           players' = [players EXCEPT ![m] = q],
           UNCHANGED <<urls, pool, current_index, ui, loops, destroyed, visited>>,
           outOfBounds' \in BOOLEAN, userPaused' \in BOOLEAN, faults' \in Nat,
           Kept(players[m], q),
           players[m].index \in visited \/ Unasked(players[m], q),
           PromptInv' \/ (Asked(players[m], q) /\ (userPaused => userPaused'))
    PROVE  FeedInv'
<1>0. TypeOK
  BY DEF FeedInv
<1>1. /\ CalmPlayers /\ players'[m] = q
      /\ \A k \in DOMAIN players : k # m => players'[k] = players[k]
  BY <1>0, OnePlayer DEF CalmPlayers
<1>2. RestTypes'
  BY <1>0 DEF TypeOK, RestTypes
<1>3. TypeOK' /\ PoolInv' /\ DroppedIsStopped'
  BY <1>1, <1>2, VideosStay, LoopsStay, CalmTypes
<1>4. LoopInv'
  BY <1>1, LoopsStay, CalmLoops
<1>5. \A k \in DOMAIN players : k # m =>
          Unasked(players[k], players'[k]) /\ Asked(players[k], players'[k])
  BY <1>1 DEF CalmPlayers, Unasked, Asked
<1>6. StartInv'
  BY <1>1, <1>5, CalmStart
<1>7. ReadyInv'
  BY <1>1, VideosStay, CalmReady
<1>8. ScrollInv'
  BY VideosStay, CalmScroll
<1>9. PromptInv'
  BY <1>1, <1>5, VideosStay, LoopsStay, CalmPrompt
<1> QED BY <1>3, <1>4, <1>6, <1>7, <1>8, <1>9 DEF FeedInv

LEMMA ReadKeeps ==
    ASSUME FeedInv, NEW k \in DOMAIN players, ReadThread(k)
    PROVE  FeedInv'
<1> DEFINE p == players[k]
<1>1. p \in Player
  BY DEF FeedInv, TypeOK
<1>2. /\ UNCHANGED <<urls, pool, current_index, ui, loops, destroyed, visited, outOfBounds, userPaused>>
      /\ faults' \in Nat /\ outOfBounds \in BOOLEAN /\ userPaused \in BOOLEAN
  BY DEF ReadThread, FileOpens, FileResumes, FileFails, FileEnds, readFrame, FeedInv, TypeOK
<1>3. CASE FileOpens(k) \/ FileFails(k) \/ FileEnds(k)
  <2>1. PICK q : /\ players' = [players EXCEPT ![k] = q]
                 /\ q \in {Opens(p, TRUE), Opens(p, FALSE), Fails(p), Ends(p)}
    BY <1>3 DEF FileOpens, FileFails, FileEnds, Opens
  <2>2. Unasked(p, q) /\ Asked(p, q)
    BY <1>1, <2>1, StreamKeeps
  <2> QED BY <1>2, <2>1, <2>2, OneCall DEF Unasked
<1>4. CASE FileResumes(k)
  <2>1. players' = [players EXCEPT ![k] = Resumes(p)] /\ IsPlaying(p)
    BY <1>4 DEF FileResumes
  <2>2. Kept(p, Resumes(p)) /\ Asked(p, Resumes(p))
    BY <1>1, StreamKeeps
  <2>3. p.index \in visited
    BY <2>1 DEF FeedInv, StartInv, StartOK
  <2> QED BY <1>2, <2>1, <2>2, <2>3, OneCall
<1> QED BY <1>3, <1>4 DEF ReadThread

(* play, pause and the calls that leave the player as it is. *)
LEMMA ControlKeeps ==
    ASSUME FeedInv, Play \/ Pause \/ Touch
    PROVE  FeedInv'
<1> DEFINE m == CurrentSlot.mp
<1> DEFINE p == players[m]
<1>0. /\ UNCHANGED <<urls, pool, current_index, ui, loops, destroyed, visited, faults>>
      /\ ui.pc = "idle" /\ ~destroyed /\ outOfBounds' = (current_index < 0)
      /\ userPaused' \in {TRUE, FALSE, userPaused}
  BY DEF Play, Pause, Touch, Control, Idle
<1>1. /\ UNCHANGED <<urls, pool, current_index, ui, loops, destroyed, visited, faults>>
      /\ ui.pc = "idle" /\ ~destroyed /\ outOfBounds' \in BOOLEAN /\ userPaused' \in BOOLEAN
      /\ faults' \in Nat /\ current_index \in Nat \cup {-1}
  <2>1. userPaused \in BOOLEAN /\ faults \in Nat /\ current_index \in Nat \cup {-1}
    BY DEF FeedInv, TypeOK
  <2>2. userPaused' \in BOOLEAN
    BY <1>0, <2>1
  <2>3. (current_index < 0) \in BOOLEAN
    BY <2>1
  <2> QED BY <1>0, <2>1, <2>2, <2>3
<1>2. CASE current_index < 0
  <2>1. UNCHANGED players
    BY <1>2 DEF Play, Pause, Touch, Control
  <2>2. RestTypes'
    BY <1>1 DEF RestTypes, FeedInv, TypeOK
  <2>3. TypeOK' /\ PoolInv' /\ DroppedIsStopped'
    BY <1>1, <2>1, <2>2, PlayersStay, VideosStay, LoopsStay, CalmTypes
  <2>4. LoopInv' /\ StartInv' /\ ReadyInv' /\ ScrollInv'
    BY <1>1, <2>1, PlayersStay, VideosStay, LoopsStay, CalmLoops, CalmStart, CalmReady, CalmScroll
  <2>5. PromptInv'
    BY <1>1, <1>2 DEF PromptInv
  <2> QED BY <2>3, <2>4, <2>5 DEF FeedInv
<1>3. CASE current_index >= 0
  <2>0. ~(current_index < 0)
    BY <1>1, <1>3
  <2>1. /\ m \in DOMAIN players /\ m # NoPlayer /\ p \in Player /\ p.index \in visited
        /\ ~p.abort /\ (IsReady(CurrentSlot) => Startable(p))
    BY <1>1, <1>3, TheCurrent
  <2>2. CASE Touch
    <3>1. players' = [players EXCEPT ![m] = p] /\ userPaused' = userPaused
      BY <2>0, <2>1, <2>2 DEF Touch, Control, OnPlayer
    <3>2. Kept(p, p) /\ Asked(p, p)
      BY <2>1 DEF Kept, Asked
    <3> QED BY <1>1, <2>1, <3>1, <3>2, OneCall
  <2>3. CASE Play
    <3> DEFINE q == Start(p)
    <3>1. players' = [players EXCEPT ![m] = q]
      BY <2>0, <2>1, <2>3 DEF Play, Control, OnPlayer
    <3>2. Kept(p, q) /\ (Startable(p) => HasStart(q))
      BY <2>1, RequestKeeps DEF Start
    <3> HIDE DEF q
    <3>3. players'[m] = q
      BY <2>1, <3>1, <3>2, OnePlayer DEF FeedInv
    <3>4. PromptInv'
      <4>1. CurrentSlot' = CurrentSlot
        BY <1>1 DEF CurrentSlot
      <4> QED BY <2>1, <3>2, <3>3, <4>1 DEF PromptInv, Prompted
    <3> QED BY <1>1, <2>1, <3>1, <3>2, <3>4, OneCall
  <2>4. CASE Pause
    <3> DEFINE q == PausePlayer(p)
    <3>1. players' = [players EXCEPT ![m] = q] /\ userPaused'
      BY <2>0, <2>1, <2>4 DEF Pause, Control, OnPlayer
    <3>2. Kept(p, q)
      BY <2>1, RequestKeeps DEF PausePlayer
    <3>3. PromptInv'
      BY <3>1 DEF PromptInv, Prompted
    <3> HIDE DEF q
    <3> QED BY <1>1, <2>1, <3>1, <3>2, <3>3, OneCall
  <2> QED BY <2>2, <2>3, <2>4
<1> QED BY <1>1, <1>2, <1>3

-----------------------------------------------------------------------------
(* The message loops *)

(* A step of the loop k, by what it leaves. *)
LEMMA ThreadStep ==
    ASSUME FeedInv, UNCHANGED loopFrame, CalmPlayers, SameVideos, NEW k \in DOMAIN loops,
           NEW l \in LoopType, loops' = [loops EXCEPT ![k] = l],
           LoopOK(l, players', visited),
           \A j \in DOMAIN players :
               players[j].index \in visited \/ Unasked(players[j], players'[j]),
           \A s \in Slots : IsReady(pool'[s]) =>
               IsReady(pool[s]) \/ destroyed \/ Startable(players[pool[s].mp]),
           PromptInv' \/ (/\ \A s \in Slots : IsReady(pool'[s]) => IsReady(pool[s])
                          /\ \A j \in DOMAIN players : Asked(players[j], players'[j])
                          /\ loops[k].pc \notin {"compare", "start"})
    PROVE  FeedInv'
<1>1. UNCHANGED <<urls, current_index, ui, destroyed, visited, userPaused>> /\ RestTypes'
  BY DEF loopFrame, FeedInv, TypeOK, RestTypes
<1>2. loops \in Seq(LoopType)
  BY DEF FeedInv, TypeOK, LoopType
<1>3. /\ loops' \in Seq(LoopType) /\ DOMAIN loops' = DOMAIN loops /\ loops'[k] = l
      /\ \A j \in DOMAIN loops : j # k => loops'[j] = loops[j]
  BY <1>2
<1>4. TypeOK' /\ PoolInv' /\ DroppedIsStopped'
  BY <1>1, <1>3, CalmTypes
<1>5. LoopInv'
  BY <1>1, <1>3, CalmLoops
<1>6. StartInv'
  BY <1>1, CalmStart
<1>7. ReadyInv'
  <2>1. CASE destroyed
    BY <1>1, <2>1 DEF ReadyInv
  <2>2. CASE ~destroyed
    BY <1>1, <2>2, CalmReady
  <2> QED BY <2>1, <2>2
<1>8. ScrollInv'
  BY <1>1, CalmScroll
<1>9. PromptInv'
  BY <1>1, <1>3, CalmPrompt
<1> QED BY <1>4, <1>5, <1>6, <1>7, <1>8, <1>9 DEF FeedInv

LEMMA GoToIs ==
    ASSUME TypeOK, NEW k \in DOMAIN loops, NEW place \in LoopPlaces, GoTo(k, place)
    PROVE  LET l == [loops[k] EXCEPT !.pc = place]
           IN  /\ loops' = [loops EXCEPT ![k] = l] /\ l \in LoopType
               /\ l.pc = place /\ l.mp = loops[k].mp /\ l.slot = loops[k].slot
               /\ DOMAIN loops' = DOMAIN loops /\ loops'[k] = l
               /\ \A j \in DOMAIN loops : j # k => loops'[j] = loops[j]
<1>1. loops[k] \in LoopType /\ loops \in Seq(LoopType)
  BY LoopTypes DEF TypeOK, LoopType
<1>2. [loops[k] EXCEPT !.pc = place] \in LoopType
  BY <1>1 DEF LoopType
<1> QED BY <1>1, <1>2 DEF GoTo, LoopType

LEMMA SetSlotStateIs ==
    ASSUME TypeOK, NEW k \in DOMAIN loops, NEW state \in ViralState, SetSlotState(k, state)
    PROVE  LET s == loops[k].slot
           IN  /\ SameVideos /\ s \in Slots
               /\ \A r \in Slots : r # s => pool'[r] = pool[r]
               /\ pool'[s].state = state
               /\ ~pool'[s].tainted => ~pool[s].tainted /\ pool[s].mp = loops[k].mp
<1> DEFINE s == loops[k].slot
<1> DEFINE t == pool[s].tainted \/ pool[s].mp # loops[k].mp
<1>1. s \in Slots
  BY LoopTypes DEF LoopType
<1>2. pool \in [Slots -> Slot] /\ pool[s] \in Slot
  BY <1>1 DEF TypeOK
<1>3. pool' = [pool EXCEPT ![s] = [pool[s] EXCEPT !.state = state, !.tainted = t]]
  BY <1>1, <1>2 DEF SetSlotState, Slot
<1>4. t \in BOOLEAN
  OBVIOUS
<1>5. ~t => ~pool[s].tainted /\ pool[s].mp = loops[k].mp
  OBVIOUS
<1> HIDE DEF s, t
<1>6. LET x == [pool[s] EXCEPT !.state = state, !.tainted = t]
      IN  /\ x \in Slot /\ x.mp = pool[s].mp /\ x.feed_index = pool[s].feed_index
          /\ x.state = state /\ x.tainted = t
  BY <1>2, <1>4 DEF Slot
<1>7. SameVideos
  BY <1>1, <1>2, <1>3, <1>6 DEF SameVideos
<1>8. pool'[s].state = state /\ pool'[s].tainted = t /\ \A r \in Slots : r # s => pool'[r] = pool[r]
  BY <1>1, <1>2, <1>3, <1>6
<1> QED BY <1>1, <1>5, <1>7, <1>8 DEF s

LEMMA LoopStartKeeps ==
    ASSUME FeedInv, NEW k \in DOMAIN loops, LoopStart(k)
    PROVE  FeedInv'
<1> DEFINE s == loops[k].slot
<1> DEFINE m == pool[s].mp
<1> DEFINE place == IF LoopArgument = "player" \/ destroyed \/ m = NoPlayer THEN "wild" ELSE "wait"
<1> DEFINE l == [loops[k] EXCEPT !.mp = m, !.pc = place]
<1>1. loops[k] \in LoopType /\ s \in Slots /\ loops[k].pc = "starting"
  BY LoopTypes DEF FeedInv, LoopType, LoopStart, At
<1>2. m # NoPlayer => /\ m \in DOMAIN players
                      /\ pool[s].feed_index = players[m].index
                      /\ PoolSlot(pool[s].feed_index) = s
  BY <1>1 DEF FeedInv, TypeOK
<1>3. place \in {"wild", "wait"} /\ place \in LoopPlaces /\ (place = "wait" => m # NoPlayer)
  BY DEF LoopPlaces
<1>4. loops' = [loops EXCEPT ![k] = l]
  BY <1>1 DEF LoopStart, LoopType
<1> HIDE DEF place, m
<1>5. l \in LoopType /\ l.mp = m /\ l.pc = place /\ l.slot = s
  BY <1>1, <1>2, <1>3 DEF LoopType
<1>6. UNCHANGED loopFrame /\ UNCHANGED pool /\ UNCHANGED players
  BY DEF LoopStart
<1> HIDE DEF l
<1>7. LoopOK(l, players', visited)
  BY <1>2, <1>3, <1>5, <1>6 DEF LoopOK, Handling
<1> QED BY <1>1, <1>4, <1>5, <1>6, <1>7, PlayersStay, VideosStay, ThreadStep

(* The loop leaves its handler for the feed that was freed. *)
LEMMA LoopWildKeeps ==
    ASSUME FeedInv, NEW k \in DOMAIN loops, LoopWild(k)
    PROVE  FeedInv'
<1> DEFINE l == [loops[k] EXCEPT !.pc = "wild"]
<1>1. UNCHANGED loopFrame /\ UNCHANGED pool /\ UNCHANGED players /\ destroyed /\ GoTo(k, "wild")
  BY DEF LoopWild
<1>2. /\ loops' = [loops EXCEPT ![k] = l] /\ l \in LoopType
      /\ l.pc = "wild" /\ l.mp = loops[k].mp /\ l.slot = loops[k].slot
  BY <1>1, GoToIs DEF FeedInv, LoopPlaces
<1> HIDE DEF l
<1>3. LoopOK(loops[k], players, visited)
  BY DEF FeedInv, LoopInv
<1>4. LoopOK(l, players', visited)
  BY <1>1, <1>2, <1>3 DEF LoopOK, Handling
<1>5. PromptInv'
  BY <1>1 DEF PromptInv, loopFrame
<1> QED BY <1>1, <1>2, <1>4, <1>5, PlayersStay, VideosStay, ThreadStep

(* A loop that has the queue's mutex. *)
LEMMA AwakeIs ==
    ASSUME NEW k, AtQueue(k), players[loops[k].mp] \in Player
    PROVE  SameButWaiting(players[loops[k].mp], Awake(k))
<1> DEFINE p == players[loops[k].mp]
<1>1. CASE At(k, "wait")
  BY <1>1 DEF Awake, SameButWaiting
<1>2. CASE ~At(k, "wait")
  <2>1. p.woken > 0 /\ Awake(k) = [p EXCEPT !.woken = p.woken - 1]
    BY <1>2 DEF Awake, AtQueue, Player
  <2> HIDE DEF p
  <2>2. p.woken - 1 \in Nat
    BY <2>1 DEF Player, p
  <2> QED BY <2>1, <2>2 DEF Player, SameButWaiting, p
<1> QED BY <1>1, <1>2

(* What comes of the three cases of msg_queue_get. *)
LEMMA GotMsg ==
    ASSUME NEW p \in Player, NEW a, SameButWaiting(p, a)
    PROVE  /\ Unasked(p, a) /\ Asked(p, a)
           /\ Unasked(p, Sleep(a)) /\ Asked(p, Sleep(a))
           /\ a.msgs # <<>> =>
                 /\ Unasked(p, GetMsg(a)) /\ Asked(p, GetMsg(a))
                 /\ Head(a.msgs) = "PREPARED" => Startable(GetMsg(a))
                 /\ Head(a.msgs) \in Message
<1>1. \A q : SameButWaiting(p, q) => Unasked(p, q) /\ Asked(p, q)
  BY DEF SameButWaiting, Unasked, Asked, Kept, NoStart, HasStart, Startable, IsPlaying
<1>2. SameButWaiting(p, Sleep(a))
  BY SignalIs DEF SameButWaiting
<1>3. ASSUME a.msgs # <<>>
      PROVE  /\ Unasked(p, GetMsg(a)) /\ Asked(p, GetMsg(a))
             /\ Head(a.msgs) = "PREPARED" => Startable(GetMsg(a))
             /\ Head(a.msgs) \in Message
  <2> DEFINE q == GetMsg(a)
  <2>1. /\ Unasked(a, q) /\ Asked(a, q) /\ Head(a.msgs) \in Message
        /\ Head(a.msgs) = "PREPARED" => Startable(q)
    BY <1>3, GetMsgKeeps DEF SameButWaiting
  <2> HIDE DEF q
  <2>2. Unasked(p, q) /\ Asked(p, q)
    BY <2>1 DEF SameButWaiting, Unasked, Asked, Kept, NoStart, HasStart, Startable, IsPlaying
  <2> QED BY <2>1, <2>2 DEF q
<1> QED BY <1>1, <1>2, <1>3

LEMMA LoopGetKeeps ==
    ASSUME FeedInv, NEW k \in DOMAIN loops, LoopGet(k)
    PROVE  FeedInv'
<1> DEFINE m == loops[k].mp
<1> DEFINE p == players[m]
<1> DEFINE a == Awake(k)
<1>1. /\ UNCHANGED loopFrame /\ UNCHANGED pool /\ AtQueue(k)
      /\ loops[k].pc \in {"wait", "asleep"}
      /\ LoopOK(loops[k], players, visited)
  BY DEF LoopGet, At, AtQueue, FeedInv, LoopInv
<1>2. m # NoPlayer /\ PoolSlot(p.index) = loops[k].slot
  BY <1>1 DEF LoopOK
<1>3. m \in DOMAIN players
  BY <1>2, LoopTypes DEF FeedInv, LoopType
<1>4. p \in Player
  BY <1>3 DEF FeedInv, TypeOK
<1>5. SameButWaiting(p, a)
  BY <1>1, <1>4, AwakeIs
<1>6. ASSUME NEW q, NEW place \in {"wait", "asleep", "exited", "playing", "PREPARED", "COMPLETED", "ERROR"},
             players' = [players EXCEPT ![m] = q], GoTo(k, place),
             Unasked(p, q), Asked(p, q), place = "PREPARED" => Startable(q)
      PROVE  FeedInv'
  <2> DEFINE l == [loops[k] EXCEPT !.pc = place]
  <2>1. place \in LoopPlaces
    BY DEF LoopPlaces, Handling
  <2>2. /\ loops' = [loops EXCEPT ![k] = l] /\ l \in LoopType
        /\ l.pc = place /\ l.mp = m /\ l.slot = loops[k].slot
    BY <1>6, <2>1, GoToIs DEF FeedInv
  <2>3. /\ CalmPlayers /\ players'[m] = q
        /\ \A j \in DOMAIN players : j # m => players'[j] = players[j]
    BY <1>3, <1>6, OnePlayer DEF FeedInv, CalmPlayers, Unasked
  <2>4. \A j \in DOMAIN players : Unasked(players[j], players'[j]) /\ Asked(players[j], players'[j])
    BY <1>6, <2>3 DEF CalmPlayers, Unasked, Asked
  <2> HIDE DEF l
  <2>5. LoopOK(l, players', visited)
    BY <1>2, <1>6, <2>2, <2>3 DEF LoopOK, Unasked, Kept
  <2> QED BY <1>1, <2>2, <2>3, <2>4, <2>5, VideosStay, ThreadStep
<1>7. CASE a.abort
  BY <1>4, <1>5, <1>6, <1>7, GotMsg DEF LoopGet
<1>8. CASE ~a.abort /\ a.msgs = <<>>
  <2>1. players' = [players EXCEPT ![m] = Sleep(a)] /\ GoTo(k, "asleep")
    BY <1>8 DEF LoopGet
  <2> QED BY <1>4, <1>5, <1>6, <2>1, GotMsg
<1>9. CASE ~a.abort /\ a.msgs # <<>>
  <2> DEFINE place == Received(Head(a.msgs), a)
  <2>1. players' = [players EXCEPT ![m] = GetMsg(a)] /\ GoTo(k, place)
    BY <1>9 DEF LoopGet
  <2>2. /\ Unasked(p, GetMsg(a)) /\ Asked(p, GetMsg(a)) /\ Head(a.msgs) \in Message
        /\ Head(a.msgs) = "PREPARED" => Startable(GetMsg(a))
    BY <1>4, <1>5, <1>9, GotMsg
  <2>3. /\ place \in {"wait", "playing", "PREPARED", "COMPLETED", "ERROR"}
        /\ place = "PREPARED" => Head(a.msgs) = "PREPARED"
    BY <2>2 DEF Received, Message
  <2> HIDE DEF place
  <2> QED BY <1>6, <2>1, <2>2, <2>3
<1> QED BY <1>7, <1>8, <1>9

(* A loop in a handler of a feed that exists. *)
LEMMA HandlerHas ==
    ASSUME FeedInv, NEW k \in DOMAIN loops, loops[k].pc \in Handling
    PROVE  LET m == loops[k].mp
           IN  /\ m # NoPlayer /\ m \in DOMAIN players /\ players[m] \in Player
               /\ PoolSlot(players[m].index) = loops[k].slot /\ loops[k].slot \in Slots
               /\ LoopOK(loops[k], players, visited)
<1>1. LoopOK(loops[k], players, visited)
  BY DEF FeedInv, LoopInv
<1>2. loops[k].mp # NoPlayer /\ PoolSlot(players[loops[k].mp].index) = loops[k].slot
  BY <1>1 DEF LoopOK
<1>3. loops[k].mp \in DOMAIN players /\ loops[k].slot \in Slots
  BY <1>2, LoopTypes DEF FeedInv, LoopType
<1>4. players[loops[k].mp] \in Player
  BY <1>3 DEF FeedInv, TypeOK
<1> QED BY <1>1, <1>2, <1>3, <1>4

LEMMA LoopPreparedKeeps ==
    ASSUME FeedInv, NEW k \in DOMAIN loops, LoopPrepared(k)
    PROVE  FeedInv'
<1> DEFINE m == loops[k].mp
<1> DEFINE r == loops[k].slot
<1> DEFINE l == [loops[k] EXCEPT !.pc = "compare"]
<1>1. /\ UNCHANGED loopFrame /\ UNCHANGED players /\ ~destroyed /\ loops[k].pc = "PREPARED"
      /\ GoTo(k, "compare") /\ SetSlotState(k, "READY")
  BY DEF LoopPrepared, Handles, At
<1>2. /\ loops' = [loops EXCEPT ![k] = l] /\ l \in LoopType
      /\ l.pc = "compare" /\ l.mp = m /\ l.slot = r
      /\ DOMAIN loops' = DOMAIN loops /\ loops'[k] = l
      /\ \A j \in DOMAIN loops : j # k => loops'[j] = loops[j]
  BY <1>1, GoToIs DEF FeedInv, LoopPlaces, Handling
<1>3. /\ SameVideos /\ r \in Slots
      /\ \A s \in Slots : s # r => pool'[s] = pool[s]
      /\ ~pool'[r].tainted => pool[r].mp = m
  BY <1>1, SetSlotStateIs DEF FeedInv, ViralState
<1>4. m # NoPlayer /\ m \in DOMAIN players /\ LoopOK(loops[k], players, visited)
  BY <1>1, HandlerHas DEF Handling
<1> HIDE DEF l
<1>5. LoopOK(l, players', visited)
  BY <1>1, <1>2, <1>4 DEF LoopOK, Handling
<1>6. \A s \in Slots : IsReady(pool'[s]) => IsReady(pool[s]) \/ Startable(players[pool[s].mp])
  <2>1. ASSUME IsReady(pool'[r])
        PROVE  Startable(players[pool[r].mp])
    <3>1. pool[r].mp = m
      BY <1>3, <2>1 DEF IsReady
    <3>2. ~players[m].abort
      BY <1>1, <1>3, <1>4, <3>1 DEF FeedInv, PoolInv
    <3> QED BY <1>1, <1>4, <3>1, <3>2 DEF LoopOK
  <2> QED BY <1>3, <2>1
<1>7. PromptInv'
  <2>1. CASE current_index >= 0 /\ PoolSlot(current_index) = r
    <3>1. IsReady(CurrentSlot') => CurrentSlot'.mp = m
      BY <1>1, <1>3, <2>1 DEF IsReady, CurrentSlot, SameVideos, loopFrame
    <3> QED BY <1>2, <3>1 DEF PromptInv, Prompted
  <2>2. CASE ~(current_index >= 0 /\ PoolSlot(current_index) = r)
    <3>1. CASE ~(current_index >= 0)
      BY <1>1, <3>1 DEF PromptInv, loopFrame
    <3>2. CASE PoolSlot(current_index) # r
      BY <1>1, <1>2, <1>3, <3>2, PlayersStay, CalmPrompt DEF loopFrame
    <3> QED BY <2>2, <3>1, <3>2
  <2> QED BY <2>1, <2>2
<1> QED BY <1>1, <1>2, <1>3, <1>5, <1>6, <1>7, PlayersStay, ThreadStep

(* The comparison reads the index of the slot, which is the index of the    *)
(* loop's own player as long as that was not released.                      *)
LEMMA LoopCompareKeeps ==
    ASSUME FeedInv, NEW k \in DOMAIN loops, LoopCompare(k)
    PROVE  FeedInv'
<1> DEFINE m == loops[k].mp
<1> DEFINE r == loops[k].slot
<1> DEFINE place == IF pool[r].feed_index = current_index THEN "start" ELSE "wait"
<1> DEFINE l == [loops[k] EXCEPT !.pc = place]
<1>1. /\ UNCHANGED loopFrame /\ UNCHANGED players /\ UNCHANGED pool
      /\ ~destroyed /\ loops[k].pc = "compare" /\ GoTo(k, place)
  BY DEF LoopCompare, Handles, At
<1>2. place \in LoopPlaces /\ place \in {"start", "wait"}
  BY DEF LoopPlaces, Handling
<1>3. place = "start" <=> pool[r].feed_index = current_index
  OBVIOUS
<1> HIDE DEF place
<1>4. /\ loops' = [loops EXCEPT ![k] = l] /\ l \in LoopType
      /\ l.pc = place /\ l.mp = m /\ l.slot = r
      /\ DOMAIN loops' = DOMAIN loops /\ loops'[k] = l
      /\ \A j \in DOMAIN loops : j # k => loops'[j] = loops[j]
  BY <1>1, <1>2, GoToIs DEF FeedInv
<1>5. /\ m # NoPlayer /\ m \in DOMAIN players /\ players[m] \in Player /\ r \in Slots
      /\ PoolSlot(players[m].index) = r /\ LoopOK(loops[k], players, visited)
  BY <1>1, HandlerHas DEF Handling
<1> HIDE DEF l
<1>6. ASSUME place = "start", ~players[m].abort
      PROVE  players[m].index \in visited
  <2>1. PICK s \in Slots : pool[s].mp = m
    BY <1>5, <1>6 DEF FeedInv, DroppedIsStopped
  <2>2. pool[s].feed_index = players[m].index /\ PoolSlot(pool[s].feed_index) = s
    BY <1>5, <2>1 DEF FeedInv, TypeOK
  <2>3. players[m].index = current_index
    BY <1>3, <1>5, <1>6, <2>2
  <2>4. players[m].index \in Nat
    BY <1>5 DEF Player
  <2>5. current_index >= 0
    BY <2>3, <2>4
  <2> QED BY <2>3, <2>5 DEF FeedInv, ScrollInv
<1>7. LoopOK(l, players', visited)
  BY <1>1, <1>2, <1>4, <1>5, <1>6 DEF LoopOK, Handling
<1>8. PromptInv'
  <2> SUFFICES ASSUME current_index >= 0, ui.pc # "current", IsReady(CurrentSlot)
               PROVE  Prompted(CurrentSlot.mp, players, loops', userPaused)
    BY <1>1 DEF PromptInv, loopFrame, CurrentSlot
  <2>1. Prompted(CurrentSlot.mp, players, loops, userPaused)
    BY <1>1 DEF FeedInv, PromptInv
  <2>2. CurrentSlot.feed_index = current_index /\ players[CurrentSlot.mp].index = current_index
    BY TheCurrent
  <2>3. m = CurrentSlot.mp => loops'[k].mp = CurrentSlot.mp /\ loops'[k].pc = "start"
    BY <1>3, <1>4, <1>5, <2>2 DEF CurrentSlot
  <2> QED BY <1>4, <2>1, <2>3 DEF Prompted
<1> QED BY <1>1, <1>4, <1>7, <1>8, PlayersStay, VideosStay, ThreadStep

LEMMA LoopAutoStartKeeps ==
    ASSUME FeedInv, NEW k \in DOMAIN loops, LoopAutoStart(k)
    PROVE  FeedInv'
<1> DEFINE m == loops[k].mp
<1> DEFINE p == players[m]
<1> DEFINE q == Start(p)
<1> DEFINE l == [loops[k] EXCEPT !.pc = "wait"]
<1>1. /\ UNCHANGED loopFrame /\ UNCHANGED pool /\ players' = [players EXCEPT ![m] = q]
      /\ ~destroyed /\ loops[k].pc = "start" /\ GoTo(k, "wait")
  BY DEF LoopAutoStart, Handles, At
<1>2. /\ loops' = [loops EXCEPT ![k] = l] /\ l \in LoopType
      /\ l.pc = "wait" /\ l.mp = m /\ l.slot = loops[k].slot
      /\ DOMAIN loops' = DOMAIN loops /\ loops'[k] = l
      /\ \A j \in DOMAIN loops : j # k => loops'[j] = loops[j]
  BY <1>1, GoToIs DEF FeedInv, LoopPlaces
<1>3. /\ m # NoPlayer /\ m \in DOMAIN players /\ p \in Player
      /\ PoolSlot(p.index) = loops[k].slot /\ LoopOK(loops[k], players, visited)
  BY <1>1, HandlerHas DEF Handling
<1>4. p.abort \/ (Startable(p) /\ p.index \in visited)
  BY <1>1, <1>3 DEF LoopOK
<1>5. /\ Kept(p, q) /\ (p.abort => Unasked(p, q)) /\ (~p.abort => HasStart(q))
  BY <1>3, <1>4, RequestKeeps DEF Start
<1> HIDE DEF q, l
<1>6. /\ CalmPlayers /\ players'[m] = q
      /\ \A j \in DOMAIN players : j # m => players'[j] = players[j]
  BY <1>1, <1>3, <1>5, OnePlayer DEF FeedInv, CalmPlayers
<1>7. \A j \in DOMAIN players : players[j].index \in visited \/ Unasked(players[j], players'[j])
  BY <1>4, <1>5, <1>6 DEF CalmPlayers, Unasked
<1>8. LoopOK(l, players', visited)
  BY <1>2, <1>3, <1>5, <1>6 DEF LoopOK, Kept
<1>9. PromptInv'
  <2> SUFFICES ASSUME current_index >= 0, ui.pc # "current", IsReady(CurrentSlot)
               PROVE  Prompted(CurrentSlot.mp, players', loops', userPaused)
    BY <1>1 DEF PromptInv, loopFrame, CurrentSlot
  <2>1. Prompted(CurrentSlot.mp, players, loops, userPaused)
    BY <1>1 DEF FeedInv, PromptInv
  <2>2. ~players[CurrentSlot.mp].abort /\ CurrentSlot.mp \in DOMAIN players
    BY <1>1, TheCurrent
  <2>3. CASE CurrentSlot.mp = m
    BY <1>5, <1>6, <2>2, <2>3 DEF Prompted
  <2>4. CASE CurrentSlot.mp # m
    BY <1>2, <1>6, <2>1, <2>2, <2>4 DEF Prompted
  <2> QED BY <2>3, <2>4
<1> QED BY <1>1, <1>2, <1>6, <1>7, <1>8, <1>9, VideosStay, ThreadStep

LEMMA LoopReportKeeps ==
    ASSUME FeedInv, NEW k \in DOMAIN loops, NEW place \in {"playing", "COMPLETED", "ERROR"},
           NEW state \in ViralState \ {"READY"}, LoopReport(k, place, state)
    PROVE  FeedInv'
<1> DEFINE r == loops[k].slot
<1> DEFINE l == [loops[k] EXCEPT !.pc = "wait"]
<1>1. /\ UNCHANGED loopFrame /\ UNCHANGED players /\ ~destroyed /\ loops[k].pc = place
      /\ GoTo(k, "wait") /\ SetSlotState(k, state)
  BY DEF LoopReport, Handles, At
<1>2. /\ loops' = [loops EXCEPT ![k] = l] /\ l \in LoopType
      /\ l.pc = "wait" /\ l.mp = loops[k].mp /\ l.slot = r
  BY <1>1, GoToIs DEF FeedInv, LoopPlaces
<1>3. /\ SameVideos /\ r \in Slots
      /\ \A s \in Slots : s # r => pool'[s] = pool[s]
      /\ pool'[r].state # "READY"
  BY <1>1, SetSlotStateIs DEF FeedInv
<1>4. loops[k].mp # NoPlayer /\ LoopOK(loops[k], players, visited)
  BY <1>1, HandlerHas DEF Handling
<1> HIDE DEF l
<1>5. LoopOK(l, players', visited)
  BY <1>1, <1>2, <1>4 DEF LoopOK
<1>6. \A s \in Slots : IsReady(pool'[s]) => IsReady(pool[s])
  BY <1>3 DEF IsReady
<1> QED BY <1>1, <1>2, <1>3, <1>5, <1>6, PlayersStay, ThreadStep

LEMMA LoopKeeps ==
    ASSUME FeedInv, NEW k \in DOMAIN players, Loop(k)
    PROVE  FeedInv'
<1>1. k \in DOMAIN loops
  BY DEF FeedInv, TypeOK
<1>2. "PLAYING" \in ViralState \ {"READY"} /\ "IDLE" \in ViralState \ {"READY"}
      /\ "ERROR" \in ViralState \ {"READY"}
  BY DEF ViralState
<1>3. LoopReport(k, "playing", "PLAYING") => FeedInv'
  BY <1>1, <1>2, LoopReportKeeps
<1>4. LoopReport(k, "COMPLETED", "IDLE") => FeedInv'
  BY <1>1, <1>2, LoopReportKeeps
<1>5. LoopReport(k, "ERROR", "ERROR") => FeedInv'
  BY <1>1, <1>2, LoopReportKeeps
<1> QED BY <1>1, <1>3, <1>4, <1>5, LoopStartKeeps, LoopGetKeeps, LoopWildKeeps,
           LoopPreparedKeeps, LoopCompareKeeps, LoopAutoStartKeeps DEF Loop

-----------------------------------------------------------------------------
(* The calls of the application *)

(* A step of the calling thread that leaves pool, players and loops. *)
LEMMA FeedStays ==
    ASSUME FeedInv, UNCHANGED <<pool, players, loops, destroyed, visited>>, RestTypes'
    PROVE  TypeOK' /\ PoolInv' /\ DroppedIsStopped' /\ LoopInv' /\ StartInv' /\ ReadyInv'
<1>1. /\ CalmPlayers /\ SameVideos /\ DOMAIN loops' = DOMAIN loops /\ loops' \in Seq(LoopType)
      /\ \A k \in DOMAIN players : Unasked(players[k], players'[k])
      /\ \A s \in Slots : IsReady(pool'[s]) => IsReady(pool[s])
      /\ \A k \in DOMAIN loops : loops'[k] = loops[k]
  BY PlayersStay, VideosStay, LoopsStay
<1>2. TypeOK' /\ PoolInv' /\ DroppedIsStopped'
  BY <1>1, CalmTypes
<1> QED BY <1>1, <1>2, CalmLoops, CalmStart, CalmReady

LEMMA SetUrlsKeeps ==
    ASSUME FeedInv, NEW list \in UrlLists, SetUrls(list)
    PROVE  FeedInv'
<1>1. RestTypes'
  BY FeedAssumption DEF SetUrls, RestTypes, FeedInv, TypeOK
<1>2. TypeOK' /\ PoolInv' /\ DroppedIsStopped' /\ LoopInv' /\ StartInv' /\ ReadyInv'
  BY <1>1, FeedStays DEF SetUrls
<1>3. ScrollInv' /\ PromptInv'
  BY DEF SetUrls, Idle, FeedInv, ScrollInv, PromptInv, Loaded, Covered, CurrentSlot
<1> QED BY <1>2, <1>3 DEF FeedInv

LEMMA StutterKeeps ==
    ASSUME FeedInv, UNCHANGED vars
    PROVE  FeedInv'
<1>1. RestTypes'
  BY DEF vars, RestTypes, FeedInv, TypeOK
<1>2. TypeOK' /\ PoolInv' /\ DroppedIsStopped' /\ LoopInv' /\ StartInv' /\ ReadyInv'
  BY <1>1, FeedStays DEF vars
<1>3. ScrollInv' /\ PromptInv'
  BY DEF vars, FeedInv, ScrollInv, PromptInv, Loaded, Covered, CurrentSlot, url_count
<1> QED BY <1>2, <1>3 DEF FeedInv

(* scroll_to pauses the previous video and has no current video until its   *)
(* second part.                                                             *)
LEMMA ScrollToKeeps ==
    ASSUME FeedInv, NEW index \in 0 .. url_count - 1, ScrollTo(index)
    PROVE  FeedInv'
<1>1. /\ current_index' = index /\ ui' = [pc |-> "current", i |-> 1]
      /\ visited' = visited \cup {index} /\ userPaused' = (userPaused /\ current_index = index)
      /\ ui.pc = "idle" /\ ~destroyed
      /\ UNCHANGED <<urls, pool, loops, destroyed, outOfBounds, faults>>
  BY DEF ScrollTo, Idle
<1>2. urls \in Seq(Int) /\ index \in Nat
  BY DEF FeedInv, TypeOK, url_count
<1>3. RestTypes'
  <2>1. (userPaused /\ current_index = index) \in BOOLEAN
    OBVIOUS
  <2> QED BY <1>1, <1>2, <2>1 DEF RestTypes, FeedInv, TypeOK
<1>4. CalmPlayers /\ \A k \in DOMAIN players : Unasked(players[k], players'[k])
  <2>1. CASE UNCHANGED players
    BY <2>1, PlayersStay
  <2>2. CASE current_index >= 0 /\ Loaded(current_index)
             /\ players' = LET mp == pool[PoolSlot(current_index)].mp
                           IN  OnPlayer(mp, PausePlayer(players[mp]))
    <3> DEFINE m == CurrentSlot.mp
    <3> DEFINE q == PausePlayer(players[m])
    <3>1. m \in DOMAIN players /\ m # NoPlayer /\ players[m] \in Player
      BY <1>1, <2>2, TheCurrent
    <3>2. players' = [players EXCEPT ![m] = q]
      BY <2>2, <3>1 DEF CurrentSlot, OnPlayer
    <3>3. Unasked(players[m], q)
      BY <3>1, RequestKeeps DEF PausePlayer
    <3> HIDE DEF m, q
    <3>4. /\ CalmPlayers /\ players'[m] = q
          /\ \A k \in DOMAIN players : k # m => players'[k] = players[k]
      BY <3>1, <3>2, <3>3, OnePlayer DEF CalmPlayers, FeedInv, Unasked
    <3> QED BY <3>3, <3>4 DEF CalmPlayers, Unasked
  <2> QED BY <2>1, <2>2 DEF ScrollTo
<1>5. TypeOK' /\ PoolInv' /\ DroppedIsStopped'
  BY <1>1, <1>3, <1>4, VideosStay, LoopsStay, CalmTypes
<1>6. LoopInv' /\ StartInv' /\ ReadyInv'
  BY <1>1, <1>4, VideosStay, LoopsStay, CalmLoops, CalmStart, CalmReady
<1>7. ScrollInv'
  BY <1>1 DEF ScrollInv, url_count
<1>8. PromptInv'
  BY <1>1 DEF PromptInv
<1> QED BY <1>5, <1>6, <1>7, <1>8 DEF FeedInv

(* The players without the one of the slot s. *)
LEMMA ReleasedIs ==
    ASSUME FeedInv, ~destroyed, NEW s \in Slots
    PROVE  LET o == pool[s].mp
               R == Released(o)
           IN  /\ R \in Seq(Player) /\ DOMAIN R = DOMAIN players /\ Len(R) = Len(players)
               /\ \A k \in DOMAIN players : k # o => R[k] = players[k]
               /\ o # NoPlayer => o \in DOMAIN players /\ R[o].abort
               /\ \A k \in DOMAIN players :
                     Passed(players[k], R[k]) /\ StartOK(R[k], visited)
               /\ \A r \in Slots : r # s /\ pool[r].mp # NoPlayer => pool[r].mp # o
<1> DEFINE o == pool[s].mp
<1> DEFINE R == Released(o)
<1>1. players \in Seq(Player)
  BY DEF FeedInv, TypeOK
<1>2. \A k \in DOMAIN players : players[k] \in Player /\ StartOK(players[k], visited)
  BY <1>1 DEF FeedInv, StartInv
<1>3. \A k \in DOMAIN players : Passed(players[k], players[k])
  BY <1>2 DEF Passed
<1>4. \A r \in Slots : r # s /\ pool[r].mp # NoPlayer => pool[r].mp # o
  BY DEF FeedInv, TypeOK
<1>5. CASE o = NoPlayer
  <2>1. R = players
    BY <1>5 DEF Released, OnPlayer
  <2> QED BY <1>1, <1>2, <1>3, <1>4, <1>5, <2>1
<1>6. CASE o # NoPlayer
  <2> DEFINE q == Release(players[o])
  <2>1. o \in DOMAIN players /\ ~players[o].abort
    BY <1>6 DEF FeedInv, TypeOK, PoolInv
  <2>2. players[o].ref = 2 /\ players[o] \in Player
    BY <1>2, <2>1 DEF FeedInv, PoolInv
  <2>3. /\ q \in Player /\ q.abort /\ q.index = players[o].index
        /\ q.started = players[o].started /\ ~IsPlaying(q) /\ NoStart(q)
    BY <2>2, ReleaseEnds
  <2>4. R = [players EXCEPT ![o] = q]
    BY <1>6 DEF Released, OnPlayer
  <2> HIDE DEF q, R
  <2>5. /\ R \in Seq(Player) /\ DOMAIN R = DOMAIN players /\ Len(R) = Len(players)
        /\ \A k \in DOMAIN players : k # o => R[k] = players[k]
        /\ R[o] = q
    BY <1>1, <2>1, <2>3, <2>4
  <2>6. Passed(players[o], q) /\ StartOK(q, visited)
    BY <1>2, <2>1, <2>3 DEF Passed, StartOK
  <2> QED BY <1>2, <1>3, <1>4, <2>1, <2>3, <2>5, <2>6 DEF R
<1> QED BY <1>5, <1>6

(* viral_player_init_slot: nothing but the slot s, its player and a new     *)
(* player and loop are touched.                                             *)
LEMMA InitSlotKeeps ==
    ASSUME FeedInv, NEW index \in 0 .. url_count - 1, InitSlot(PoolSlot(index), index),
           UNCHANGED scrollFrame, RestTypes', ~destroyed
    PROVE  LET s == PoolSlot(index)
           IN  /\ TypeOK' /\ PoolInv' /\ DroppedIsStopped' /\ LoopInv' /\ StartInv' /\ ReadyInv'
               /\ pool'[s].mp # NoPlayer /\ pool'[s].feed_index = index /\ ~IsReady(pool'[s])
               /\ \A r \in Slots : r # s =>
                     /\ pool'[r] = pool[r]
                     /\ pool[r].mp # NoPlayer => players'[pool[r].mp] = players[pool[r].mp]
               /\ \A k \in DOMAIN loops : k \in DOMAIN loops' /\ loops'[k] = loops[k]
<1> DEFINE s == PoolSlot(index)
<1> DEFINE o == pool[s].mp
<1> DEFINE R == Released(o)
<1> DEFINE n == Len(players) + 1
<1>1. urls \in Seq(Int) /\ index \in Nat /\ index + 1 \in 1 .. Len(urls)
  BY DEF FeedInv, TypeOK, url_count
<1>2. s \in Slots /\ urls[index + 1] \in Int
  BY <1>1, PoolSlots
<1>3. PICK opens \in BOOLEAN :
        /\ players' = Append(R, Prepared(index, opens))
        /\ loops' = Append(loops, [pc |-> "starting", mp |-> NoPlayer, slot |-> s])
        /\ pool' = [pool EXCEPT ![s] = [mp |-> n, state |-> "PRELOADING",
                                        feed_index |-> index, url |-> urls[index + 1],
                                        tainted |-> FALSE]]
  BY DEF InitSlot
<1> DEFINE new == Prepared(index, opens)
<1> DEFINE l == [pc |-> "starting", mp |-> NoPlayer, slot |-> s]
<1>4. /\ new \in Player /\ ~new.abort /\ new.ref = 2 /\ new.index = index /\ ~new.started
      /\ ~IsPlaying(new) /\ NoStart(new)
  BY <1>1, PreparedIs
<1>5. /\ R \in Seq(Player) /\ DOMAIN R = DOMAIN players /\ Len(R) = Len(players)
      /\ \A k \in DOMAIN players : k # o => R[k] = players[k]
      /\ o # NoPlayer => o \in DOMAIN players /\ R[o].abort
      /\ \A k \in DOMAIN players : Passed(players[k], R[k]) /\ StartOK(R[k], visited)
      /\ \A r \in Slots : r # s /\ pool[r].mp # NoPlayer => pool[r].mp # o
  BY <1>2, ReleasedIs
<1> HIDE DEF new, R, s, n
<1>6. /\ players' \in Seq(Player) /\ DOMAIN players = 1 .. Len(players)
      /\ DOMAIN players' = DOMAIN players \cup {n} /\ players'[n] = new
      /\ n \notin DOMAIN players /\ n \in Nat /\ n # NoPlayer
      /\ \A k \in DOMAIN players : players'[k] = R[k]
  <2>1. Len(players) \in Nat /\ DOMAIN players = 1 .. Len(players) /\ players' = Append(R, new)
    BY <1>3 DEF FeedInv, TypeOK, new
  <2>2. /\ players' \in Seq(Player) /\ DOMAIN players' = 1 .. n /\ players'[n] = new
        /\ \A k \in 1 .. Len(players) : players'[k] = R[k]
    BY <1>4, <1>5, <2>1 DEF n
  <2> QED BY <2>1, <2>2 DEF n, NoPlayer
<1>7. /\ pool' \in [Slots -> Slot] /\ \A r \in Slots : r # s => pool'[r] = pool[r]
      /\ pool'[s].mp = n /\ pool'[s].feed_index = index /\ pool'[s].state = "PRELOADING"
  <2> DEFINE x == [mp |-> n, state |-> "PRELOADING", feed_index |-> index,
                   url |-> urls[index + 1], tainted |-> FALSE]
  <2>1. /\ x \in Slot /\ x.mp = n /\ x.feed_index = index /\ x.state = "PRELOADING"
    BY <1>1, <1>2, <1>6 DEF Slot, ViralState
  <2>2. pool' = [pool EXCEPT ![s] = x] /\ pool \in [Slots -> Slot]
    BY <1>3 DEF FeedInv, TypeOK
  <2> HIDE DEF x
  <2> QED BY <1>2, <2>1, <2>2
<1>8. /\ loops' \in Seq([pc : LoopPlaces, mp : DOMAIN players' \cup {NoPlayer}, slot : Slots])
      /\ DOMAIN loops' = DOMAIN players' /\ loops'[n] = l /\ DOMAIN loops = DOMAIN players
      /\ \A k \in DOMAIN loops : k \in DOMAIN loops' /\ loops'[k] = loops[k]
  <2> DEFINE T == [pc : LoopPlaces, mp : DOMAIN players' \cup {NoPlayer}, slot : Slots]
  <2>1. loops \in Seq(LoopType) /\ DOMAIN loops = DOMAIN players /\ players \in Seq(Player)
    BY DEF FeedInv, TypeOK, LoopType
  <2>2. LoopType \subseteq T
    BY <1>6 DEF LoopType
  <2>3. l \in T
    BY <1>2 DEF LoopPlaces
  <2> HIDE DEF T, l
  <2>4. loops \in Seq(T) /\ Len(loops) = Len(players) /\ Len(loops) \in Nat
    BY <2>1, <2>2
  <2>5. /\ loops' \in Seq(T) /\ DOMAIN loops' = 1 .. n /\ loops'[n] = l
        /\ \A k \in 1 .. Len(loops) : loops'[k] = loops[k]
    BY <1>3, <2>3, <2>4 DEF n, l
  <2>6. DOMAIN players' = 1 .. n
    BY <1>6, <2>4 DEF n
  <2> QED BY <1>6, <2>1, <2>4, <2>5, <2>6 DEF T
<1>9. /\ \A r \in Slots : pool[r].mp # NoPlayer =>
             /\ pool[r].mp \in DOMAIN players
             /\ pool[r].feed_index = players[pool[r].mp].index
             /\ PoolSlot(pool[r].feed_index) = r
      /\ visited' = visited /\ destroyed' = destroyed
  BY DEF FeedInv, TypeOK, scrollFrame
<1>10. \A r \in Slots : r # s /\ pool[r].mp # NoPlayer =>
          pool[r].mp \in DOMAIN players /\ players'[pool[r].mp] = players[pool[r].mp]
  BY <1>5, <1>6, <1>9
<1>11. TypeOK'
  <2>1. \A r \in Slots : pool'[r].mp # NoPlayer =>
             /\ pool'[r].mp \in DOMAIN players'
             /\ pool'[r].feed_index = players'[pool'[r].mp].index
             /\ PoolSlot(pool'[r].feed_index) = r
    BY <1>4, <1>6, <1>7, <1>9, <1>10 DEF s
  <2> QED BY <1>6, <1>7, <1>8, <2>1 DEF TypeOK, RestTypes
<1>12. PoolInv'
  <2>0. \A k \in DOMAIN players : R[k].abort \/ R[k] = players[k]
    <3>1. \A k \in DOMAIN players : k # NoPlayer
      BY <1>6 DEF NoPlayer
    <3> QED BY <1>5, <3>1
  <2>1. \A k \in DOMAIN players' : ~players'[k].abort => players'[k].ref = 2
    BY <1>4, <1>6, <2>0 DEF FeedInv, PoolInv
  <2>2. \A r \in Slots : pool'[r].mp # NoPlayer => ~players'[pool'[r].mp].abort
    BY <1>4, <1>6, <1>7, <1>10 DEF FeedInv, PoolInv
  <2> QED BY <2>1, <2>2 DEF PoolInv
<1>13. DroppedIsStopped'
  <2> SUFFICES ASSUME NEW k \in DOMAIN players', ~players'[k].abort
               PROVE  \E r \in Slots : pool'[r].mp = k
    BY <1>9 DEF DroppedIsStopped
  <2>1. CASE k = n
    BY <1>2, <1>7, <2>1
  <2>2. CASE k # n
    <3>1. k \in DOMAIN players /\ players'[k] = R[k]
      BY <1>6, <2>2
    <3>2. k # o \/ o = NoPlayer
      BY <1>5, <3>1
    <3>3. k # NoPlayer
      BY <1>6, <3>1 DEF NoPlayer
    <3>4. k # o /\ players'[k] = players[k]
      BY <1>5, <3>1, <3>2, <3>3
    <3>5. PICK r \in Slots : pool[r].mp = k
      BY <3>1, <3>4 DEF FeedInv, DroppedIsStopped
    <3> QED BY <1>7, <3>4, <3>5
  <2> QED BY <2>1, <2>2
<1>14. LoopInv'
  <2>1. LoopOK(l, players', visited)
    BY DEF LoopOK, Handling
  <2> HIDE DEF l
  <2>2. ASSUME NEW k \in DOMAIN loops
        PROVE  LoopOK(loops[k], players', visited)
    <3>1. loops[k].mp # NoPlayer => loops[k].mp \in DOMAIN players
      BY LoopTypes DEF FeedInv, LoopType
    <3>2. loops[k].mp # NoPlayer => Passed(players[loops[k].mp], players'[loops[k].mp])
      BY <1>5, <1>6, <3>1
    <3>3. LoopOK(loops[k], players, visited)
      BY DEF FeedInv, LoopInv
    <3> QED BY <3>2, <3>3, LoopPasses
  <2> QED BY <1>6, <1>8, <1>9, <2>1, <2>2 DEF LoopInv
<1>15. StartInv'
  <2>1. StartOK(new, visited)
    BY <1>4 DEF StartOK
  <2> QED BY <1>5, <1>6, <1>9, <2>1 DEF StartInv
<1>16. ReadyInv' /\ ~IsReady(pool'[s])
  BY <1>7, <1>9, <1>10 DEF FeedInv, ReadyInv, IsReady
<1> QED BY <1>6, <1>7, <1>8, <1>10, <1>11, <1>12, <1>13, <1>14, <1>15, <1>16 DEF s

(* The second part: the current video is loaded, and started if it is       *)
(* ready.                                                                   *)
LEMMA ScrollCurrentKeeps ==
    ASSUME FeedInv, ScrollCurrent
    PROVE  FeedInv'
<1> DEFINE s == PoolSlot(current_index)
<1>1. /\ ui.pc = "current" /\ ui' = [ui EXCEPT !.pc = "preload"] /\ UNCHANGED scrollFrame
      /\ UNCHANGED <<urls, current_index, destroyed, outOfBounds, visited, userPaused>>
  BY DEF ScrollCurrent, scrollFrame
<1>2. /\ current_index \in 0 .. url_count - 1 /\ ui.i >= 1 /\ ~destroyed
      /\ current_index \in Nat /\ current_index >= 0 /\ current_index \in visited
  <2>1. current_index \in 0 .. url_count - 1 /\ ui.i >= 1 /\ ~destroyed
    BY <1>1 DEF FeedInv, ScrollInv
  <2>2. urls \in Seq(Int)
    BY DEF FeedInv, TypeOK
  <2>3. current_index >= 0 /\ current_index \in Nat
    BY <2>1, <2>2 DEF url_count
  <2> QED BY <2>1, <2>3 DEF FeedInv, ScrollInv
<1>3. s \in Slots
  BY <1>2, PoolSlots
<1>4. ui' \in [pc : {"idle", "current", "preload", "release"}, i : Nat]
      /\ ui'.pc = "preload" /\ ui'.i = ui.i
  BY <1>1 DEF FeedInv, TypeOK
<1>5. RestTypes' <=> faults' \in Nat
  BY <1>1, <1>4 DEF FeedInv, TypeOK, RestTypes
<1>6. CASE Loaded(current_index) /\ UNCHANGED <<pool, loops, faults>>
           /\ players' = IF pool[s].state = "READY"
                         THEN OnPlayer(pool[s].mp, Start(players[pool[s].mp]))
                         ELSE players
  <2> DEFINE m == pool[s].mp
  <2> DEFINE q == Start(players[m])
  <2>1. /\ m # NoPlayer /\ pool[s].feed_index = current_index /\ m \in DOMAIN players
        /\ players[m].index \in visited /\ ~players[m].abort
        /\ IsReady(pool[s]) => Startable(players[m])
    <3>1. m # NoPlayer /\ pool[s].feed_index = current_index
      BY <1>6 DEF Loaded, Covered
    <3>2. m \in DOMAIN players /\ players[m].index = current_index
      BY <1>3, <3>1 DEF FeedInv, TypeOK
    <3> QED BY <1>2, <1>3, <3>1, <3>2 DEF FeedInv, PoolInv, ReadyInv
  <2>2. players[m] \in Player
    BY <2>1 DEF FeedInv, TypeOK
  <2>3. Kept(players[m], q) /\ (IsReady(pool[s]) => HasStart(q))
    BY <2>1, <2>2, RequestKeeps DEF Start
  <2>4. /\ CalmPlayers
        /\ \A k \in DOMAIN players :
              players[k].index \in visited \/ Unasked(players[k], players'[k])
        /\ IsReady(pool[s]) => HasStart(players'[m])
    <3>1. CASE pool[s].state = "READY"
      <4>1. players' = [players EXCEPT ![m] = q]
        BY <1>6, <2>1, <3>1 DEF OnPlayer
      <4> HIDE DEF q
      <4>2. /\ CalmPlayers /\ players'[m] = q
            /\ \A k \in DOMAIN players : k # m => players'[k] = players[k]
        BY <2>1, <2>3, <4>1, OnePlayer DEF FeedInv, CalmPlayers
      <4> QED BY <2>1, <2>3, <4>2 DEF CalmPlayers, Unasked
    <3>2. CASE pool[s].state # "READY"
      BY <1>6, <3>2, PlayersStay DEF IsReady
    <3> QED BY <3>1, <3>2
  <2>5. RestTypes'
    BY <1>5, <1>6 DEF FeedInv, TypeOK
  <2>6. TypeOK' /\ PoolInv' /\ DroppedIsStopped'
    BY <1>1, <1>6, <2>4, <2>5, VideosStay, LoopsStay, CalmTypes
  <2>7. LoopInv' /\ StartInv' /\ ReadyInv'
    BY <1>1, <1>6, <2>4, VideosStay, LoopsStay, CalmLoops, CalmStart, CalmReady
  <2>8. ScrollInv'
    BY <1>1, <1>2, <1>4, <1>6 DEF ScrollInv, Loaded, Covered, url_count
  <2>9. PromptInv'
    BY <1>1, <1>6, <2>4 DEF PromptInv, Prompted, CurrentSlot
  <2> QED BY <2>6, <2>7, <2>8, <2>9 DEF FeedInv
<1>7. CASE InitSlot(s, current_index)
  <2>1. faults' \in Nat
    BY <1>7 DEF InitSlot, FeedInv, TypeOK
  <2>2. /\ TypeOK' /\ PoolInv' /\ DroppedIsStopped' /\ LoopInv' /\ StartInv' /\ ReadyInv'
        /\ pool'[s].mp # NoPlayer /\ pool'[s].feed_index = current_index /\ ~IsReady(pool'[s])
    BY <1>1, <1>2, <1>5, <1>7, <2>1, InitSlotKeeps
  <2>3. ScrollInv'
    BY <1>1, <1>2, <1>4, <2>2 DEF ScrollInv, Loaded, Covered, url_count
  <2>4. PromptInv'
    BY <1>1, <2>2 DEF PromptInv, CurrentSlot
  <2> QED BY <2>2, <2>3, <2>4 DEF FeedInv
<1> QED BY <1>6, <1>7 DEF ScrollCurrent

(* The slots ahead are not the current one. *)
LEMMA ScrollPreloadKeeps ==
    ASSUME FeedInv, ScrollPreload
    PROVE  FeedInv'
<1> DEFINE next == current_index + ui.i
<1> DEFINE more == ui.i <= PreloadCount /\ next < url_count
<1> DEFINE c == PoolSlot(current_index)
<1>1. /\ ui.pc = "preload" /\ UNCHANGED scrollFrame
      /\ UNCHANGED <<urls, current_index, destroyed, outOfBounds, visited, userPaused>>
      /\ ui' = IF more THEN [ui EXCEPT !.i = @ + 1] ELSE [ui EXCEPT !.pc = "release"]
  BY DEF ScrollPreload, scrollFrame
<1>2. /\ current_index \in 0 .. url_count - 1 /\ ui.i >= 1 /\ ~destroyed /\ ui.i \in Nat
      /\ current_index \in Nat /\ current_index >= 0
  <2>1. current_index \in 0 .. url_count - 1 /\ ui.i >= 1 /\ ~destroyed
    BY <1>1 DEF FeedInv, ScrollInv
  <2>2. urls \in Seq(Int) /\ ui.i \in Nat
    BY DEF FeedInv, TypeOK
  <2> QED BY <2>1, <2>2 DEF url_count
<1>3. /\ c \in Slots /\ Loaded(current_index) /\ current_index \in visited
      /\ CurrentSlot.mp # NoPlayer
  BY <1>1, <1>2, TheCurrent DEF FeedInv, ScrollInv
<1>4. /\ ui' \in [pc : {"idle", "current", "preload", "release"}, i : Nat]
      /\ ui'.pc # "current" /\ ui'.i >= 1
  <2>1. ui \in [pc : {"idle", "current", "preload", "release"}, i : Nat]
    BY DEF FeedInv, TypeOK
  <2>2. ui.i + 1 \in Nat /\ ui.i + 1 >= 1
    BY <1>2
  <2> QED BY <1>1, <1>2, <2>1, <2>2
<1>5. RestTypes' <=> faults' \in Nat
  BY <1>1, <1>4 DEF FeedInv, TypeOK, RestTypes
<1>6. CASE Keep
  <2>1. UNCHANGED <<pool, players, loops, faults>>
    BY <1>6 DEF Keep
  <2>2. RestTypes'
    BY <1>5, <2>1 DEF FeedInv, TypeOK
  <2>3. TypeOK' /\ PoolInv' /\ DroppedIsStopped' /\ LoopInv' /\ StartInv' /\ ReadyInv'
    BY <1>1, <2>1, <2>2, FeedStays
  <2>4. ScrollInv'
    BY <1>1, <1>2, <1>3, <1>4, <2>1 DEF ScrollInv, Loaded, Covered, url_count
  <2>5. PromptInv'
    BY <1>1, <2>1 DEF FeedInv, PromptInv, CurrentSlot
  <2> QED BY <2>3, <2>4, <2>5 DEF FeedInv
<1>7. CASE more /\ InitSlot(PoolSlot(next), next)
  <2>1. faults' \in Nat
    BY <1>7 DEF InitSlot, FeedInv, TypeOK
  <2>2. next \in 0 .. url_count - 1
    BY <1>2, <1>7 DEF FeedInv, TypeOK, url_count
  <2>3. PoolSlot(next) # c
    <3>1. ui.i \in 1 .. PoolSize - 1
      BY <1>2, <1>7, FeedAssumption
    <3> QED BY <1>2, <3>1, OtherSlot
  <2>4. /\ TypeOK' /\ PoolInv' /\ DroppedIsStopped' /\ LoopInv' /\ StartInv' /\ ReadyInv'
        /\ pool'[c] = pool[c] /\ players'[pool[c].mp] = players[pool[c].mp]
        /\ \A k \in DOMAIN loops : k \in DOMAIN loops' /\ loops'[k] = loops[k]
    BY <1>1, <1>2, <1>3, <1>5, <1>7, <2>1, <2>2, <2>3, InitSlotKeeps DEF CurrentSlot
  <2>5. ScrollInv'
    BY <1>1, <1>2, <1>3, <1>4, <2>4 DEF ScrollInv, Loaded, Covered, url_count
  <2>6. PromptInv'
    <3>1. CurrentSlot' = CurrentSlot /\ players'[CurrentSlot.mp] = players[CurrentSlot.mp]
      BY <1>1, <2>4 DEF CurrentSlot
    <3>2. IsReady(CurrentSlot) => Prompted(CurrentSlot.mp, players, loops, userPaused)
      BY <1>1, <1>2 DEF FeedInv, PromptInv
    <3> QED BY <1>1, <2>4, <3>1, <3>2 DEF PromptInv, Prompted
  <2> QED BY <2>4, <2>5, <2>6 DEF FeedInv
<1> QED BY <1>6, <1>7 DEF ScrollPreload

(* The slot that is given back holds another video than the current one. *)
LEMMA ScrollReleaseKeeps ==
    ASSUME FeedInv, ScrollRelease
    PROVE  FeedInv'
<1> DEFINE s == PoolSlot(ReleaseBefore)
<1> DEFINE c == PoolSlot(current_index)
<1>1. /\ ui.pc = "release" /\ ui' = [pc |-> "idle", i |-> 0]
      /\ UNCHANGED <<urls, current_index, destroyed, outOfBounds, visited, userPaused, loops, faults>>
  BY DEF ScrollRelease, scrollFrame
<1>2. current_index \in 0 .. url_count - 1 /\ ~destroyed /\ current_index >= 0 /\ current_index \in Nat
  <2>1. current_index \in 0 .. url_count - 1 /\ ~destroyed /\ urls \in Seq(Int)
    BY <1>1 DEF FeedInv, ScrollInv, TypeOK
  <2> QED BY <2>1 DEF url_count
<1>3. /\ c \in Slots /\ Loaded(current_index) /\ current_index \in visited
      /\ CurrentSlot.mp # NoPlayer /\ CurrentSlot.feed_index = current_index
  BY <1>1, <1>2, TheCurrent DEF FeedInv, ScrollInv
<1>4. RestTypes'
  BY <1>1 DEF FeedInv, TypeOK, RestTypes
<1>5. CASE UNCHANGED <<players, pool>>
  <2>1. TypeOK' /\ PoolInv' /\ DroppedIsStopped' /\ LoopInv' /\ StartInv' /\ ReadyInv'
    BY <1>1, <1>4, <1>5, FeedStays
  <2>2. ScrollInv'
    BY <1>1, <1>3, <1>5 DEF ScrollInv, Loaded, Covered
  <2>3. PromptInv'
    BY <1>1, <1>5 DEF FeedInv, PromptInv, CurrentSlot
  <2> QED BY <2>1, <2>2, <2>3 DEF FeedInv
<1>6. CASE /\ ReleaseBefore >= 0 /\ Loaded(ReleaseBefore) /\ players' = Released(pool[s].mp)
           /\ pool' = [pool EXCEPT ![s].mp = NoPlayer, ![s].state = "IDLE", ![s].url = 0]
  <2> DEFINE o == pool[s].mp
  <2> DEFINE R == Released(o)
  <2>1. ReleaseBefore \in Nat /\ ReleaseBefore # current_index
    BY <1>2, <1>6, FeedAssumption DEF ReleaseBefore
  <2>2. s \in Slots /\ o # NoPlayer /\ pool[s].feed_index = ReleaseBefore
    BY <1>6, <2>1, PoolSlots DEF Loaded, Covered
  <2>3. s # c
    BY <1>3, <2>1, <2>2 DEF CurrentSlot
  <2>4. /\ R \in Seq(Player) /\ DOMAIN R = DOMAIN players
        /\ \A k \in DOMAIN players : k # o => R[k] = players[k]
        /\ o \in DOMAIN players /\ R[o].abort
        /\ \A k \in DOMAIN players : Passed(players[k], R[k]) /\ StartOK(R[k], visited)
        /\ \A r \in Slots : r # s /\ pool[r].mp # NoPlayer => pool[r].mp # o
    BY <1>2, <2>2, ReleasedIs
  <2> HIDE DEF R
  <2>5. players' = R
    BY <1>6 DEF R
  <2>6. /\ pool' \in [Slots -> Slot] /\ \A r \in Slots : r # s => pool'[r] = pool[r]
        /\ pool'[s].mp = NoPlayer
    <3> DEFINE x == [pool[s] EXCEPT !.mp = NoPlayer, !.state = "IDLE", !.url = 0]
    <3>1. pool \in [Slots -> Slot] /\ pool[s] \in Slot
      BY <2>2 DEF FeedInv, TypeOK
    <3>2. pool' = [pool EXCEPT ![s] = x]
      BY <1>6, <2>2, <3>1 DEF Slot
    <3>3. x \in Slot /\ x.mp = NoPlayer
      <4>1. NoPlayer \in Nat /\ "IDLE" \in ViralState /\ 0 \in Int
        BY DEF NoPlayer, ViralState
      <4> QED BY <3>1, <4>1 DEF Slot
    <3> HIDE DEF x
    <3> QED BY <2>2, <3>1, <3>2, <3>3
  <2>7. \A r \in Slots : pool[r].mp # NoPlayer =>
             /\ pool[r].mp \in DOMAIN players
             /\ pool[r].feed_index = players[pool[r].mp].index
             /\ PoolSlot(pool[r].feed_index) = r
    BY DEF FeedInv, TypeOK
  <2>8. \A r \in Slots : r # s /\ pool[r].mp # NoPlayer =>
            pool[r].mp \in DOMAIN players /\ players'[pool[r].mp] = players[pool[r].mp]
    BY <2>4, <2>5, <2>7
  <2>9. TypeOK'
    <3>1. \A r \in Slots : pool'[r].mp # NoPlayer =>
               /\ pool'[r].mp \in DOMAIN players'
               /\ pool'[r].feed_index = players'[pool'[r].mp].index
               /\ PoolSlot(pool'[r].feed_index) = r
      BY <2>4, <2>5, <2>6, <2>7, <2>8
    <3> QED BY <1>1, <1>4, <2>4, <2>5, <2>6, <3>1 DEF TypeOK, FeedInv, RestTypes
  <2>10. PoolInv' /\ DroppedIsStopped'
    <3>1. \A k \in DOMAIN players' : ~players'[k].abort => players'[k].ref = 2
      BY <2>4, <2>5 DEF FeedInv, PoolInv
    <3>2. \A r \in Slots : pool'[r].mp # NoPlayer => ~players'[pool'[r].mp].abort
      BY <1>2, <2>6, <2>8 DEF FeedInv, PoolInv
    <3>3. ASSUME NEW k \in DOMAIN players', ~players'[k].abort
          PROVE  \E r \in Slots : pool'[r].mp = k
      <4>1. k # o /\ k \in DOMAIN players /\ ~players[k].abort
        BY <2>4, <2>5, <3>3
      <4>2. PICK r \in Slots : pool[r].mp = k
        BY <4>1 DEF FeedInv, DroppedIsStopped
      <4> QED BY <2>6, <4>1, <4>2
    <3> QED BY <1>1, <1>2, <3>1, <3>2, <3>3 DEF PoolInv, DroppedIsStopped
  <2>11. LoopInv'
    <3>1. ASSUME NEW k \in DOMAIN loops
          PROVE  LoopOK(loops[k], players', visited)
      <4>1. loops[k].mp # NoPlayer => loops[k].mp \in DOMAIN players
        BY LoopTypes DEF FeedInv, LoopType
      <4>2. loops[k].mp # NoPlayer => Passed(players[loops[k].mp], players'[loops[k].mp])
        BY <2>4, <2>5, <4>1
      <4>3. LoopOK(loops[k], players, visited)
        BY DEF FeedInv, LoopInv
      <4> QED BY <4>2, <4>3, LoopPasses
    <3> QED BY <1>1, <3>1 DEF LoopInv
  <2>12. StartInv'
    BY <1>1, <2>4, <2>5 DEF StartInv
  <2>13. ReadyInv'
    BY <1>1, <2>6, <2>8 DEF FeedInv, ReadyInv, IsReady
  <2>14. ScrollInv'
    BY <1>1, <1>3, <2>3, <2>6 DEF ScrollInv, Loaded, Covered
  <2>15. PromptInv'
    <3>1. CurrentSlot' = CurrentSlot /\ players'[CurrentSlot.mp] = players[CurrentSlot.mp]
      BY <1>1, <1>3, <2>3, <2>6, <2>8 DEF CurrentSlot
    <3> QED BY <1>1, <1>2, <3>1 DEF FeedInv, PromptInv, Prompted
  <2> QED BY <2>9, <2>10, <2>11, <2>12, <2>13, <2>14, <2>15 DEF FeedInv
<1> QED BY <1>5, <1>6 DEF ScrollRelease

(* viral_feed_destroy leaves no player that was not told to stop. *)
LEMMA DestroyKeeps ==
    ASSUME FeedInv, Destroy
    PROVE  FeedInv'
<1>1. /\ ui.pc = "idle" /\ ~destroyed /\ destroyed'
      /\ UNCHANGED <<urls, pool, current_index, ui, loops, outOfBounds, visited, userPaused, faults>>
      /\ players' = [k \in DOMAIN players |->
                        IF \E s \in Slots : pool[s].mp = k THEN Release(players[k])
                                                           ELSE players[k]]
  BY DEF Destroy, Idle
<1>2. players \in Seq(Player)
  BY DEF FeedInv, TypeOK
<1>3. ASSUME NEW k \in DOMAIN players
      PROVE  /\ players'[k] \in Player /\ players'[k].abort
             /\ Passed(players[k], players'[k]) /\ StartOK(players'[k], visited)
  <2>1. players[k] \in Player /\ StartOK(players[k], visited) /\ k # NoPlayer
    BY <1>2 DEF FeedInv, StartInv, NoPlayer
  <2>2. CASE players[k].abort
    <3>1. ~\E s \in Slots : pool[s].mp = k
      BY <1>1, <2>1, <2>2 DEF FeedInv, PoolInv
    <3>2. players'[k] = players[k]
      BY <1>1, <3>1
    <3> QED BY <2>1, <2>2, <3>2 DEF Passed
  <2>3. CASE ~players[k].abort
    <3> DEFINE q == Release(players[k])
    <3>1. players'[k] = q /\ players[k].ref = 2
      BY <1>1, <2>3 DEF FeedInv, DroppedIsStopped, PoolInv
    <3>2. /\ q \in Player /\ q.abort /\ q.index = players[k].index
          /\ q.started = players[k].started /\ ~IsPlaying(q) /\ NoStart(q)
      BY <2>1, <3>1, ReleaseEnds
    <3> HIDE DEF q
    <3> QED BY <2>1, <3>1, <3>2 DEF Passed, StartOK
  <2> QED BY <2>2, <2>3
<1>4. DOMAIN players' = DOMAIN players
  BY <1>1
<1>5. players' \in Seq(Player)
  <2>1. players' \in [1 .. Len(players) -> Player] /\ Len(players) \in Nat
    BY <1>1, <1>2, <1>3
  <2> QED BY <2>1
<1>6. TypeOK'
  <2>1. \A s \in Slots : pool[s].mp # NoPlayer =>
            /\ pool[s].mp \in DOMAIN players
            /\ pool[s].feed_index = players[pool[s].mp].index
            /\ PoolSlot(pool[s].feed_index) = s
    BY DEF FeedInv, TypeOK
  <2>2. \A s \in Slots : pool[s].mp # NoPlayer =>
            /\ pool[s].mp \in DOMAIN players'
            /\ pool[s].feed_index = players'[pool[s].mp].index
            /\ PoolSlot(pool[s].feed_index) = s
    BY <1>3, <1>4, <2>1 DEF Passed
  <2> QED BY <1>1, <1>4, <1>5, <2>2 DEF TypeOK, FeedInv
<1>7. PoolInv' /\ DroppedIsStopped' /\ ReadyInv' /\ PromptInv'
  BY <1>1, <1>3, <1>4 DEF PoolInv, DroppedIsStopped, ReadyInv, PromptInv
<1>8. LoopInv'
  <2>1. ASSUME NEW k \in DOMAIN loops
        PROVE  LoopOK(loops[k], players', visited)
    <3>1. loops[k].mp # NoPlayer => loops[k].mp \in DOMAIN players
      BY LoopTypes DEF FeedInv, LoopType
    <3>2. loops[k].mp # NoPlayer => Passed(players[loops[k].mp], players'[loops[k].mp])
      BY <1>3, <3>1
    <3>3. LoopOK(loops[k], players, visited)
      BY DEF FeedInv, LoopInv
    <3> QED BY <3>2, <3>3, LoopPasses
  <2> QED BY <1>1, <2>1 DEF LoopInv
<1>9. StartInv'
  BY <1>1, <1>3, <1>4 DEF StartInv
<1>10. ScrollInv'
  BY <1>1 DEF FeedInv, ScrollInv, Loaded, Covered
<1> QED BY <1>6, <1>7, <1>8, <1>9, <1>10 DEF FeedInv

-----------------------------------------------------------------------------
LEMMA FeedInvInit ==
    Init => FeedInv
<1> SUFFICES ASSUME Init PROVE FeedInv
  OBVIOUS
<1>1. /\ urls = <<>> /\ players = <<>> /\ loops = <<>> /\ current_index = -1
      /\ ui = [pc |-> "idle", i |-> 0] /\ ~destroyed
  BY DEF Init
<1>2. /\ DOMAIN players = {} /\ DOMAIN loops = {} /\ players \in Seq(Player)
      /\ loops \in Seq([pc : LoopPlaces, mp : DOMAIN players \cup {NoPlayer}, slot : Slots])
      /\ urls \in Seq(Int)
  BY <1>1
<1>3. pool \in [Slots -> Slot] /\ \A s \in Slots : pool[s].mp = NoPlayer
  BY DEF Init, Slot, ViralState, NoPlayer
<1>4. TypeOK
  <2>1. /\ current_index \in Nat \cup {-1} /\ faults \in Nat
        /\ ui \in [pc : {"idle", "current", "preload", "release"}, i : Nat]
    BY <1>1 DEF Init
  <2>2. destroyed \in BOOLEAN /\ outOfBounds \in BOOLEAN /\ userPaused \in BOOLEAN
    BY DEF Init
  <2> QED BY <1>2, <1>3, <2>1, <2>2 DEF TypeOK, Init
<1>5. PoolInv /\ DroppedIsStopped /\ LoopInv /\ StartInv
  BY <1>2, <1>3 DEF PoolInv, DroppedIsStopped, LoopInv, StartInv
<1>6. ReadyInv
  BY <1>3 DEF ReadyInv, IsReady
<1>7. ScrollInv /\ PromptInv
  BY <1>1 DEF ScrollInv, PromptInv
<1> QED BY <1>4, <1>5, <1>6, <1>7 DEF FeedInv

(* The invariant of the feed, through every call of the application, every  *)
(* part of scroll_to, every message of the read threads and every step of   *)
(* every message loop.                                                      *)
THEOREM FeedInvariant == Spec => []FeedInv
<1>1. FeedInv /\ [Next]_vars => FeedInv'
  <2> SUFFICES ASSUME FeedInv, [Next]_vars PROVE FeedInv'
    OBVIOUS
  <2>1. CASE Application
    BY <2>1, SetUrlsKeeps, ScrollToKeeps, ControlKeeps, DestroyKeeps DEF Application
  <2>2. CASE Scroll
    BY <2>2, ScrollCurrentKeeps, ScrollPreloadKeeps, ScrollReleaseKeeps DEF Scroll
  <2>3. CASE \E k \in DOMAIN players : ReadThread(k) \/ Loop(k)
    BY <2>3, ReadKeeps, LoopKeeps
  <2>4. CASE UNCHANGED vars
    BY <2>4, StutterKeeps
  <2> QED BY <2>1, <2>2, <2>3, <2>4 DEF Next, Quiet
<1> QED BY <1>1, FeedInvInit, PTL DEF Spec

(* The state of the feed has its type, and a slot that holds a player holds *)
(* it for the index that player was made for.                               *)
THEOREM FeedTypeCorrect == Spec => []TypeOK
<1>1. FeedInv => TypeOK
  BY DEF FeedInv
<1> QED BY <1>1, FeedInvariant, PTL

(* After scroll_to the slot of the current index holds a player for it, in  *)
(* a pool of any size: preloading takes other slots as long as              *)
(* VIRAL_PRELOAD_COUNT is smaller than VIRAL_POOL_SIZE.                     *)
THEOREM CurrentIsLoaded == Spec => []CurrentLoaded
<1>1. FeedInv => CurrentLoaded
  BY DEF FeedInv, ScrollInv, CurrentLoaded, Idle, Loaded, Covered, CurrentSlot
<1> QED BY <1>1, FeedInvariant, PTL

(* No player leaves the pool without having been stopped and its queue      *)
(* aborted, by init_slot, by the release at the end of scroll_to or by      *)
(* viral_feed_destroy.                                                      *)
THEOREM DroppedAreStopped == Spec => []DroppedIsStopped
<1>1. FeedInv => DroppedIsStopped
  BY DEF FeedInv
<1> QED BY <1>1, FeedInvariant, PTL

(* No player starts for a video the user has not scrolled to, although the  *)
(* loop compares the index of a slot that may have been recycled, reads     *)
(* current_index without the lock, and starts its player a step later.      *)
THEOREM OnlyVisitedStart == Spec => []OnlyVisitedPlays
<1>1. FeedInv => OnlyVisitedPlays
  BY DEF FeedInv, StartInv, StartOK, OnlyVisitedPlays
<1> QED BY <1>1, FeedInvariant, PTL

(* scroll_to stores current_index and then reads the slot's state, the loop *)
(* stores READY and then reads current_index: in every interleaving one of  *)
(* them asks for the start, and no later request drops it.                  *)
THEOREM StartNotMissed == Spec => []NoMissedStart
<1>1. FeedInv => NoMissedStart
  <2> SUFFICES ASSUME FeedInv, Settled, current_index >= 0, CurrentSlot.state = "READY",
                      ~CurrentSlot.tainted
               PROVE  players[CurrentSlot.mp].started \/ userPaused
    BY DEF NoMissedStart, CurrentSlot
  <2>1. ui.pc = "idle" /\ ~destroyed
    BY DEF Settled, Idle
  <2>2. /\ CurrentSlot.mp \in DOMAIN players /\ CurrentSlot.mp # NoPlayer
        /\ ~players[CurrentSlot.mp].abort
    BY <2>1, TheCurrent
  <2>3. Prompted(CurrentSlot.mp, players, loops, userPaused)
    BY <2>1, <2>2 DEF FeedInv, PromptInv, IsReady
  <2>4. ~HasStart(players[CurrentSlot.mp])
    BY <2>2 DEF Settled, HasStart
  <2>5. \A k \in DOMAIN loops : loops[k].pc \in {"wait", "asleep", "exited"}
    BY DEF Settled, FeedInv, TypeOK
  <2> QED BY <2>3, <2>4, <2>5 DEF Prompted
<1> QED BY <1>1, FeedInvariant, PTL
=============================================================================
