------------------------------ MODULE ViralFeed ------------------------------
(***************************************************************************)
(* The feed of ViralEngine/core/ViralEngine.c: a fixed ring of player      *)
(* slots, a current index, and one message loop thread per player.         *)
(*                                                                         *)
(* One thread, the user interface's, calls the feed.  scroll_to holds      *)
(* feed->lock, which no message loop takes: the loops run between its      *)
(* steps, and write slot states and read current_index unprotected.  The   *)
(* loop of a player keeps the address of the slot it was created for, and  *)
(* still does when the slot has been given to another video.               *)
(***************************************************************************)
EXTENDS Integers, Sequences, FiniteSets, IjkMediaPlayer

CONSTANTS
    PoolSize,      \* VIRAL_POOL_SIZE
    PreloadCount,  \* VIRAL_PRELOAD_COUNT
    UrlLists,      \* the lists the application hands to set_urls
    LoopArgument,  \* what the loop function receives: "weak_thiz" or "player"
    MaxPlayers,    \* bound: players created
    AsksAgain,     \* bound: the players, by number, whose read thread repeats the
                   \* first start; in the code all do
    MaxFaults      \* bound: files that fail or end

ASSUME FeedAssumption ==
    /\ PoolSize \in Nat \ {0}
    /\ PreloadCount \in Nat
    /\ PreloadCount < PoolSize
    /\ UrlLists \subseteq Seq(Int)
    /\ LoopArgument \in {"weak_thiz", "player"}
    /\ MaxPlayers \in Nat
    /\ AsksAgain \subseteq Nat
    /\ MaxFaults \in Nat

VARIABLES
    urls,           \* the list set last
    pool,           \* the ring of ViralPlayer slots
    current_index,
    ui,             \* where the calling thread is inside scroll_to
    players,        \* every IjkMediaPlayer created, in order of creation
    loops,          \* the message loop thread of each of them
    destroyed,      \* viral_feed_destroy has freed the feed
    outOfBounds,    \* history: a slot outside the pool was accessed
    visited,        \* history: indices that have been current
    userPaused,     \* history: the user paused the video that is current
    faults          \* files that failed or ended so far

vars == <<urls, pool, current_index, ui, players, loops, destroyed, outOfBounds,
          visited, userPaused, faults>>

NoPlayer == 0

Slots == 0..PoolSize - 1

ViralState == {"IDLE", "PRELOADING", "READY", "PLAYING", "ERROR"}

(* tainted is history: the loop of an earlier player wrote the state. *)
Slot == [mp : Nat, state : ViralState, feed_index : Int, url : Int, tainted : BOOLEAN]

url_count == Len(urls)

(* A loop that has received a message stands at the step of its handler     *)
(* that comes next; "wild" is a loop that works on memory it does not own.  *)
Handling == {"PREPARED", "compare", "start", "playing", "COMPLETED", "ERROR"}

LoopPlaces == {"starting", "wait", "asleep", "exited", "wild"} \cup Handling

(* viral_get_pool_slot, for an index that is not negative. *)
PoolSlot(index) == index % PoolSize

(* The calling thread can make a call: it is in none, the feed exists, and  *)
(* its memory is sound.                                                     *)
Idle == ui.pc = "idle" /\ ~destroyed /\ ~outOfBounds

(* calloc: no player, and every slot claims feed index 0. *)
Init ==
    /\ urls = <<>>
    /\ pool = [s \in Slots |-> [mp |-> NoPlayer, state |-> "IDLE", feed_index |-> 0, url |-> 0,
                           tainted |-> FALSE]]
    /\ current_index = -1
    /\ ui = [pc |-> "idle", i |-> 0]
    /\ players = <<>>
    /\ loops = <<>>
    /\ destroyed = FALSE
    /\ outOfBounds = FALSE
    /\ visited = {}
    /\ userPaused = FALSE
    /\ faults = 0

-----------------------------------------------------------------------------
(* Slots *)

(* players after a call left the player k, if there is one, as p. *)
OnPlayer(k, p) == IF k = NoPlayer THEN players ELSE [players EXCEPT ![k] = p]

Released(k) == OnPlayer(k, Release(players[k]))

(* Mutant: the old player is dropped and not released. *)
InitSlotLeaks(s, index) ==
    /\ players' = Append(players, Prepared(index, TRUE))
    /\ loops' = Append(loops, [pc |-> "starting", mp |-> NoPlayer, slot |-> s])
    /\ pool' = [pool EXCEPT ![s] = [mp |-> Len(players) + 1, state |-> "PRELOADING",
                                    feed_index |-> index, url |-> urls[index + 1],
                                    tainted |-> FALSE]]
    /\ UNCHANGED faults

(* Mutant: the slot keeps the feed index of its last video. *)
InitSlotKeepsIndex(s, index) ==
    /\ players' = Append(Released(pool[s].mp), Prepared(index, TRUE))
    /\ loops' = Append(loops, [pc |-> "starting", mp |-> NoPlayer, slot |-> s])
    /\ pool' = [pool EXCEPT ![s].mp = Len(players) + 1, ![s].state = "PRELOADING",
                            ![s].url = urls[index + 1], ![s].tainted = FALSE]
    /\ UNCHANGED faults

(* viral_player_init_slot: the old player goes, a new one is created for    *)
(* the index and starts to prepare; its loop thread is started.             *)
InitSlot(s, index) ==
    \E opens \in BOOLEAN :
        /\ opens \/ faults < MaxFaults
        /\ faults' = IF opens THEN faults ELSE faults + 1
        /\ players' = Append(Released(pool[s].mp), Prepared(index, opens))
        /\ loops' = Append(loops, [pc |-> "starting", mp |-> NoPlayer, slot |-> s])
        /\ pool' = [pool EXCEPT ![s] = [mp |-> Len(players) + 1, state |-> "PRELOADING",
                                        feed_index |-> index, url |-> urls[index + 1],
                                        tainted |-> FALSE]]

Keep == UNCHANGED <<pool, players, loops, faults>>

(* Is the index covered by its slot?  The two tests of scroll_to differ:    *)
(* preloading does not look at mp.                                          *)
Covered(index) == pool[PoolSlot(index)].feed_index = index

(* Mutant: the test of the current slot leaves out mp, too. *)
LoadedUnchecked(index) == Covered(index)

Loaded(index) == Covered(index) /\ pool[PoolSlot(index)].mp # NoPlayer

-----------------------------------------------------------------------------
(* The application's calls *)

SetUrls(list) ==
    /\ Idle
    /\ urls' = list
    /\ UNCHANGED <<pool, current_index, ui, players, loops, destroyed, outOfBounds,
                   visited, userPaused, faults>>

(* The players a scroll_to creates, for the bound. *)
Missing(index) ==
    {i \in index..index + PreloadCount :
        i < url_count /\ ~(IF i = index THEN Loaded(i) ELSE Covered(i))}

(* scroll_to, first part: the new index is stored and the previous video    *)
(* paused.                                                                  *)
ScrollTo(index) ==
    LET prev == current_index
    IN  /\ Idle
        /\ index \in 0..url_count - 1
        /\ Len(players) + Cardinality(Missing(index)) <= MaxPlayers
        /\ current_index' = index
        /\ players' = IF prev >= 0 /\ prev # index /\ Loaded(prev)
                      THEN LET mp == pool[PoolSlot(prev)].mp
                           IN  OnPlayer(mp, PausePlayer(players[mp]))
                      ELSE players
        /\ ui' = [pc |-> "current", i |-> 1]
        /\ visited' = visited \cup {index}
        /\ userPaused' = (userPaused /\ prev = index)
        /\ UNCHANGED <<urls, pool, loops, destroyed, outOfBounds, faults>>

scrollFrame == <<urls, current_index, destroyed, outOfBounds, visited, userPaused>>

(* Mutant: a preloaded video is left to start by itself. *)
ScrollCurrentWaits ==
    /\ ui.pc = "current"
    /\ IF Loaded(current_index) THEN Keep
       ELSE InitSlot(PoolSlot(current_index), current_index)
    /\ ui' = [ui EXCEPT !.pc = "preload"]
    /\ UNCHANGED scrollFrame

(* Second part: start the current video if it is ready, create it if the    *)
(* slot does not hold it.  No state of the engine is ever PAUSED.           *)
ScrollCurrent ==
    LET s == PoolSlot(current_index)
    IN  /\ ui.pc = "current"
        /\ \/ /\ Loaded(current_index)
              /\ players' = IF pool[s].state = "READY"
                            THEN OnPlayer(pool[s].mp, Start(players[pool[s].mp]))
                            ELSE players
              /\ UNCHANGED <<pool, loops, faults>>
           \/ /\ ~Loaded(current_index)
              /\ InitSlot(s, current_index)
        /\ ui' = [ui EXCEPT !.pc = "preload"]
        /\ UNCHANGED scrollFrame

(* Third part: one video ahead per step. *)
ScrollPreload ==
    LET next == current_index + ui.i
        more == ui.i <= PreloadCount /\ next < url_count
    IN  /\ ui.pc = "preload"
        /\ \/ ~more /\ Keep
           \/ more /\ Covered(next) /\ Keep
           \/ more /\ ~Covered(next) /\ InitSlot(PoolSlot(next), next)
        /\ ui' = IF more THEN [ui EXCEPT !.i = @ + 1] ELSE [ui EXCEPT !.pc = "release"]
        /\ UNCHANGED scrollFrame

(* The one index behind that is released. *)
ReleaseBefore == current_index - PreloadCount - 1

(* Last part: the slot keeps the feed index of the player it gives back. *)
ScrollRelease ==
    LET s == PoolSlot(ReleaseBefore)
    IN  /\ ui.pc = "release"
        /\ IF ReleaseBefore >= 0 /\ Loaded(ReleaseBefore)
           THEN /\ players' = Released(pool[s].mp)
                /\ pool' = [pool EXCEPT ![s].mp = NoPlayer, ![s].state = "IDLE", ![s].url = 0]
           ELSE UNCHANGED <<players, pool>>
        /\ ui' = [pc |-> "idle", i |-> 0]
        /\ UNCHANGED <<scrollFrame, loops, faults>>

(* Every other call goes to pool[current_index % VIRAL_POOL_SIZE], which is *)
(* pool[-1] before the first scroll_to; after is the player after the call. *)
CurrentSlot == pool[PoolSlot(current_index)]

Control(after) ==
    /\ Idle
    /\ outOfBounds' = (current_index < 0)
    /\ players' = IF current_index < 0 THEN players ELSE OnPlayer(CurrentSlot.mp, after)
    /\ UNCHANGED <<urls, pool, current_index, ui, loops, destroyed, visited, faults>>

Play == Control(Start(players[CurrentSlot.mp])) /\ userPaused' = FALSE

Pause == Control(PausePlayer(players[CurrentSlot.mp])) /\ userPaused' = TRUE

(* mute, set_loop, seek, the two getters and get_player: the player's state *)
(* and requests stay as they are.                                           *)
Touch == Control(players[CurrentSlot.mp]) /\ UNCHANGED userPaused

(* viral_feed_destroy: the players of the pool are released and the feed is *)
(* freed; nobody waits for the message loops.                               *)
Destroy ==
    /\ Idle
    /\ players' = [k \in DOMAIN players |->
                      IF \E s \in Slots : pool[s].mp = k THEN Release(players[k])
                                                         ELSE players[k]]
    /\ destroyed' = TRUE
    /\ UNCHANGED <<urls, pool, current_index, ui, loops, outOfBounds, visited, userPaused,
                   faults>>

-----------------------------------------------------------------------------
(* The read thread of a player *)

readFrame == <<urls, pool, current_index, ui, loops, destroyed, outOfBounds, visited,
               userPaused>>

FileOpens(k) ==
    /\ players[k].stream = "opening"
    /\ players' = [players EXCEPT ![k] = Opens(@, k \in AsksAgain)]
    /\ UNCHANGED <<readFrame, faults>>

FileResumes(k) ==
    /\ players[k].stream = "waiting" /\ IsPlaying(players[k])
    /\ players' = [players EXCEPT ![k] = Resumes(@)]
    /\ UNCHANGED <<readFrame, faults>>

FileFails(k) ==
    /\ players[k].stream # "over"
    /\ faults < MaxFaults
    /\ players' = [players EXCEPT ![k] = Fails(@)]
    /\ faults' = faults + 1
    /\ UNCHANGED readFrame

FileEnds(k) ==
    /\ players[k].stream = "open" /\ IsPlaying(players[k])
    /\ faults < MaxFaults
    /\ players' = [players EXCEPT ![k] = Ends(@)]
    /\ faults' = faults + 1
    /\ UNCHANGED readFrame

ReadThread(k) == FileOpens(k) \/ FileResumes(k) \/ FileFails(k) \/ FileEnds(k)

-----------------------------------------------------------------------------
(* viral_msg_loop, the loop thread created with player k *)

loopFrame == <<urls, current_index, ui, destroyed, outOfBounds, visited, userPaused, faults>>

At(k, place) == loops[k].pc = place

GoTo(k, place) == loops' = [loops EXCEPT ![k].pc = place]

SetSlotState(k, state) ==
    LET s == loops[k].slot
    IN  pool' = [pool EXCEPT ![s].state = state,
                             ![s].tainted = @ \/ pool[s].mp # loops[k].mp]

(* The thread's first instructions read the slot's mp as it is by then; a   *)
(* null player fails the assertion of ijkmp_get_msg.                        *)
LoopStart(k) ==
    LET mp == pool[loops[k].slot].mp
    IN  /\ At(k, "starting")
        /\ loops' = [loops EXCEPT ![k].mp = mp,
                                  ![k].pc = IF LoopArgument = "player" \/ destroyed \/ mp = NoPlayer
                                            THEN "wild" ELSE "wait"]
        /\ UNCHANGED <<loopFrame, pool, players>>

(* ijkmp_get_msg: requests are carried out inside and the wait goes on; a   *)
(* change of state is looked at (ijkmp_is_playing) and matters if the       *)
(* player plays.                                                            *)
Received(m, p) ==
    CASE m \in {"START", "PAUSE"} -> "wait"
      [] m = "STATE"              -> IF IsPlaying(p) THEN "playing" ELSE "wait"
      [] OTHER                    -> m

(* The loop has the queue's mutex: it comes for a message, or was woken. *)
AtQueue(k) == At(k, "wait") \/ (At(k, "asleep") /\ players[loops[k].mp].woken > 0)

Awake(k) ==
    LET p == players[loops[k].mp] IN IF At(k, "wait") THEN p ELSE [p EXCEPT !.woken = @ - 1]

(* msg_queue_get inside it.  A loop that started late has read the player   *)
(* of the slot's next video: two loops can wait on one queue, and a signal  *)
(* is for one of them.                                                      *)
LoopGet(k) ==
    LET mp == loops[k].mp
        p  == Awake(k)
    IN  /\ AtQueue(k)
        /\ \/ /\ p.abort
              /\ players' = [players EXCEPT ![mp] = p]
              /\ GoTo(k, "exited")
           \/ /\ ~p.abort /\ p.msgs # <<>>
              /\ players' = [players EXCEPT ![mp] = GetMsg(p)]
              /\ GoTo(k, Received(Head(p.msgs), p))
           \/ /\ ~p.abort /\ p.msgs = <<>>
              /\ players' = [players EXCEPT ![mp] = Sleep(p)]
              /\ GoTo(k, "asleep")
        /\ UNCHANGED <<loopFrame, pool>>

(* A handler touches the feed; it must still be there. *)
Handles(k, place) == At(k, place) /\ ~destroyed

LoopWild(k) ==
    /\ loops[k].pc \in Handling /\ destroyed
    /\ GoTo(k, "wild")
    /\ UNCHANGED <<loopFrame, pool, players>>

(* PREPARED: READY is stored and reported, then the slot's index compared   *)
(* with current_index, then the player started.                             *)
LoopPrepared(k) ==
    /\ Handles(k, "PREPARED")
    /\ SetSlotState(k, "READY")
    /\ GoTo(k, "compare")
    /\ UNCHANGED <<loopFrame, players>>

(* Mutants: every prepared player is started, or none is. *)
LoopCompareNot(k) ==
    /\ Handles(k, "compare")
    /\ GoTo(k, "start")
    /\ UNCHANGED <<loopFrame, pool, players>>
LoopCompareNever(k) ==
    /\ Handles(k, "compare")
    /\ GoTo(k, "wait")
    /\ UNCHANGED <<loopFrame, pool, players>>

LoopCompare(k) ==
    /\ Handles(k, "compare")
    /\ GoTo(k, IF pool[loops[k].slot].feed_index = current_index THEN "start" ELSE "wait")
    /\ UNCHANGED <<loopFrame, pool, players>>

LoopAutoStart(k) ==
    /\ Handles(k, "start")
    /\ players' = [players EXCEPT ![loops[k].mp] = Start(@)]
    /\ GoTo(k, "wait")
    /\ UNCHANGED <<loopFrame, pool>>

(* The one write of the handlers of a started player, COMPLETED and ERROR. *)
LoopReport(k, place, state) ==
    /\ Handles(k, place)
    /\ SetSlotState(k, state)
    /\ GoTo(k, "wait")
    /\ UNCHANGED <<loopFrame, players>>

Loop(k) ==
    \/ LoopStart(k) \/ LoopGet(k) \/ LoopWild(k)
    \/ LoopPrepared(k) \/ LoopCompare(k) \/ LoopAutoStart(k)
    \/ LoopReport(k, "playing", "PLAYING")
    \/ LoopReport(k, "COMPLETED", "IDLE")
    \/ LoopReport(k, "ERROR", "ERROR")

-----------------------------------------------------------------------------
Application ==
    \/ \E list \in UrlLists : SetUrls(list)
    \/ \E index \in 0..url_count - 1 : ScrollTo(index)
    \/ Play \/ Pause \/ Touch
    \/ Destroy

Scroll == ScrollCurrent \/ ScrollPreload \/ ScrollRelease

(* Nothing is left to do, or the bounds are used up. *)
Quiet == ui.pc = "idle" /\ UNCHANGED vars

Next ==
    \/ Application
    \/ Scroll
    \/ \E k \in DOMAIN players : ReadThread(k) \/ Loop(k)
    \/ Quiet

Spec == Init /\ [][Next]_vars

(* The threads run, and a file that is being opened opens or fails; no file *)
(* has to fail or end, and the application owes no call.                    *)
Opening(k) == k \in DOMAIN players /\ players[k].stream = "opening" /\ ReadThread(k)

LoopRuns(k) == k \in DOMAIN loops /\ Loop(k)

FairSpec ==
    /\ Spec
    /\ WF_vars(Scroll)
    /\ \A k \in 1..MaxPlayers : WF_vars(Opening(k)) /\ WF_vars(LoopRuns(k))

-----------------------------------------------------------------------------
(* What the feed keeps. *)

(* Every variable has its type; a slot that holds a player holds it for an  *)
(* index of its own residue, and for the index the player was made for.     *)
TypeOK ==
    /\ urls \in Seq(Int)
    /\ pool \in [Slots -> Slot]
    /\ current_index \in Nat \cup {-1}
    /\ ui \in [pc : {"idle", "current", "preload", "release"}, i : Nat]
    /\ players \in Seq(Player)
    /\ loops \in Seq([pc : LoopPlaces, mp : DOMAIN players \cup {NoPlayer}, slot : Slots])
    /\ DOMAIN loops = DOMAIN players
    /\ \A s \in Slots : pool[s].mp # NoPlayer =>
          /\ pool[s].mp \in DOMAIN players
          /\ pool[s].feed_index = players[pool[s].mp].index
          /\ PoolSlot(pool[s].feed_index) = s
    /\ destroyed \in BOOLEAN
    /\ outOfBounds \in BOOLEAN
    /\ visited \subseteq Nat
    /\ userPaused \in BOOLEAN
    /\ faults \in Nat

(* After every scroll_to the slot of the current index holds a player for   *)
(* it: the calloc'ed feed_index 0 is not taken for a loaded video 0, and    *)
(* neither preloading nor the release recycles the current slot.            *)
CurrentLoaded ==
    Idle /\ current_index >= 0 =>
        CurrentSlot.mp # NoPlayer /\ CurrentSlot.feed_index = current_index

(* A player that has left the pool was stopped and its loop told to end; no *)
(* path through init_slot, the release or destroy forgets one.              *)
DroppedIsStopped ==
    \A k \in DOMAIN players :
        ~players[k].abort => ~destroyed /\ \E s \in Slots : pool[s].mp = k

(* A preloaded video does not play before the user has scrolled to it: the  *)
(* automatic start of the message loop is for the current index only, also  *)
(* when its slot was recycled between READY and the comparison.             *)
OnlyVisitedPlays ==
    \A k \in DOMAIN players : players[k].started => players[k].index \in visited

(* No thread has anything left to do. *)
Settled ==
    /\ Idle
    /\ \A k \in DOMAIN players :
          /\ loops[k].pc \in {"wait", "asleep", "exited"}
          /\ ~players[k].abort => players[k].msgs = <<>> /\ players[k].stream # "opening"

(* The start of the current video is not lost between scroll_to, which      *)
(* stores current_index and then reads the slot's state, and the loop,      *)
(* which stores READY and then reads current_index: when all is quiet a     *)
(* READY current video that never played was paused by the user.            *)
NoMissedStart ==
    LET slot == pool[PoolSlot(current_index)]
    IN  Settled /\ current_index >= 0 /\ slot.state = "READY" /\ ~slot.tainted
           => players[slot.mp].started \/ userPaused

Failed(p) == p.mp_state = "ERROR" \/ p.stream = "over"

HasNotPlayed(k) == k # NoPlayer => ~players[k].started

(* A video whose player has not played yet and on which the user stays      *)
(* starts to play, whichever of scroll_to and the message loop comes first, *)
(* unless its file fails, the user pauses it or the loop of a player that   *)
(* was in the slot before writes the state.  It is a claim about a loop     *)
(* that gets the argument the feed prepared: with the one ijkmp_msg_loop    *)
(* passes no video starts (MCViralFeedClaims).  And it is about the first   *)
(* visit: the engine never stores PAUSED, so that a video that played and   *)
(* was left is not started again by scroll_to.                              *)
CurrentStarts ==
    LoopArgument = "weak_thiz" =>
        \A i \in UNION {0..Len(list) - 1 : list \in UrlLists} :
            (Idle /\ current_index = i /\ HasNotPlayed(CurrentSlot.mp))
                ~> (\/ current_index # i \/ userPaused \/ destroyed
                    \/ CurrentSlot.tainted
                    \/ LET mp == CurrentSlot.mp
                       IN  mp # NoPlayer => players[mp].started \/ Failed(players[mp]))

(* The loop's player was released, or the feed destroyed. *)
ToldToEnd(k) ==
    /\ k \in DOMAIN loops
    /\ destroyed \/ (loops[k].mp # NoPlayer /\ players[loops[k].mp].abort)

(* More loops share the queue of loop k than a release signals: it aborts   *)
(* twice, but once if ffp_prepare_async_l had failed.                       *)
Outnumbered(k) ==
    LET mp == loops[k].mp
    IN  /\ mp # NoPlayer
        /\ Cardinality({j \in DOMAIN loops : loops[j].mp = mp})
              > IF players[mp].mp_state = "ERROR" THEN 1 ELSE 2

(* A message loop whose player was released, or whose feed was destroyed,   *)
(* ends: it does not sleep on in msg_queue_get, also when a late loop       *)
(* sleeps beside it.  Each abort of the queue wakes one loop, so that the   *)
(* claim is for no more loops than a release wakes.  A loop that meets the  *)
(* freed feed counts as ended; that there are such is no part of the claim. *)
LoopsEnd ==
    \A k \in 1..MaxPlayers :
        (ToldToEnd(k) /\ ~Outnumbered(k))
            ~> (k \in DOMAIN loops /\ loops[k].pc \in {"exited", "wild"})
=============================================================================
