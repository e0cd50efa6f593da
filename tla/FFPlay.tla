------------------------------- MODULE FFPlay -------------------------------
(***************************************************************************)
(* The playback pipeline of the vendored player (ff_ffplay.c), for a file  *)
(* with one video stream that is decoded in software, and the options of   *)
(* ViralEngine.c: not started on prepared; packet buffering on, no         *)
(* accurate seek and no frame dropping, which are the defaults.            *)
(*                                                                         *)
(* ff_read reads packets into videoq and does the seeks; ff_video_dec      *)
(* turns packets into frames and queues them in the ring pictq; ff_vout    *)
(* shows them; the application starts, pauses, seeks and stops.  A seek    *)
(* flushes videoq and raises its serial number; packets and frames carry   *)
(* the serial number they were queued under, and every thread compares it  *)
(* by itself, without a common lock.                                       *)
(*                                                                         *)
(* Each part that holds a mutex is one step, and so is what touches only   *)
(* one thread's data.  SDL_CondWait is a place that only a signal leaves.  *)
(* The waits with a time limit, and what they are signalled for, are left  *)
(* out: the thread simply goes on.                                         *)
(***************************************************************************)
EXTENDS Integers, Sequences, FiniteSets, MsgQueue

CONSTANTS
    PictqSize,   \* max_size of pictq
    MinFrames,   \* dcc.min_frames: packets that are enough
    MinMinFrames,\* MIN_MIN_FRAMES: packets without which buffering goes on
    CodecDelay,  \* frames the codec keeps back until it drains
    FileLen,     \* packets of the file
    SeekTargets, \* the positions the application seeks to
    LoopSettings,\* what the application passes to set_loop
    MaxCalls,    \* bound: start, pause, set_loop and seek calls
    MaxSeeks,    \* bound: seeks, the player's own included
    MaxFaults    \* bound: reads and seeks that fail

ASSUME FFPlayAssumption ==
    /\ PictqSize \in Nat /\ PictqSize >= 2
    /\ MinFrames \in Nat /\ MinMinFrames \in Nat /\ MinMinFrames <= MinFrames
    /\ CodecDelay \in Nat
    /\ FileLen \in Nat
    /\ SeekTargets \subseteq 0 .. FileLen
    /\ LoopSettings \subseteq BOOLEAN
    /\ MaxCalls \in Nat /\ MaxSeeks \in Nat /\ MaxFaults \in Nat

VARIABLES
    videoq,      \* PacketQueue: packets, serial, abort_request
    codec,       \* the AVCodecContext: frames inside, draining or not
    dec,         \* ff_video_dec: its place, viddec, and what it has in hand
    pictq,       \* FrameQueue
    vout,        \* the place of ff_vout
    read,        \* ff_read: its place, eof and completed
    play,        \* paused, pause_req, buffering_on, step, auto_resume
    seek,        \* seek_req and seek_pos
    abort_request,
    loop,        \* ffp->loop
    app,         \* the place of the application's thread
    msgs,        \* ffp->msg_queue: the requests and FFP_MSG_COMPLETED
    restart,     \* mp->restart_from_beginning: so will the next start
    file,        \* the demuxer: position; epoch counts its seeks (history)
    shown,       \* history: the frame shown last, stale frames since a seek
    calls, seeks, faults

vars == <<videoq, codec, dec, pictq, vout, read, play, seek, abort_request, loop, app,
          msgs, restart, file, shown, calls, seeks, faults>>

Kinds == {"flush", "data", "null"}
Packet == [kind : Kinds, serial : Nat, epoch : Nat]
Picture == [serial : Nat, epoch : Nat]
NoPicture == [serial |-> 0, epoch |-> 0]
NoPacket == [kind |-> "null", serial |-> 0, epoch |-> 0]

DecPlaces == {"none", "receive", "get", "buffer", "block", "waiting", "got", "picture",
              "full", "fill", "exited"}
VoutPlaces == {"top", "retry", "due", "stepping", "display", "exited"}
ReadPlaces == {"open", "prepared", "loop", "flush", "put", "resume", "limit", "finish", "read",
               "exited"}
AppPlaces == {"idle", "stopped", "join_read", "join_dec", "join_vout", "closed"}

Init ==
    /\ videoq = [pkts |-> <<>>, serial |-> 0, abort |-> TRUE]
    /\ codec = [frames |-> <<>>, draining |-> FALSE]
    /\ dec = [pc |-> "none", pkt_serial |-> 0, finished |-> 0, pkt |-> NoPacket,
              frame |-> 0]
    /\ pictq = [queue |-> [i \in 0 .. PictqSize - 1 |-> NoPicture], rindex |-> 0,
                rindex_shown |-> 0, windex |-> 0, size |-> 0]
    /\ vout = "top"
    /\ read = [pc |-> "open", eof |-> FALSE, completed |-> FALSE, error |-> FALSE]
    /\ play = [paused |-> FALSE, pause_req |-> TRUE, buffering_on |-> FALSE, step |-> FALSE,
               auto_resume |-> FALSE]
    /\ seek = [req |-> FALSE, pos |-> 0]
    /\ abort_request = FALSE
    /\ loop = 1
    /\ app = "idle"
    /\ msgs = <<>>
    /\ restart = FALSE
    /\ file = [pos |-> 0, epoch |-> 1, failed |-> FALSE]
    /\ shown = [frame |-> NoPicture, stale |-> 0]
    /\ calls = 0
    /\ seeks = 0
    /\ faults = 0

(* A message without an argument. *)
Request(what) == [what |-> what, pos |-> 0]

Fault == faults < MaxFaults /\ faults' = faults + 1

-----------------------------------------------------------------------------
(* Pause and buffering: each of these holds play_mutex.  p is play. *)

(* stream_update_pause_l: a step plays on through a pause. *)
UpdatePause(p) == [p EXCEPT !.paused = ~p.step /\ (p.pause_req \/ p.buffering_on)]

(* toggle_pause_l: the pause is updated before the step ends. *)
TogglePause(p, on) ==
    [UpdatePause([p EXCEPT !.pause_req = on, !.auto_resume = ~on]) EXCEPT !.step = FALSE]

(* ffp_toggle_buffering_l *)
ToggleBuffering(p, on) ==
    IF p.buffering_on = on THEN p ELSE UpdatePause([p EXCEPT !.buffering_on = on])

(* The end of a seek: resume if asked to, and step to the frame sought when *)
(* the video is paused.                                                     *)
Resumed(p) == IF p.auto_resume
              THEN UpdatePause([p EXCEPT !.pause_req = FALSE, !.buffering_on = TRUE,
                                         !.auto_resume = FALSE])
              ELSE p

(* Mutant: a paused video stays paused after a seek. *)
SeekNotStepped(p) == ToggleBuffering(Resumed(p), TRUE)

SeekResumes(p) ==
    LET q == Resumed(p)
        r == IF q.pause_req THEN [q EXCEPT !.step = TRUE, !.paused = FALSE] ELSE q
    IN  ToggleBuffering(r, TRUE)

-----------------------------------------------------------------------------
(* The packet queue.  q is videoq; a put or an abort signals the decoder.   *)

PacketPut(q, kind) ==
    IF q.abort THEN q
    ELSE LET s == IF kind = "flush" THEN q.serial + 1 ELSE q.serial
         IN  [q EXCEPT !.serial = s,
                       !.pkts = Append(@, [kind |-> kind, serial |-> s, epoch |-> file.epoch])]

PacketFlush(q) == [q EXCEPT !.pkts = <<>>]

(* packet_queue_start *)
PacketStart(q) == PacketPut([q EXCEPT !.abort = FALSE], "flush")

PacketAbort(q) == [q EXCEPT !.abort = TRUE]

(* SDL_CondSignal(q->cond), by a put that succeeds or an abort. *)
SignalPackets == dec' = IF dec.pc = "waiting" THEN [dec EXCEPT !.pc = "block"] ELSE dec

Put(kind) ==
    /\ videoq' = PacketPut(videoq, kind)
    /\ IF videoq.abort THEN UNCHANGED dec ELSE SignalPackets

-----------------------------------------------------------------------------
(* The frame queue.  f is pictq. *)

Remaining == pictq.size - pictq.rindex_shown
PeekIndex == (pictq.rindex + pictq.rindex_shown) % PictqSize

(* frame_queue_next with keep_last: the first frame stays in place. *)
FrameNext(f) ==
    IF f.rindex_shown = 0
    THEN [f EXCEPT !.rindex_shown = 1]
    ELSE [f EXCEPT !.queue[f.rindex] = NoPicture, !.rindex = (@ + 1) % PictqSize,
                   !.size = @ - 1]

(* Its signal wakes the decoder that waits for room. *)
SignalRoom == dec' = IF dec.pc = "full" THEN [dec EXCEPT !.pc = "picture"] ELSE dec

(* Mutant: the write index does not wrap around. *)
FramePushOn(f, picture) ==
    [f EXCEPT !.queue[f.windex] = picture, !.windex = @ + 1, !.size = @ + 1]

FramePush(f, picture) ==
    [f EXCEPT !.queue[f.windex] = picture, !.windex = (@ + 1) % PictqSize, !.size = @ + 1]

-----------------------------------------------------------------------------
(* ff_video_dec: ffplay_video_thread and decoder_decode_frame. *)

DecAt(place) == dec.pc = place
DecRest == UNCHANGED <<vout, read, seek, abort_request, loop, app, msgs, restart, file, shown,
                      calls, seeks, faults>>
DecGoto(place) == dec' = [dec EXCEPT !.pc = place]
Flushed == [frames |-> <<>>, draining |-> FALSE]

(* avcodec_receive_frame has a frame once it holds more than its delay.     *)
CodecReady == codec.frames # <<>> /\ (codec.draining \/ Len(codec.frames) > CodecDelay)

(* The top of the loop: frames of the current serial number are received    *)
(* until the codec wants a packet.                                          *)
DecodeReceive ==
    /\ DecAt("receive")
    /\ LET current == videoq.serial = dec.pkt_serial
       IN  \/ /\ current /\ videoq.abort
              /\ DecGoto("exited")
              /\ UNCHANGED codec
           \/ /\ current /\ ~videoq.abort /\ CodecReady
              /\ dec' = [dec EXCEPT !.pc = "picture", !.frame = Head(codec.frames)]
              /\ codec' = [codec EXCEPT !.frames = Tail(@)]
           \/ /\ current /\ ~videoq.abort /\ codec.frames = <<>> /\ codec.draining
              /\ dec' = [dec EXCEPT !.finished = dec.pkt_serial]
              /\ codec' = Flushed
           \/ /\ ~current \/ (~videoq.abort /\ ~CodecReady /\ ~codec.draining)
              /\ DecGoto("get")
              /\ UNCHANGED codec
    /\ UNCHANGED <<videoq, pictq, play>>
    /\ DecRest

(* packet_queue_get, at the place the caller goes to if there is no packet. *)
PacketGet(empty) ==
    \/ /\ videoq.abort
       /\ DecGoto("exited")
       /\ UNCHANGED videoq
    \/ /\ ~videoq.abort /\ videoq.pkts # <<>>
       /\ LET p == Head(videoq.pkts)
          IN  dec' = [dec EXCEPT !.pc = "got", !.pkt = p, !.pkt_serial = p.serial]
       /\ videoq' = [videoq EXCEPT !.pkts = Tail(@)]
    \/ /\ ~videoq.abort /\ videoq.pkts = <<>>
       /\ DecGoto(empty)
       /\ UNCHANGED videoq

(* The first, nonblocking try. *)
DecodeGet ==
    /\ DecAt("get")
    /\ PacketGet("buffer")
    /\ UNCHANGED <<codec, pictq, play>>
    /\ DecRest

(* No packet: playing pauses for buffering, unless the stream has ended. *)
DecodeBuffer ==
    /\ DecAt("buffer")
    /\ play' = IF dec.finished = 0 THEN ToggleBuffering(play, TRUE) ELSE play
    /\ DecGoto("block")
    /\ UNCHANGED <<videoq, codec, pictq>>
    /\ DecRest

DecodeBlock ==
    /\ DecAt("block")
    /\ PacketGet("waiting")
    /\ UNCHANGED <<codec, pictq, play>>
    /\ DecRest

(* The packets of a stream that has ended and of older serial numbers are   *)
(* thrown away.                                                             *)
Discarded == dec.finished = dec.pkt_serial \/ videoq.serial # dec.pkt_serial

(* avcodec_send_packet: a codec that drains takes no more. *)
CodecSend(p) ==
    codec' = IF codec.draining THEN codec
             ELSE IF p.kind = "null" THEN [codec EXCEPT !.draining = TRUE]
             ELSE [codec EXCEPT !.frames = Append(@, p.epoch)]

(* Mutant: the codec is not flushed. *)
DecodeUnflushed ==
    /\ DecAt("got")
    /\ \/ /\ Discarded
          /\ DecGoto("get")
          /\ UNCHANGED codec
       \/ /\ ~Discarded /\ dec.pkt.kind = "flush"
          /\ dec' = [dec EXCEPT !.pc = "receive", !.finished = 0]
          /\ UNCHANGED codec
       \/ /\ ~Discarded /\ dec.pkt.kind # "flush"
          /\ DecGoto("receive")
          /\ CodecSend(dec.pkt)
    /\ UNCHANGED <<videoq, pictq, play>>
    /\ DecRest

DecodePacket ==
    /\ DecAt("got")
    /\ \/ /\ Discarded
          /\ DecGoto("get")
          /\ UNCHANGED codec
       \/ /\ ~Discarded /\ dec.pkt.kind = "flush"
          /\ dec' = [dec EXCEPT !.pc = "receive", !.finished = 0]
          /\ codec' = Flushed
       \/ /\ ~Discarded /\ dec.pkt.kind # "flush"
          /\ DecGoto("receive")
          /\ CodecSend(dec.pkt)
    /\ UNCHANGED <<videoq, pictq, play>>
    /\ DecRest

(* Mutant: the frame that is kept is not counted. *)
PeekRemaining ==
    /\ DecAt("picture")
    /\ DecGoto(IF Remaining >= PictqSize /\ ~videoq.abort THEN "full"
               ELSE IF videoq.abort THEN "exited" ELSE "fill")
    /\ UNCHANGED <<videoq, codec, pictq, play>>
    /\ DecRest

(* frame_queue_peek_writable *)
PeekWritable ==
    /\ DecAt("picture")
    /\ DecGoto(IF pictq.size >= PictqSize /\ ~videoq.abort THEN "full"
               ELSE IF videoq.abort THEN "exited" ELSE "fill")
    /\ UNCHANGED <<videoq, codec, pictq, play>>
    /\ DecRest

(* The rest of queue_picture: the slot is filled, then pushed. *)
QueuePicture ==
    /\ DecAt("fill")
    /\ pictq' = FramePush(pictq, [serial |-> dec.pkt_serial, epoch |-> dec.frame])
    /\ DecGoto("receive")
    /\ UNCHANGED <<videoq, codec, play>>
    /\ DecRest

Decode ==
    \/ DecodeReceive \/ DecodeGet \/ DecodeBuffer \/ DecodeBlock \/ DecodePacket
    \/ PeekWritable \/ QueuePicture

-----------------------------------------------------------------------------
(* ff_vout: video_refresh_thread and video_refresh. *)

VoutRest == UNCHANGED <<videoq, codec, read, seek, abort_request, loop, app, msgs, restart, file,
                        calls, seeks, faults>>

(* The loop sleeps while the video is paused or not open. *)
VoutTop ==
    /\ vout = "top"
    /\ \/ abort_request /\ vout' = "exited"
       \/ ~abort_request /\ videoq.serial > 0 /\ ~play.paused /\ vout' = "retry"
    /\ UNCHANGED <<dec, pictq, play, shown>>
    /\ VoutRest

PeekStale == pictq.queue[PeekIndex].serial # videoq.serial

(* frame_queue_next; it signals only when it gives a slot back. *)
NextFrame ==
    /\ pictq' = FrameNext(pictq)
    /\ IF pictq.rindex_shown = 1 THEN SignalRoom ELSE UNCHANGED dec

(* Mutant: frames of older serial numbers are shown like any other. *)
NeverDropped == FALSE

(* Frames of older serial numbers are dropped. *)
DropStale == PeekStale

VoutDrop ==
    /\ vout = "retry"
    /\ Remaining > 0
    /\ DropStale
    /\ NextFrame
    /\ UNCHANGED <<vout, play, shown>>
    /\ VoutRest

(* Nothing to show, or not now: paused, or before its time. *)
VoutLater ==
    /\ vout = "retry"
    /\ Remaining = 0 \/ ~DropStale
    /\ vout' = "top"
    /\ UNCHANGED <<dec, pictq, play, shown>>
    /\ VoutRest

VoutDue ==
    /\ vout = "retry"
    /\ Remaining > 0 /\ ~DropStale /\ ~play.paused
    /\ vout' = "due"
    /\ UNCHANGED <<dec, pictq, play, shown>>
    /\ VoutRest

VoutAdvance ==
    /\ vout = "due"
    /\ NextFrame
    /\ vout' = "stepping"
    /\ UNCHANGED <<play, shown>>
    /\ VoutRest

(* Under play_mutex: a step ends with the frame it was for. *)
VoutStep ==
    /\ vout = "stepping"
    /\ play' = IF play.step
               THEN LET q == [play EXCEPT !.step = FALSE]
                    IN  IF q.paused THEN q ELSE UpdatePause(q)
               ELSE play
    /\ vout' = "display"
    /\ UNCHANGED <<dec, pictq, shown>>
    /\ VoutRest

(* video_image_display2 shows the frame that is kept. *)
VoutDisplay ==
    /\ vout = "display"
    /\ LET f == pictq.queue[pictq.rindex]
       IN  shown' = [frame |-> f,
                     stale |-> IF f.serial # videoq.serial THEN shown.stale + 1
                               ELSE shown.stale]
    /\ vout' = "top"
    /\ UNCHANGED <<dec, pictq, play>>
    /\ VoutRest

VideoRefresh ==
    VoutTop \/ VoutDrop \/ VoutLater \/ VoutDue \/ VoutAdvance \/ VoutStep \/ VoutDisplay

-----------------------------------------------------------------------------
(* ff_read: read_thread. *)

ReadAt(place) == read.pc = place
ReadGoto(place) == read' = [read EXCEPT !.pc = place]
ReadRest == UNCHANGED <<codec, pictq, vout, abort_request, app, restart, calls>>

(* The streams are opened: the decoder starts on a queue that holds the     *)
(* first flush packet, and the video waits, paused, to be started.  A stop  *)
(* that comes after the last interruptible read does not keep the streams   *)
(* from opening, and packet_queue_start takes back its abort of the queue.  *)
OpenStream ==
    /\ ReadAt("open")
    /\ videoq' = PacketStart(videoq)
    /\ dec' = [dec EXCEPT !.pc = "receive"]
    /\ play' = TogglePause(play, TRUE)
    /\ ReadGoto("prepared")
    /\ UNCHANGED <<seek, loop, msgs, file, shown, seeks, faults>>
    /\ ReadRest

(* Opening fails, or is interrupted. *)
OpenFails ==
    /\ ReadAt("open")
    /\ IF abort_request THEN UNCHANGED faults ELSE Fault
    /\ ReadGoto("exited")
    /\ UNCHANGED <<videoq, dec, play, seek, loop, msgs, file, shown, seeks>>
    /\ ReadRest

(* A start that was asked for is asked for once more. *)
WaitStart ==
    /\ ReadAt("prepared")
    /\ ~play.pause_req \/ abort_request
    /\ play' = [play EXCEPT !.auto_resume = FALSE]
    /\ msgs' = IF play.auto_resume /\ app = "idle" THEN Append(msgs, Request("start")) ELSE msgs
    /\ ReadGoto("loop")
    /\ UNCHANGED <<videoq, dec, seek, loop, file, shown, seeks, faults>>
    /\ ReadRest

(* Mutant: the loop does not look at abort_request. *)
ReadLoopOn ==
    /\ ReadAt("loop")
    /\ ReadGoto(IF seek.req THEN "flush" ELSE "limit")
    /\ play' = IF seek.req THEN ToggleBuffering(play, TRUE) ELSE play
    /\ UNCHANGED <<videoq, dec, seek, loop, msgs, file, shown, seeks, faults>>
    /\ ReadRest

ReadLoop ==
    /\ ReadAt("loop")
    /\ ReadGoto(IF abort_request THEN "exited" ELSE IF seek.req THEN "flush" ELSE "limit")
    /\ play' = IF ~abort_request /\ seek.req THEN ToggleBuffering(play, TRUE) ELSE play
    /\ UNCHANGED <<videoq, dec, seek, loop, msgs, file, shown, seeks, faults>>
    /\ ReadRest

(* The end of a seek, done or failed: another may be asked for. *)
SeekDone ==
    /\ seek' = [seek EXCEPT !.req = FALSE]
    /\ read' = [read EXCEPT !.pc = "resume", !.eof = FALSE, !.completed = FALSE]

SeekFile ==
    /\ ReadAt("flush")
    /\ file' = [pos |-> seek.pos, epoch |-> file.epoch + 1, failed |-> FALSE]
    /\ videoq' = PacketFlush(videoq)
    /\ ReadGoto("put")
    /\ UNCHANGED <<dec, play, seek, loop, msgs, shown, seeks, faults>>
    /\ ReadRest

SeekFails ==
    /\ ReadAt("flush")
    /\ Fault
    /\ SeekDone
    /\ UNCHANGED <<videoq, dec, play, loop, msgs, file, shown, seeks>>
    /\ ReadRest

SeekPut ==
    /\ ReadAt("put")
    /\ Put("flush")
    /\ SeekDone
    /\ shown' = [shown EXCEPT !.stale = 0]
    /\ UNCHANGED <<play, loop, msgs, file, seeks, faults>>
    /\ ReadRest

SeekResume ==
    /\ ReadAt("resume")
    /\ play' = SeekResumes(play)
    /\ ReadGoto("limit")
    /\ UNCHANGED <<videoq, dec, seek, loop, msgs, file, shown, seeks, faults>>
    /\ ReadRest

(* stream_has_enough_packets *)
Enough == videoq.abort \/ Len(videoq.pkts) > MinFrames

(* The packets queued can be larger than max_buffer_size. *)
MayBeFull == \E i \in DOMAIN videoq.pkts : videoq.pkts[i].kind = "data"

ReadLimit ==
    /\ ReadAt("limit")
    /\ \/ /\ ~seek.req /\ (Enough \/ MayBeFull)
          /\ ReadGoto("loop")
          /\ play' = IF read.eof THEN play ELSE ToggleBuffering(play, FALSE)
       \/ /\ seek.req \/ ~Enough
          /\ ReadGoto("finish")
          /\ UNCHANGED play
    /\ UNCHANGED <<videoq, dec, seek, loop, msgs, file, shown, seeks, faults>>
    /\ ReadRest

(* stream_seek: a request that waits or is being served wins. *)
StreamSeek(pos) ==
    IF seek.req
    THEN UNCHANGED <<seek, seeks>>
    ELSE /\ seeks < MaxSeeks
         /\ seek' = [req |-> TRUE, pos |-> pos]
         /\ seeks' = seeks + 1

(* Mutant: what waits in pictq is not looked at. *)
OverDecoded == (~play.paused \/ read.completed) /\ dec.finished = videoq.serial

(* Everything was decoded and shown. *)
Over ==
    /\ ~play.paused \/ read.completed
    /\ dec.finished = videoq.serial
    /\ Remaining = 0

FinishNot ==
    /\ ReadAt("finish") /\ ~Over
    /\ ReadGoto("read")
    /\ UNCHANGED <<videoq, dec, play, seek, loop, msgs, file, shown, seeks, faults>>
    /\ ReadRest

(* loop counts the times to play: 1 is the last, 0 and less never end.  A   *)
(* negative count does not reach 0 in 2^31 rounds, and is left as it is.    *)
(* Past the bound on seeks a repeated video stays at its end.               *)
FinishRepeats ==
    /\ ReadAt("finish") /\ Over /\ loop # 1
    /\ loop' = IF loop <= 0 THEN loop ELSE loop - 1
    /\ \/ StreamSeek(0)
       \/ ~seek.req /\ seeks >= MaxSeeks /\ UNCHANGED <<seek, seeks>>
    /\ ReadGoto("read")
    /\ UNCHANGED <<videoq, dec, play, msgs, file, shown, faults>>
    /\ ReadRest

(* FFP_MSG_COMPLETED, or FFP_MSG_ERROR after a read that failed. *)
FinishCompletes ==
    /\ ReadAt("finish") /\ Over /\ loop = 1 /\ ~read.completed
    /\ read' = [read EXCEPT !.pc = "read", !.completed = TRUE]
    /\ play' = TogglePause(ToggleBuffering(play, FALSE), TRUE)
    /\ msgs' = IF read.error \/ app # "idle" THEN msgs ELSE Append(msgs, Request("completed"))
    /\ UNCHANGED <<videoq, dec, seek, loop, file, shown, seeks, faults>>
    /\ ReadRest

(* Completed: wait for a seek or the end. *)
FinishWaits ==
    /\ ReadAt("finish") /\ Over /\ loop = 1 /\ read.completed
    /\ abort_request \/ seek.req
    /\ ReadGoto(IF abort_request THEN "read" ELSE "loop")
    /\ UNCHANGED <<videoq, dec, play, seek, loop, msgs, file, shown, seeks, faults>>
    /\ ReadRest

(* ffp_check_buffering_l may find enough packets, by bytes or by duration,  *)
(* to end the buffering.                                                    *)
CheckBuffering(q) ==
    \/ UNCHANGED play
    \/ Len(q.pkts) >= MinMinFrames /\ play' = ToggleBuffering(play, FALSE)

ReadPacket ==
    /\ ReadAt("read") /\ file.pos < FileLen
    /\ Put("data")
    /\ file' = [file EXCEPT !.pos = @ + 1]
    /\ read' = [read EXCEPT !.pc = "loop", !.eof = FALSE]
    /\ CheckBuffering(videoq')
    /\ UNCHANGED <<seek, loop, msgs, shown, seeks, faults>>
    /\ ReadRest

(* Mutant: the end of the file does not end the buffering. *)
ReadEofBuffers ==
    /\ ReadAt("read") /\ file.pos = FileLen
    /\ IF read.eof THEN UNCHANGED <<videoq, dec>> ELSE Put("null")
    /\ read' = [read EXCEPT !.pc = "loop", !.eof = TRUE, !.error = FALSE]
    /\ UNCHANGED <<play, seek, loop, msgs, file, shown, seeks, faults>>
    /\ ReadRest

(* The end of the file: the null packet makes the decoder drain, once. *)
ReadEof ==
    /\ ReadAt("read") /\ file.pos = FileLen
    /\ IF read.eof THEN UNCHANGED <<videoq, dec>> ELSE Put("null")
    /\ read' = [read EXCEPT !.pc = "loop", !.eof = TRUE, !.error = FALSE]
    /\ play' = ToggleBuffering(play, FALSE)
    /\ UNCHANGED <<seek, loop, msgs, file, shown, seeks, faults>>
    /\ ReadRest

(* An error of the connection, or the interruption of a read by the stop:   *)
(* two null packets.                                                        *)
ReadFails ==
    /\ ReadAt("read")
    /\ IF abort_request THEN UNCHANGED faults ELSE Fault
    /\ videoq' = PacketPut(PacketPut(videoq, "null"), "null")
    /\ IF videoq.abort THEN UNCHANGED dec ELSE SignalPackets
    /\ file' = [file EXCEPT !.failed = TRUE]
    /\ read' = [read EXCEPT !.pc = "loop", !.eof = TRUE, !.error = TRUE]
    /\ play' = ToggleBuffering(play, FALSE)
    /\ UNCHANGED <<seek, loop, msgs, shown, seeks>>
    /\ ReadRest

ReadThread ==
    \/ OpenStream \/ WaitStart \/ ReadLoop \/ SeekFile \/ SeekPut \/ SeekResume \/ ReadLimit
    \/ FinishNot \/ FinishRepeats \/ FinishCompletes \/ FinishWaits \/ ReadPacket \/ ReadEof
    \/ (abort_request /\ (OpenFails \/ ReadFails))

-----------------------------------------------------------------------------
(* The application, through ijkplayer.c. *)

AppRest == UNCHANGED <<codec, vout, read, file, shown, faults>>

(* The calls are accepted once the player is prepared and until it is       *)
(* stopped.  They leave a request, which ijkmp_get_msg executes.            *)
Call(what, pos, replaced) ==
    /\ app = "idle"
    /\ videoq.serial > 0
    /\ calls < MaxCalls
    /\ calls' = calls + 1
    /\ msgs' = Append(Without(msgs, [what : replaced, pos : 0 .. FileLen]),
                       [what |-> what, pos |-> pos])
    /\ UNCHANGED <<videoq, dec, pictq, play, seek, abort_request, loop, app, restart, seeks>>
    /\ AppRest

(* ijkmp_start, ijkmp_pause and ijkmp_seek_to *)
Start == Call("start", 0, {"start", "pause"})
Pause == Call("pause", 0, {"start", "pause"})
SeekTo(pos) == Call("seek", pos, {"seek"})

(* viral_feed_set_loop passes -1 or 0, and is executed at once. *)
SetLoop(on) ==
    /\ app = "idle"
    /\ videoq.serial > 0
    /\ calls < MaxCalls
    /\ calls' = calls + 1
    /\ loop' = IF on THEN -1 ELSE 0
    /\ UNCHANGED <<videoq, dec, pictq, play, seek, abort_request, app, msgs, restart, seeks>>
    /\ AppRest

(* ijkmp_get_msg, called by the message loop until the player is stopped. *)
GetMsg(what) ==
    /\ app = "idle"
    /\ msgs # <<>>
    /\ Head(msgs).what = what
    /\ msgs' = Tail(msgs)
    /\ UNCHANGED <<videoq, dec, pictq, abort_request, loop, app, calls>>
    /\ AppRest

GetStart ==
    /\ GetMsg("start")
    /\ ~restart
    /\ play' = TogglePause(play, FALSE)
    /\ UNCHANGED <<seek, restart, seeks>>

(* ffp_start_from_l: the start after the end. *)
GetStartFrom ==
    /\ GetMsg("start")
    /\ restart
    /\ play' = ToggleBuffering([play EXCEPT !.auto_resume = TRUE], TRUE)
    /\ StreamSeek(0)
    /\ restart' = FALSE

GetPause ==
    /\ GetMsg("pause")
    /\ play' = TogglePause(play, TRUE)
    /\ UNCHANGED <<seek, restart, seeks>>

GetSeek ==
    /\ GetMsg("seek")
    /\ StreamSeek(Head(msgs).pos)
    /\ restart' = FALSE
    /\ UNCHANGED play

GetCompleted ==
    /\ GetMsg("completed")
    /\ restart' = TRUE
    /\ UNCHANGED <<play, seek, seeks>>

MessageLoop == GetStart \/ GetStartFrom \/ GetPause \/ GetSeek \/ GetCompleted

(* ffp_stop_l; a queue that was aborted delivers no message. *)
StopPlaying ==
    /\ abort_request' = TRUE
    /\ play' = TogglePause(play, TRUE)
    /\ msgs' = <<>>

(* ijkmp_stop *)
Stop ==
    /\ app = "idle"
    /\ StopPlaying
    /\ app' = "stopped"
    /\ UNCHANGED <<videoq, dec, pictq, seek, loop, restart, calls, seeks>>
    /\ AppRest

(* ijkmp_shutdown: ffp_wait_stop_l, which joins the threads one by one. *)
Shutdown ==
    /\ app \in {"idle", "stopped"}
    /\ StopPlaying
    /\ videoq' = PacketAbort(videoq)
    /\ SignalPackets
    /\ app' = "join_read"
    /\ UNCHANGED <<pictq, seek, loop, restart, calls, seeks>>
    /\ AppRest

(* The streams that were opened are closed: decoder_abort. *)
JoinRead ==
    /\ app = "join_read"
    /\ ReadAt("exited")
    /\ app' = IF DecAt("none") THEN "join_vout" ELSE "join_dec"
    /\ videoq' = PacketAbort(videoq)
    /\ dec' = [dec EXCEPT !.pc = CASE @ = "waiting" -> "block"
                                  [] @ = "full" -> "picture"
                                  [] OTHER -> @]
    /\ UNCHANGED <<pictq, play, seek, abort_request, loop, msgs, restart, calls, seeks>>
    /\ AppRest

JoinDecoder ==
    /\ app = "join_dec"
    /\ DecAt("exited")
    /\ app' = "join_vout"
    /\ videoq' = PacketFlush(videoq)
    /\ UNCHANGED <<dec, pictq, play, seek, abort_request, loop, msgs, restart, calls, seeks>>
    /\ AppRest

JoinVout ==
    /\ app = "join_vout"
    /\ vout = "exited"
    /\ app' = "closed"
    /\ UNCHANGED <<videoq, dec, pictq, play, seek, abort_request, loop, msgs, restart, calls, seeks>>
    /\ AppRest

Joining == JoinRead \/ JoinDecoder \/ JoinVout

Closed == app = "closed" /\ UNCHANGED vars

Next ==
    \/ Decode
    \/ VideoRefresh
    \/ ReadThread
    \/ OpenFails \/ SeekFails \/ ReadFails
    \/ Start \/ Pause
    \/ \E pos \in SeekTargets : SeekTo(pos)
    \/ \E on \in LoopSettings : SetLoop(on)
    \/ MessageLoop
    \/ Stop \/ Shutdown
    \/ Joining
    \/ Closed

Spec == Init /\ [][Next]_vars

(* The scheduler runs every thread that can go on, and the time of a frame  *)
(* that is looked at again and again comes.  Nobody has to call.            *)
FairSpec ==
    /\ Spec
    /\ WF_vars(Decode)
    /\ WF_vars(VideoRefresh)
    /\ SF_vars(VoutDue)
    /\ WF_vars(ReadThread)
    /\ WF_vars(Joining)

-----------------------------------------------------------------------------
(* Properties *)

TypeOK ==
    /\ videoq \in [pkts : Seq(Packet), serial : Nat, abort : BOOLEAN]
    /\ codec \in [frames : Seq(Nat), draining : BOOLEAN]
    /\ dec \in [pc : DecPlaces, pkt_serial : Nat, finished : Nat, pkt : Packet, frame : Nat]
    /\ pictq \in [queue : [0 .. PictqSize - 1 -> Picture], rindex : 0 .. PictqSize - 1,
                   rindex_shown : {0, 1}, windex : 0 .. PictqSize - 1, size : 0 .. PictqSize]
    /\ vout \in VoutPlaces
    /\ read \in [pc : ReadPlaces, eof : BOOLEAN, completed : BOOLEAN, error : BOOLEAN]
    /\ play \in [paused : BOOLEAN, pause_req : BOOLEAN, buffering_on : BOOLEAN, step : BOOLEAN,
                  auto_resume : BOOLEAN]
    /\ seek \in [req : BOOLEAN, pos : 0 .. FileLen]
    /\ abort_request \in BOOLEAN
    /\ loop \in Int
    /\ app \in AppPlaces
    /\ msgs \in Seq([what : {"start", "pause", "seek", "completed"}, pos : 0 .. FileLen])
    /\ restart \in BOOLEAN
    /\ file \in [pos : 0 .. FileLen, epoch : Nat, failed : BOOLEAN]
    /\ shown \in [frame : Picture, stale : Nat]
    /\ calls \in Nat /\ seeks \in Nat /\ faults \in Nat

(* The serial number of a frame tells the truth: a frame queued under the   *)
(* serial number of the n-th seek was read after that seek.  No frame the   *)
(* codec kept back from before a seek comes out under the new number.       *)
FramesOfTheirSerial ==
    \A i \in 0 .. PictqSize - 1 : pictq.queue[i].serial = pictq.queue[i].epoch

(* The slots ff_vout looks at: the frame that is due, the frame on screen.  *)
Watched == (IF vout \in {"due"} THEN {PeekIndex} ELSE {})
           \cup (IF pictq.rindex_shown = 1 THEN {pictq.rindex} ELSE {})

(* The decoder never writes into the slot of the frame on screen or of the  *)
(* frame that is due, and what is displayed is a frame: keep_last, the ring *)
(* indices and the size, kept by two threads, stay in step.                 *)
ShownIsKept ==
    /\ DecAt("fill") => pictq.windex \notin Watched
    /\ \A i \in Watched : pictq.queue[i] # NoPicture

(* After a seek at most one frame from before it is shown: the one ff_vout  *)
(* had taken when the serial number changed.                                *)
OneStaleFrame == shown.stale <= 1

(* FFP_MSG_COMPLETED comes at the end: when it is posted no packet read     *)
(* since the last seek is left between the demuxer and the ring, and in the *)
(* ring at most the frame at rindex, unless a read has failed.  That frame  *)
(* is the one on screen, or, if it was taken over and its display is still  *)
(* to come, the last one: the code calls this "a bit early".                *)
CompletedAtEnd ==
    [][read'.completed /\ ~read.completed /\ ~file.failed =>
           /\ file.pos = FileLen
           /\ \A i \in DOMAIN videoq.pkts : videoq.pkts[i].kind # "data"
           /\ codec.frames = <<>>
           /\ dec.pc \notin {"picture", "full", "fill"}
           /\ \A i \in 0 .. PictqSize - 1 :
                  pictq.queue[i].serial = videoq.serial => i = pictq.rindex]_vars

(* Every shutdown returns: each thread it joins ends, wherever the stop     *)
(* met it, and no wake-up is lost.                                          *)
ShutdownReturns == app = "join_read" ~> app = "closed"

(* A seek shows: once the user leaves the player alone, a frame read after  *)
(* the seek reaches the screen, paused or not, unless the file ends there,  *)
(* a read fails, the video is repeated or the player is stopped.  One case  *)
(* is left out: an older frame that ff_vout took before the seek and shows  *)
(* after it uses up the step of a paused video, which then shows that frame.*)
SeekShows ==
    (/\ calls = MaxCalls /\ msgs = <<>>
     /\ ReadAt("resume") /\ vout \notin {"due", "stepping"}
     /\ shown.frame.serial # videoq.serial /\ file.pos < FileLen)
    ~> (shown.frame.serial = videoq.serial \/ abort_request \/ file.failed \/ seek.req)

(* The buffering of a video that was started comes to an end: a decoder     *)
(* without packets, a seek and a start from the start turn it on, and the   *)
(* reading thread always finds an occasion to turn it off, also at the end  *)
(* of the file.                                                             *)
BufferingEnds ==
    play.buffering_on /\ ~ReadAt("prepared") ~> ~play.buffering_on \/ abort_request
=============================================================================
