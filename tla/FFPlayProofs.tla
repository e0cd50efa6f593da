---------------------------- MODULE FFPlayProofs ----------------------------
(***************************************************************************)
(* Proofs about the playback pipeline, for rings, files, codec delays and  *)
(* buffering limits of any size and for any number of calls, seeks and     *)
(* failures.                                                               *)
(***************************************************************************)
EXTENDS FFPlay, MsgQueueProofs, TLAPS

(* The ring: the write index is size slots after the read index, every slot *)
(* between them holds a picture, and each thread that is about to touch a   *)
(* slot may.                                                                *)
Ring(f) ==
    /\ f.windex = (f.rindex + f.size) % PictqSize
    /\ f.rindex_shown <= f.size
    /\ \A k \in 0 .. f.size - 1 : f.queue[(f.rindex + k) % PictqSize].serial >= 1

RingInv ==
    /\ Ring(pictq)
    /\ DecAt("fill") => pictq.size < PictqSize
    /\ vout = "due" => pictq.rindex_shown < pictq.size
    /\ vout \in {"stepping", "display"} => pictq.rindex_shown = 1

(* A packet comes after one of serial number s: a flush raises the number   *)
(* and nothing else does.                                                   *)
Follows(p, s) == IF p.kind = "flush" THEN p.serial > s ELSE p.serial = s

(* The packets that wait in q follow one of serial number s, and one        *)
(* another, up to the serial number of the queue.                           *)
Linked(q, s) ==
    /\ q.pkts # <<>> => Follows(q.pkts[1], s) /\ q.pkts[Len(q.pkts)].serial = q.serial
    /\ \A i \in 2 .. Len(q.pkts) : Follows(q.pkts[i], q.pkts[i - 1].serial)

(* The serial number of a packet counts the seeks before it was read. *)
Truthful(q) ==
    \A i \in DOMAIN q.pkts : q.pkts[i].serial \in 1 .. q.serial /\ q.pkts[i].epoch = q.pkts[i].serial

(* Until the queue is aborted, its packets follow the one the decoder has,  *)
(* and its serial number is behind the demuxer's only while a seek puts its *)
(* flush packet.                                                            *)
ChainInv ==
    /\ videoq.serial >= 1
    /\ file.epoch = videoq.serial + (IF ReadAt("put") THEN 1 ELSE 0)
    /\ Linked(videoq, dec.pkt_serial)
    /\ videoq.pkts = <<>> => ReadAt("put") \/ dec.pkt_serial = videoq.serial

PacketInv ==
    /\ ReadAt("open") => /\ videoq.pkts = <<>> /\ videoq.serial = 0 /\ videoq.abort
                         /\ file.epoch = 1 /\ DecAt("none")
    /\ ~DecAt("none") => videoq.serial >= 1
    /\ DecAt("exited") => videoq.abort
    /\ Truthful(videoq)
    /\ dec.pkt_serial <= videoq.serial
    /\ ~videoq.abort => ChainInv

(* The decoder: the packet it has says the truth, the codec holds frames of *)
(* the current serial number from the flush packet of that number on, and   *)
(* so is the frame in hand.                                                 *)
Flushing == DecAt("got") /\ dec.pkt.kind = "flush"

DecoderInv ==
    /\ dec.pkt.serial = dec.pkt_serial /\ dec.pkt.epoch = dec.pkt_serial
    /\ dec.finished <= dec.pkt_serial
    /\ Flushing => dec.finished < dec.pkt_serial
    /\ dec.pkt_serial = videoq.serial /\ ~Flushing =>
           \A i \in DOMAIN codec.frames : codec.frames[i] = dec.pkt_serial
    /\ dec.pc \in {"picture", "full", "fill"} => dec.frame = dec.pkt_serial /\ dec.pkt_serial >= 1

(* A frame from before the last seek is shown once at most: from then on    *)
(* the frame that is due, or that was taken, is a current one.              *)
StaleInv ==
    /\ videoq.serial = 0 => vout \in {"top", "exited"}
    /\ shown.stale <= 1
    /\ shown.stale = 1 =>
           /\ vout = "due" => pictq.queue[PeekIndex].serial = videoq.serial
           /\ vout \in {"stepping", "display"} => pictq.queue[pictq.rindex].serial = videoq.serial

FFInv ==
    /\ TypeOK /\ RingInv /\ PacketInv /\ DecoderInv /\ FramesOfTheirSerial /\ StaleInv

-----------------------------------------------------------------------------
(* What completion rests on, beside FFInv *)

(* A queue is aborted together with the player, and the demuxer is out of   *)
(* step with the queue only while a seek puts its flush packet, or after    *)
(* one that came too late, on the way out.                                  *)
ReaderInv ==
    /\ videoq.abort => read.pc \in {"open", "exited"} \/ (abort_request /\ app # "idle")
    /\ read.pc \notin {"open", "exited"} =>
           /\ videoq.serial >= 1
           /\ \/ file.epoch = videoq.serial + (IF ReadAt("put") THEN 1 ELSE 0)
              \/ videoq.abort /\ ~seek.req /\ read.pc \in {"resume", "limit", "loop"}

(* The slots outside the ring's frames are blank. *)
Distance(f, i) == IF i >= f.rindex THEN i - f.rindex ELSE i - f.rindex + PictqSize

Blank(f) == \A i \in 0 .. PictqSize - 1 : Distance(f, i) >= f.size => f.queue[i].serial = 0

(* A decoder that has finished holds nothing. *)
DrainedInv ==
    dec.finished = videoq.serial => codec.frames = <<>> /\ dec.pc \notin {"picture", "full", "fill"}

(* The demuxer reads what the queue takes, without an error so far. *)
InStep == ~file.failed /\ file.epoch = videoq.serial

(* The end of the file has come as far as the decoder. *)
EndSeen ==
    \/ DecAt("got") /\ dec.pkt.kind = "null" /\ dec.pkt_serial = videoq.serial
    \/ dec.pkt_serial = videoq.serial /\ codec.draining /\ ~Flushing
    \/ dec.finished = videoq.serial

(* The null packet comes after the last packet of the file. *)
NoData(q, n) == \A i \in DOMAIN q.pkts : i > n => q.pkts[i].kind # "data"

LastInv ==
    InStep =>
        /\ \A i \in DOMAIN videoq.pkts :
               videoq.pkts[i].kind = "null" /\ videoq.pkts[i].serial = videoq.serial =>
                   file.pos = FileLen /\ NoData(videoq, i)
        /\ EndSeen => file.pos = FileLen /\ NoData(videoq, 0)

EndInv == ReaderInv /\ Blank(pictq) /\ DrainedInv /\ LastInv

-----------------------------------------------------------------------------
(* Types *)

PlayType == [paused : BOOLEAN, pause_req : BOOLEAN, buffering_on : BOOLEAN, step : BOOLEAN,
             auto_resume : BOOLEAN]
Message == [what : {"start", "pause", "seek", "completed"}, pos : 0 .. FileLen]

LEMMA UpdatePauseType ==
    ASSUME NEW p \in PlayType
    PROVE  UpdatePause(p) \in PlayType
BY DEF UpdatePause, PlayType

LEMMA PlayTypes ==
    ASSUME NEW p \in PlayType, NEW on \in BOOLEAN
    PROVE  /\ TogglePause(p, on) \in PlayType
           /\ ToggleBuffering(p, on) \in PlayType
           /\ SeekResumes(p) \in PlayType
<1>1. TogglePause(p, on) \in PlayType
  BY DEF TogglePause, UpdatePause, PlayType
<1>2. \A q \in PlayType, b \in BOOLEAN : ToggleBuffering(q, b) \in PlayType
  BY DEF ToggleBuffering, UpdatePause, PlayType
<1>3. Resumed(p) \in PlayType
  BY DEF Resumed, UpdatePause, PlayType
<1>4. SeekResumes(p) \in PlayType
  <2> DEFINE q == Resumed(p)
  <2> DEFINE r == IF q.pause_req THEN [q EXCEPT !.step = TRUE, !.paused = FALSE] ELSE q
  <2>1. r \in PlayType
    <3> HIDE DEF q
    <3> QED BY <1>3 DEF PlayType, q
  <2>2. SeekResumes(p) = ToggleBuffering(r, TRUE)
    BY DEF SeekResumes
  <2> QED BY <2>1, <2>2, <1>2
<1> QED BY <1>1, <1>2, <1>4

PacketQueue == [pkts : Seq(Packet), serial : Nat, abort : BOOLEAN]
Decoder == [pc : DecPlaces, pkt_serial : Nat, finished : Nat, pkt : Packet, frame : Nat]
FrameQueue == [queue : [0 .. PictqSize - 1 -> Picture], rindex : 0 .. PictqSize - 1,
               rindex_shown : {0, 1}, windex : 0 .. PictqSize - 1, size : 0 .. PictqSize]

(* The put of a packet keeps the queue a queue. *)
LEMMA PutType ==
    ASSUME NEW q \in PacketQueue, NEW kind \in Kinds, file.epoch \in Nat
    PROVE  PacketPut(q, kind) \in PacketQueue
<1> DEFINE s == IF kind = "flush" THEN q.serial + 1 ELSE q.serial
<1> DEFINE p == [kind |-> kind, serial |-> s, epoch |-> file.epoch]
<1>1. s \in Nat /\ p \in Packet /\ q.pkts \in Seq(Packet)
  BY DEF PacketQueue, Packet
<1>2. Append(q.pkts, p) \in Seq(Packet)
  BY <1>1
<1>3. PacketPut(q, kind) = IF q.abort THEN q
                           ELSE [q EXCEPT !.serial = s, !.pkts = Append(q.pkts, p)]
  BY DEF PacketPut, PacketQueue
<1> QED
  <2> HIDE DEF s, p
  <2> QED BY <1>1, <1>2, <1>3 DEF PacketQueue

LEMMA NudgeType ==
    ASSUME dec \in Decoder, SignalPackets \/ SignalRoom \/ UNCHANGED dec
    PROVE  dec' \in Decoder
BY DEF Decoder, SignalPackets, SignalRoom, DecPlaces

LEMMA GotoType ==
    ASSUME dec \in Decoder, NEW place \in DecPlaces
    PROVE  [dec EXCEPT !.pc = place] \in Decoder
BY DEF Decoder

(* The places of a ring after the read index. *)
LEMMA Mod ==
    ASSUME NEW x \in 0 .. 2 * PictqSize - 1
    PROVE  x % PictqSize = IF x < PictqSize THEN x ELSE x - PictqSize
<1>1. PictqSize \in Nat /\ PictqSize > 0
  BY FFPlayAssumption
<1> QED BY <1>1

LEMMA FrameNextType ==
    ASSUME pictq \in FrameQueue, pictq.rindex_shown < pictq.size
    PROVE  FrameNext(pictq) \in FrameQueue
<1>1. (pictq.rindex + 1) % PictqSize \in 0 .. PictqSize - 1
  BY Mod, FFPlayAssumption DEF FrameQueue
<1>2. NoPicture \in Picture
  BY DEF NoPicture, Picture
<1>3. CASE pictq.rindex_shown = 0
  BY <1>3 DEF FrameNext, FrameQueue
<1>4. CASE pictq.rindex_shown = 1
  <2>1. [pictq.queue EXCEPT ![pictq.rindex] = NoPicture] \in [0 .. PictqSize - 1 -> Picture]
    BY <1>2 DEF FrameQueue
  <2>2. pictq.size - 1 \in 0 .. PictqSize
    BY FFPlayAssumption, <1>4 DEF FrameQueue
  <2>3. FrameNext(pictq) = [pictq EXCEPT !.queue = [pictq.queue EXCEPT ![pictq.rindex] = NoPicture],
                              !.rindex = (pictq.rindex + 1) % PictqSize, !.size = pictq.size - 1]
    BY <1>4 DEF FrameNext, FrameQueue
  <2> QED BY <2>1, <2>2, <2>3, <1>1 DEF FrameQueue
<1> QED BY <1>3, <1>4 DEF FrameQueue

LEMMA FramePushType ==
    ASSUME pictq \in FrameQueue, pictq.size < PictqSize, NEW p \in Picture
    PROVE  FramePush(pictq, p) \in FrameQueue
<1>1. (pictq.windex + 1) % PictqSize \in 0 .. PictqSize - 1
  BY Mod, FFPlayAssumption DEF FrameQueue
<1>2. [pictq.queue EXCEPT ![pictq.windex] = p] \in [0 .. PictqSize - 1 -> Picture]
  BY DEF FrameQueue
<1>3. pictq.size + 1 \in 0 .. PictqSize
  BY FFPlayAssumption DEF FrameQueue
<1>4. FramePush(pictq, p) = [pictq EXCEPT !.queue = [pictq.queue EXCEPT ![pictq.windex] = p],
                               !.windex = (pictq.windex + 1) % PictqSize, !.size = pictq.size + 1]
  BY DEF FramePush, FrameQueue
<1> QED BY <1>1, <1>2, <1>3, <1>4 DEF FrameQueue

CodecType == [frames : Seq(Nat), draining : BOOLEAN]
ReadType == [pc : ReadPlaces, eof : BOOLEAN, completed : BOOLEAN, error : BOOLEAN]
SeekType == [req : BOOLEAN, pos : 0 .. FileLen]
FileType == [pos : 0 .. FileLen, epoch : Nat, failed : BOOLEAN]
ShownType == [frame : Picture, stale : Nat]

(* TypeOK with its sets named, which keeps the proofs of the steps small. *)
Types ==
    /\ videoq \in PacketQueue /\ codec \in CodecType /\ dec \in Decoder /\ pictq \in FrameQueue
    /\ vout \in VoutPlaces /\ read \in ReadType /\ play \in PlayType /\ seek \in SeekType
    /\ abort_request \in BOOLEAN /\ loop \in Int /\ app \in AppPlaces /\ msgs \in Seq(Message)
    /\ restart \in BOOLEAN /\ file \in FileType /\ shown \in ShownType
    /\ calls \in Nat /\ seeks \in Nat /\ faults \in Nat

LEMMA TypesAre == TypeOK <=> Types
BY DEF TypeOK, Types, PacketQueue, CodecType, Decoder, FrameQueue, ReadType, PlayType, SeekType,
       Message, FileType, ShownType

LEMMA DecodeTypes ==
    ASSUME Types, RingInv, Decode
    PROVE  Types'
<1> USE DEF Types
<1>1. CASE DecodeReceive
  <2>1. dec' \in Decoder
    <3>1. CASE \E place \in DecPlaces : DecGoto(place)
      BY <3>1, GotoType DEF DecGoto
    <3>2. CASE CodecReady /\ dec' = [dec EXCEPT !.pc = "picture", !.frame = Head(codec.frames)]
      <4>1. Head(codec.frames) \in Nat
        BY <3>2 DEF CodecReady, CodecType
      <4> QED BY <4>1, <3>2 DEF Decoder, DecPlaces
    <3>3. CASE dec' = [dec EXCEPT !.finished = dec.pkt_serial]
      BY <3>3 DEF Decoder
    <3> QED BY <1>1, <3>1, <3>2, <3>3 DEF DecodeReceive, DecPlaces
  <2>2. codec' \in CodecType
    <3>1. CodecReady => Tail(codec.frames) \in Seq(Nat)
      BY DEF CodecReady, CodecType
    <3>2. CodecReady => [codec EXCEPT !.frames = Tail(@)] \in CodecType
      BY <3>1 DEF CodecType
    <3>3. Flushed \in CodecType
      BY DEF CodecType, Flushed
    <3> QED BY <1>1, <3>2, <3>3 DEF DecodeReceive
  <2> QED BY <1>1, <2>1, <2>2 DEF DecodeReceive, DecRest
<1>2. ASSUME NEW empty \in DecPlaces, PacketGet(empty)
      PROVE  videoq' \in PacketQueue /\ dec' \in Decoder
  <2>1. CASE \E place \in DecPlaces : DecGoto(place) /\ UNCHANGED videoq
    BY <2>1, GotoType DEF DecGoto
  <2>2. CASE /\ videoq.pkts # <<>>
             /\ dec' = [dec EXCEPT !.pc = "got", !.pkt = Head(videoq.pkts),
                                   !.pkt_serial = Head(videoq.pkts).serial]
             /\ videoq' = [videoq EXCEPT !.pkts = Tail(@)]
    <3>1. Head(videoq.pkts) \in Packet /\ Tail(videoq.pkts) \in Seq(Packet)
      BY <2>2 DEF PacketQueue
    <3>2. Head(videoq.pkts).serial \in Nat
      BY <3>1 DEF Packet
    <3> QED BY <2>2, <3>1, <3>2 DEF PacketQueue, Decoder, DecPlaces
  <2> QED BY <1>2, <2>1, <2>2 DEF PacketGet, DecPlaces
<1>3. CASE DecodeGet
  BY <1>3, <1>2 DEF DecodeGet, DecRest, DecPlaces
<1>4. CASE DecodeBlock
  BY <1>4, <1>2 DEF DecodeBlock, DecRest, DecPlaces
<1>5. CASE DecodeBuffer
  <2>1. play' \in PlayType /\ dec' \in Decoder
    BY <1>5, PlayTypes, GotoType DEF DecodeBuffer, DecGoto, DecPlaces
  <2> QED BY <1>5, <2>1 DEF DecodeBuffer, DecRest
<1>6. CASE DecodePacket
  <2>1. dec' \in Decoder
    <3>1. [dec EXCEPT !.pc = "receive", !.finished = 0] \in Decoder
      BY DEF Decoder, DecPlaces
    <3> QED BY <1>6, <3>1, GotoType DEF DecodePacket, DecGoto, DecPlaces
  <2>2. codec' \in CodecType
    <3>1. Flushed \in CodecType
      BY DEF CodecType, Flushed
    <3>2. [codec EXCEPT !.draining = TRUE] \in CodecType
      BY DEF CodecType
    <3>3. dec.pkt.epoch \in Nat
      BY DEF Decoder, Packet
    <3>4. Append(codec.frames, dec.pkt.epoch) \in Seq(Nat)
      BY <3>3 DEF CodecType
    <3>5. [codec EXCEPT !.frames = Append(@, dec.pkt.epoch)] \in CodecType
      BY <3>4 DEF CodecType
    <3> QED BY <1>6, <3>1, <3>2, <3>5 DEF DecodePacket, CodecSend
  <2> QED BY <1>6, <2>1, <2>2 DEF DecodePacket, DecRest
<1>7. CASE PeekWritable
  <2>1. dec' \in Decoder
    BY <1>7, GotoType DEF PeekWritable, DecGoto, DecPlaces
  <2> QED BY <1>7, <2>1 DEF PeekWritable, DecRest
<1>8. CASE QueuePicture
  <2>1. dec' \in Decoder
    BY <1>8, GotoType DEF QueuePicture, DecGoto, DecPlaces
  <2>2. [serial |-> dec.pkt_serial, epoch |-> dec.frame] \in Picture
    BY DEF Picture, Decoder
  <2>3. pictq' \in FrameQueue
    BY <1>8, <2>2, FramePushType DEF QueuePicture, RingInv
  <2> QED BY <1>8, <2>1, <2>3 DEF QueuePicture, DecRest
<1> QED BY <1>1, <1>3, <1>4, <1>5, <1>6, <1>7, <1>8 DEF Decode

LEMMA VoutTypes ==
    ASSUME Types, RingInv, VideoRefresh
    PROVE  Types'
<1> USE DEF Types
<1>1. pictq.rindex_shown < pictq.size /\ NextFrame => pictq' \in FrameQueue /\ dec' \in Decoder
  BY FrameNextType, NudgeType DEF NextFrame
<1>2. CASE VoutTop \/ VoutLater \/ VoutDue
  BY <1>2 DEF VoutTop, VoutLater, VoutDue, VoutRest, VoutPlaces
<1>3. CASE VoutDrop
  <2>1. pictq.rindex_shown < pictq.size
    BY <1>3 DEF VoutDrop, Remaining, FrameQueue
  <2> QED BY <1>3, <2>1, <1>1 DEF VoutDrop, VoutRest
<1>4. CASE VoutAdvance
  BY <1>4, <1>1 DEF VoutAdvance, VoutRest, VoutPlaces, RingInv
<1>5. CASE VoutStep
  <2>1. [play EXCEPT !.step = FALSE] \in PlayType
    BY DEF PlayType
  <2>2. play' \in PlayType
    BY <1>5, <2>1, UpdatePauseType DEF VoutStep
  <2> QED BY <1>5, <2>2 DEF VoutStep, VoutRest, VoutPlaces
<1>6. CASE VoutDisplay
  <2>1. pictq.queue[pictq.rindex] \in Picture
    BY DEF FrameQueue
  <2>2. shown.stale \in Nat
    BY DEF ShownType
  <2>3. shown' \in ShownType
    BY <1>6, <2>1, <2>2 DEF VoutDisplay, ShownType
  <2> QED BY <1>6, <2>3 DEF VoutDisplay, VoutRest, VoutPlaces
<1> QED BY <1>2, <1>3, <1>4, <1>5, <1>6 DEF VideoRefresh

LEMMA MessageType ==
    ASSUME NEW s \in Seq(Message), NEW what \in {"start", "pause", "seek", "completed"}
    PROVE  Append(s, Request(what)) \in Seq(Message)
<1>1. Request(what) \in Message
  BY FFPlayAssumption DEF Request, Message
<1> QED BY <1>1

LEMMA StreamSeekType ==
    ASSUME seek \in SeekType, seeks \in Nat, NEW pos \in 0 .. FileLen, StreamSeek(pos)
    PROVE  seek' \in SeekType /\ seeks' \in Nat
<1>1. [req |-> TRUE, pos |-> pos] \in SeekType
  BY DEF SeekType
<1>2. CASE seek.req
  BY <1>2 DEF StreamSeek
<1>3. CASE ~seek.req
  <2>1. seek' = [req |-> TRUE, pos |-> pos] /\ seeks' = seeks + 1
    BY <1>3 DEF StreamSeek
  <2> QED BY <1>1, <2>1
<1> QED BY <1>2, <1>3

LEMMA ReadTypes ==
    ASSUME Types, ReadThread \/ OpenFails \/ SeekFails \/ ReadFails
    PROVE  Types'
<1> USE DEF Types
<1>1. ASSUME NEW place \in ReadPlaces, ReadGoto(place)
      PROVE  read' \in ReadType
  BY <1>1 DEF ReadGoto, ReadType
<1>2. file.epoch \in Nat /\ file.pos \in 0 .. FileLen /\ seek.pos \in 0 .. FileLen
  BY DEF FileType, SeekType
<1>3. ASSUME NEW kind \in Kinds, Put(kind)
      PROVE  videoq' \in PacketQueue /\ dec' \in Decoder
  BY <1>2, <1>3, PutType, NudgeType DEF Put
<1>4. ASSUME SeekDone
      PROVE  seek' \in SeekType /\ read' \in ReadType
  BY <1>4 DEF SeekDone, SeekType, ReadType, ReadPlaces
<1>5. ASSUME Fault
      PROVE  faults' \in Nat
  BY <1>5 DEF Fault
<1>6. CASE OpenStream
  <2>1. [videoq EXCEPT !.abort = FALSE] \in PacketQueue
    BY DEF PacketQueue
  <2>2. videoq' \in PacketQueue
    BY <1>6, <1>2, <2>1, PutType DEF OpenStream, PacketStart, Kinds
  <2>3. dec' \in Decoder /\ play' \in PlayType /\ read' \in ReadType
    BY <1>6, <1>1, GotoType, PlayTypes DEF OpenStream, DecPlaces, ReadPlaces
  <2> QED BY <1>6, <2>2, <2>3 DEF OpenStream, ReadRest
<1>7. CASE OpenFails
  BY <1>7, <1>1, <1>5 DEF OpenFails, ReadPlaces, ReadRest
<1>8. CASE WaitStart
  <2>1. play' \in PlayType
    BY <1>8 DEF WaitStart, PlayType
  <2>2. msgs' \in Seq(Message)
    BY <1>8, MessageType DEF WaitStart
  <2> QED BY <1>8, <1>1, <2>1, <2>2 DEF WaitStart, ReadRest, ReadPlaces
<1>9. CASE ReadLoop
  <2>1. play' \in PlayType /\ read' \in ReadType
    BY <1>9, <1>1, PlayTypes DEF ReadLoop, ReadPlaces
  <2> QED BY <1>9, <2>1 DEF ReadLoop, ReadRest
<1>10. CASE SeekFile
  <2>1. videoq' \in PacketQueue
    <3>1. <<>> \in Seq(Packet)
      OBVIOUS
    <3> QED BY <1>10, <3>1 DEF SeekFile, PacketFlush, PacketQueue
  <2>2. file' \in FileType
    BY <1>10, <1>2 DEF SeekFile, FileType
  <2> QED BY <1>10, <1>1, <2>1, <2>2 DEF SeekFile, ReadRest, ReadPlaces
<1>11. CASE SeekFails
  BY <1>11, <1>4, <1>5 DEF SeekFails, ReadRest
<1>12. CASE SeekPut
  <2>1. shown' \in ShownType
    BY <1>12 DEF SeekPut, ShownType
  <2> QED BY <1>12, <1>3, <1>4, <2>1 DEF SeekPut, ReadRest, Kinds
<1>13. CASE SeekResume
  BY <1>13, <1>1, PlayTypes DEF SeekResume, ReadRest, ReadPlaces
<1>14. CASE ReadLimit
  <2>1. play' \in PlayType /\ read' \in ReadType
    BY <1>14, <1>1, PlayTypes DEF ReadLimit, ReadPlaces
  <2> QED BY <1>14, <2>1 DEF ReadLimit, ReadRest
<1>15. CASE FinishNot \/ FinishWaits
  <2>1. read' \in ReadType
    BY <1>15, <1>1 DEF FinishNot, FinishWaits, ReadPlaces
  <2> QED BY <1>15, <2>1 DEF FinishNot, FinishWaits, ReadRest
<1>16. CASE FinishRepeats
  <2>1. seek' \in SeekType /\ seeks' \in Nat
    <3>1. 0 \in 0 .. FileLen
      BY FFPlayAssumption
    <3> QED BY <1>16, <3>1, StreamSeekType DEF FinishRepeats
  <2>2. loop' \in Int
    BY <1>16 DEF FinishRepeats
  <2> QED BY <1>16, <1>1, <2>1, <2>2 DEF FinishRepeats, ReadRest, ReadPlaces
<1>17. CASE FinishCompletes
  <2>1. play' \in PlayType
    BY <1>17, PlayTypes DEF FinishCompletes
  <2>2. read' \in ReadType
    BY <1>17 DEF FinishCompletes, ReadType, ReadPlaces
  <2>3. msgs' \in Seq(Message)
    BY <1>17, MessageType DEF FinishCompletes
  <2> QED BY <1>17, <2>1, <2>2, <2>3 DEF FinishCompletes, ReadRest
<1>18. CASE ReadPacket
  <2>1. play' \in PlayType
    BY <1>18, PlayTypes DEF ReadPacket, CheckBuffering
  <2>2. file' \in FileType
    <3>1. file.pos + 1 \in 0 .. FileLen
      <4>1. file.pos < FileLen
        BY <1>18 DEF ReadPacket
      <4> QED BY <1>2, <4>1, FFPlayAssumption
    <3>2. file' = [file EXCEPT !.pos = file.pos + 1]
      BY <1>18 DEF ReadPacket, FileType
    <3> QED BY <3>1, <3>2 DEF FileType
  <2>3. read' \in ReadType
    BY <1>18 DEF ReadPacket, ReadType, ReadPlaces
  <2> QED BY <1>18, <1>3, <2>1, <2>2, <2>3 DEF ReadPacket, ReadRest, Kinds
<1>19. CASE ReadEof
  <2>1. play' \in PlayType /\ videoq' \in PacketQueue /\ dec' \in Decoder
    BY <1>19, <1>3, PlayTypes DEF ReadEof, Kinds
  <2>2. read' \in ReadType
    BY <1>19 DEF ReadEof, ReadType, ReadPlaces
  <2> QED BY <1>19, <2>1, <2>2 DEF ReadEof, ReadRest
<1>20. CASE ReadFails
  <2>1. play' \in PlayType /\ dec' \in Decoder /\ faults' \in Nat
    BY <1>20, <1>5, PlayTypes, NudgeType DEF ReadFails
  <2>2. videoq' \in PacketQueue
    BY <1>20, <1>2, PutType DEF ReadFails, Kinds
  <2>3. read' \in ReadType
    BY <1>20 DEF ReadFails, ReadType, ReadPlaces
  <2>4. file' \in FileType
    BY <1>20 DEF ReadFails, FileType
  <2> QED BY <1>20, <2>1, <2>2, <2>3, <2>4 DEF ReadFails, ReadRest
<1> QED BY <1>6, <1>7, <1>8, <1>9, <1>10, <1>11, <1>12, <1>13, <1>14, <1>15, <1>16, <1>17,
           <1>18, <1>19, <1>20 DEF ReadThread

LEMMA CallType ==
    ASSUME Types, NEW what \in {"start", "pause", "seek"}, NEW pos \in 0 .. FileLen, NEW replaced,
           Call(what, pos, replaced)
    PROVE  Types'
<1> DEFINE removed == [what : replaced, pos : 0 .. FileLen]
<1>1. Without(msgs, removed) \in Seq(Message)
  BY WithoutType DEF Types
<1>2. [what |-> what, pos |-> pos] \in Message
  BY DEF Message
<1>3. msgs' = Append(Without(msgs, removed), [what |-> what, pos |-> pos])
  BY DEF Call
<1>4. msgs' \in Seq(Message)
  BY <1>1, <1>2, <1>3
<1> QED BY <1>4 DEF Call, AppRest, Types

LEMMA AppTypes ==
    ASSUME Types,
           \/ Start \/ Pause
           \/ \E pos \in SeekTargets : SeekTo(pos)
           \/ \E on \in LoopSettings : SetLoop(on)
           \/ MessageLoop \/ Stop \/ Shutdown \/ Joining \/ Closed
    PROVE  Types'
<1> USE DEF Types
<1>0. 0 \in 0 .. FileLen /\ SeekTargets \subseteq 0 .. FileLen
  BY FFPlayAssumption
<1>1. CASE Start \/ Pause \/ \E pos \in SeekTargets : SeekTo(pos)
  BY <1>0, <1>1, CallType DEF Start, Pause, SeekTo
<1>2. CASE \E on \in LoopSettings : SetLoop(on)
  BY <1>2 DEF SetLoop, AppRest
<1>3. CASE MessageLoop
  <2>1. ASSUME NEW what, GetMsg(what)
        PROVE  msgs' \in Seq(Message) /\ Head(msgs).pos \in 0 .. FileLen
    <3>1. Head(msgs) \in Message /\ Tail(msgs) \in Seq(Message)
      BY <2>1 DEF GetMsg
    <3> QED BY <2>1, <3>1 DEF GetMsg, Message
  <2>2. CASE GetStart \/ GetPause \/ GetCompleted
    <3>1. play' \in PlayType /\ restart' \in BOOLEAN
      BY <2>2, PlayTypes DEF GetStart, GetPause, GetCompleted
    <3> QED BY <2>1, <2>2, <3>1 DEF GetStart, GetPause, GetCompleted, GetMsg, AppRest
  <2>3. CASE GetStartFrom
    <3>1. [play EXCEPT !.auto_resume = TRUE] \in PlayType
      BY DEF PlayType
    <3>2. play' \in PlayType
      BY <2>3, <3>1, PlayTypes DEF GetStartFrom
    <3>3. seek' \in SeekType /\ seeks' \in Nat
      BY <2>3, <1>0, StreamSeekType DEF GetStartFrom
    <3> QED BY <2>1, <2>3, <3>2, <3>3 DEF GetStartFrom, GetMsg, AppRest
  <2>4. CASE GetSeek
    <3>1. Head(msgs).pos \in 0 .. FileLen
      BY <2>1, <2>4 DEF GetSeek
    <3>2. seek' \in SeekType /\ seeks' \in Nat
      BY <2>4, <3>1, StreamSeekType DEF GetSeek
    <3> QED BY <2>1, <2>4, <3>2 DEF GetSeek, GetMsg, AppRest
  <2> QED BY <1>3, <2>2, <2>3, <2>4 DEF MessageLoop
<1>4. StopPlaying => abort_request' \in BOOLEAN /\ play' \in PlayType /\ msgs' \in Seq(Message)
  <2>1. <<>> \in Seq(Message)
    OBVIOUS
  <2> QED BY <2>1, PlayTypes DEF StopPlaying
<1>5. CASE Stop
  BY <1>4, <1>5 DEF Stop, AppRest, AppPlaces
<1>6. CASE Shutdown
  <2>1. videoq' \in PacketQueue
    BY <1>6 DEF Shutdown, PacketAbort, PacketQueue
  <2> QED BY <1>4, <1>6, <2>1, NudgeType DEF Shutdown, AppRest, AppPlaces
<1>7. CASE JoinRead
  <2>1. videoq' \in PacketQueue
    BY <1>7 DEF JoinRead, PacketAbort, PacketQueue
  <2>2. dec' \in Decoder
    BY <1>7 DEF JoinRead, Decoder, DecPlaces
  <2> QED BY <1>7, <2>1, <2>2 DEF JoinRead, AppRest, AppPlaces
<1>8. CASE JoinDecoder
  <2>1. <<>> \in Seq(Packet)
    OBVIOUS
  <2>2. videoq' \in PacketQueue
    BY <1>8, <2>1 DEF JoinDecoder, PacketFlush, PacketQueue
  <2> QED BY <1>8, <2>2 DEF JoinDecoder, AppRest, AppPlaces
<1>9. CASE JoinVout
  BY <1>9 DEF JoinVout, AppRest, AppPlaces
<1>10. CASE Closed
  BY <1>10 DEF Closed, vars
<1> QED BY <1>1, <1>2, <1>3, <1>5, <1>6, <1>7, <1>8, <1>9, <1>10 DEF Joining

(* Every step keeps the types, given that no thread oversteps the ring. *)
LEMMA TypeStep ==
    ASSUME TypeOK, RingInv, [Next]_vars
    PROVE  TypeOK'
<1>1. Types
  BY TypesAre
<1>2. TypeOK' <=> Types'
  BY TypesAre, PTL
<1>3. CASE UNCHANGED vars
  BY <1>1, <1>2, <1>3 DEF Types, vars
<1>4. CASE Next
  BY <1>1, <1>2, <1>4, DecodeTypes, VoutTypes, ReadTypes, AppTypes DEF Next
<1> QED BY <1>3, <1>4

-----------------------------------------------------------------------------
(* The ring *)

LEMMA TailElements ==
    ASSUME NEW S, NEW s \in Seq(S), s # <<>>
    PROVE  \A i \in DOMAIN Tail(s) : i + 1 \in DOMAIN s /\ Tail(s)[i] = s[i + 1]
OBVIOUS

LEMMA PushKeepsRing ==
    ASSUME NEW f \in FrameQueue, Ring(f), f.size < PictqSize, NEW p \in Picture, p.serial >= 1
    PROVE  /\ Ring(FramePush(f, p))
           /\ \A k \in 0 .. f.size - 1 :
                  LET i == (f.rindex + k) % PictqSize IN FramePush(f, p).queue[i] = f.queue[i]
<1> DEFINE n == PictqSize
<1> DEFINE g == FramePush(f, p)
<1> DEFINE r == f.rindex
<1> DEFINE w == f.windex
<1> DEFINE s == f.size
<1>1. /\ n \in Nat /\ n >= 2 /\ r \in 0 .. n - 1 /\ s \in 0 .. n - 1 /\ w \in 0 .. n - 1
      /\ w = (r + s) % n /\ f.rindex_shown \in {0, 1} /\ f.rindex_shown <= s
  BY FFPlayAssumption DEF FrameQueue, Ring
<1>2. /\ g.queue = [f.queue EXCEPT ![w] = p] /\ g.windex = (w + 1) % n /\ g.size = s + 1
      /\ g.rindex = r /\ g.rindex_shown = f.rindex_shown
  BY DEF FramePush, FrameQueue
<1>3. \A x \in 0 .. 2 * n - 1 : x % n = IF x < n THEN x ELSE x - n
  BY Mod
<1> HIDE DEF n, g, r, w, s
<1>4. (w + 1) % n = (r + s + 1) % n
  BY <1>1, <1>3
<1>5. \A k \in 0 .. s - 1 : (r + k) % n # w /\ (r + k) % n \in 0 .. n - 1
  BY <1>1, <1>3
<1>6. f.queue \in [0 .. n - 1 -> Picture]
  BY DEF FrameQueue, n
<1>7. g.queue[w] = p /\ \A i \in 0 .. n - 1 : i # w => g.queue[i] = f.queue[i]
  BY <1>1, <1>2, <1>6
<1>8. \A k \in 0 .. s - 1 : g.queue[(r + k) % n] = f.queue[(r + k) % n]
  BY <1>5, <1>7
<1>9. \A k \in 0 .. s - 1 : f.queue[(r + k) % n].serial >= 1
  BY DEF Ring, n, r, s
<1>10. \A k \in 0 .. s : g.queue[(r + k) % n].serial >= 1
  <2> TAKE k \in 0 .. s
  <2>1. CASE k = s
    BY <2>1, <1>1, <1>7
  <2>2. CASE k # s
    <3>1. k \in 0 .. s - 1
      BY <2>2, <1>1
    <3> QED BY <3>1, <1>8, <1>9
  <2> QED BY <2>1, <2>2
<1>11. g.windex = (g.rindex + g.size) % n
  <2>1. r + (s + 1) = r + s + 1
    BY <1>1
  <2> QED BY <1>2, <1>4, <2>1
<1>12. g.rindex_shown <= g.size
  BY <1>1, <1>2
<1>13. \A k \in 0 .. g.size - 1 : g.queue[(g.rindex + k) % n].serial >= 1
  <2>1. g.size - 1 = s
    BY <1>1, <1>2
  <2> QED BY <2>1, <1>2, <1>10
<1>14. Ring(g)
  BY <1>11, <1>12, <1>13 DEF Ring, n
<1> QED BY <1>8, <1>14 DEF g, n, r, s

LEMMA NextKeepsRing ==
    ASSUME NEW f \in FrameQueue, Ring(f), f.rindex_shown < f.size
    PROVE  /\ Ring(FrameNext(f))
           /\ FrameNext(f).rindex_shown = 1
           /\ FrameNext(f).rindex = (f.rindex + f.rindex_shown) % PictqSize
           /\ FrameNext(f).queue[FrameNext(f).rindex] = f.queue[FrameNext(f).rindex]
           /\ FrameNext(f).size <= f.size
<1> DEFINE n == PictqSize
<1> DEFINE g == FrameNext(f)
<1> DEFINE r == f.rindex
<1> DEFINE w == f.windex
<1> DEFINE s == f.size
<1>1. /\ n \in Nat /\ n >= 2 /\ r \in 0 .. n - 1 /\ s \in 0 .. n /\ w \in 0 .. n - 1
      /\ w = (r + s) % n /\ f.rindex_shown \in {0, 1} /\ f.rindex_shown < s
  BY FFPlayAssumption DEF FrameQueue, Ring
<1>2. \A x \in 0 .. 2 * n - 1 : x % n = IF x < n THEN x ELSE x - n
  BY Mod
<1>3. \A k \in 0 .. s - 1 : f.queue[(r + k) % n].serial >= 1
  BY DEF Ring
<1>4. f.queue \in [0 .. n - 1 -> Picture]
  BY DEF FrameQueue
<1>5. CASE f.rindex_shown = 0
  <2>1. /\ g.queue = f.queue /\ g.windex = w /\ g.size = s /\ g.rindex = r
        /\ g.rindex_shown = 1
    BY <1>5 DEF FrameNext, FrameQueue
  <2> HIDE DEF g
  <2>2. Ring(g)
    BY <2>1, <1>1, <1>3 DEF Ring
  <2>3. (r + f.rindex_shown) % n = r
    <3> HIDE DEF n, r, w, s
    <3> QED BY <1>1, <1>2, <1>5
  <2> QED BY <2>1, <2>2, <2>3, <1>1 DEF g
<1>6. CASE f.rindex_shown = 1
  <2>1. /\ g.queue = [f.queue EXCEPT ![r] = NoPicture] /\ g.windex = w /\ g.size = s - 1
        /\ g.rindex = (r + 1) % n /\ g.rindex_shown = 1
    BY <1>6 DEF FrameNext, FrameQueue
  <2> HIDE DEF n, g, r, w, s
  <2>2. (r + 1) % n \in 0 .. n - 1 /\ (r + 1) % n # r
    BY <1>1, <1>2
  <2>3. \A k \in 0 .. s - 2 : (((r + 1) % n) + k) % n = (r + (k + 1)) % n
    <3> TAKE k \in 0 .. s - 2
    <3>1. k \in Int /\ 0 <= k /\ k + 2 <= n
      BY <1>1
    <3>2. CASE r + 1 < n
      <4>1. (r + 1) % n = r + 1 /\ r + 1 + k = r + (k + 1)
        BY <3>1, <3>2, <1>1, <1>2
      <4> QED BY <4>1
    <3>3. CASE r + 1 = n
      <4>1. (r + 1) % n = 0
        BY <3>3, <1>1, <1>2
      <4>2. k % n = k /\ (r + (k + 1)) % n = k
        BY <3>1, <3>3, <1>1, <1>2
      <4> QED BY <3>1, <4>1, <4>2
    <3> QED BY <3>2, <3>3, <1>1
  <2>4. \A k \in 0 .. s - 2 : (r + (k + 1)) % n # r /\ (r + (k + 1)) % n \in 0 .. n - 1
    <3> TAKE k \in 0 .. s - 2
    <3> DEFINE x == r + (k + 1)
    <3>1. x \in 0 .. 2 * n - 1 /\ r < x /\ x < r + n
      BY <1>1
    <3> HIDE DEF x
    <3>2. x % n = IF x < n THEN x ELSE x - n
      BY <3>1, <1>2
    <3>3. x % n # r /\ x % n \in 0 .. n - 1
      BY <3>1, <3>2, <1>1
    <3> QED BY <3>3 DEF x
  <2>5. (((r + 1) % n) + (s - 1)) % n = (r + s) % n
    BY <1>1, <1>2, <1>6
  <2>6. \A i \in 0 .. n - 1 : i # r => g.queue[i] = f.queue[i]
    BY <1>1, <2>1, <1>4
  <2>7. \A k \in 0 .. s - 2 : g.queue[(((r + 1) % n) + k) % n].serial >= 1
    <3> TAKE k \in 0 .. s - 2
    <3>1. k + 1 \in 0 .. s - 1
      BY <1>1
    <3>2. g.queue[(r + (k + 1)) % n] = f.queue[(r + (k + 1)) % n]
      BY <2>4, <2>6
    <3> QED BY <3>1, <3>2, <2>3, <1>3
  <2>8. (g.size - 1 = s - 2) /\ g.rindex_shown <= g.size /\ g.size <= s
    BY <2>1, <1>1, <1>6
  <2>9. g.windex = (g.rindex + g.size) % n
    BY <2>1, <2>5, <1>1
  <2>10. \A k \in 0 .. g.size - 1 : g.queue[(g.rindex + k) % n].serial >= 1
    BY <2>1, <2>7, <2>8
  <2>11. Ring(g)
    BY <2>8, <2>9, <2>10 DEF Ring, n
  <2> QED BY <2>1, <2>2, <2>6, <2>8, <2>11, <1>6 DEF g, n, r, s
<1> QED BY <1>1, <1>5, <1>6

-----------------------------------------------------------------------------
(* The steps, by what they do to the pipeline *)

(* A step that does not touch it. *)
Quiet ==
    /\ UNCHANGED <<videoq, codec, dec, pictq, vout, shown, file>>
    /\ (read'.pc = "put") <=> ReadAt("put")
    /\ read'.pc = "open" => ReadAt("open")

(* The decoder goes on from a wait, or nothing happens to it. *)
Nudged ==
    /\ dec'.pkt_serial = dec.pkt_serial /\ dec'.finished = dec.finished
    /\ dec'.pkt = dec.pkt /\ dec'.frame = dec.frame
    /\ \/ dec'.pc = dec.pc
       \/ DecAt("waiting") /\ dec'.pc = "block"
       \/ DecAt("full") /\ dec'.pc = "picture"

(* ff_read puts one packet or two of the current serial number. *)
Reads ==
    /\ UNCHANGED <<codec, pictq, vout, shown>>
    /\ Nudged
    /\ file'.epoch = file.epoch
    /\ ReadAt("read") /\ read'.pc = "loop"
    /\ \/ UNCHANGED videoq
       \/ \E kind \in {"data", "null"} :
              \/ videoq' = PacketPut(videoq, kind)
              \/ videoq' = PacketPut(PacketPut(videoq, kind), kind)
    /\ \/ file'.failed
       \/ UNCHANGED file /\ file.pos = FileLen /\ videoq' \in {videoq, PacketPut(videoq, "null")}
       \/ /\ file'.failed = file.failed /\ file.pos < FileLen
          /\ videoq' = PacketPut(videoq, "data")

(* The queue is aborted, or emptied after the decoder has ended. *)
Ends ==
    /\ UNCHANGED <<codec, pictq, vout, shown, read, file>>
    /\ Nudged
    /\ \/ videoq' = PacketAbort(videoq)
       \/ DecAt("exited") /\ videoq' = PacketFlush(videoq)

LEMMA Nudges ==
    ASSUME dec \in Decoder, SignalPackets \/ SignalRoom \/ UNCHANGED dec
    PROVE  Nudged
BY DEF Nudged, SignalPackets, SignalRoom, Decoder, DecAt

LEMMA Steps ==
    ASSUME Types, [Next]_vars
    PROVE  \/ Quiet \/ Decode \/ VideoRefresh \/ OpenStream \/ SeekFile \/ SeekPut \/ Reads \/ Ends
<1> USE DEF Types, ReadAt
<1>1. ASSUME NEW place \in ReadPlaces \ {"put", "open"}, ReadGoto(place)
      PROVE  read'.pc = place
  BY <1>1 DEF ReadGoto, ReadType
<1>2. CASE OpenFails \/ WaitStart \/ ReadLoop \/ SeekResume \/ ReadLimit \/ FinishNot
           \/ FinishRepeats \/ FinishWaits
  BY <1>2, <1>1 DEF Quiet, OpenFails, WaitStart, ReadLoop, SeekResume, ReadLimit, FinishNot,
     FinishRepeats, FinishWaits, ReadRest, ReadPlaces
<1>3. CASE SeekFails \/ FinishCompletes
  BY <1>3 DEF Quiet, SeekFails, FinishCompletes, SeekDone, ReadRest, ReadType
<1>4. CASE Start \/ Pause \/ (\E pos \in SeekTargets : SeekTo(pos))
           \/ (\E on \in LoopSettings : SetLoop(on)) \/ MessageLoop \/ Stop \/ JoinVout
  BY <1>4 DEF Quiet, Start, Pause, SeekTo, SetLoop, Call, MessageLoop, GetStart, GetStartFrom,
     GetPause, GetSeek, GetCompleted, GetMsg, Stop, JoinVout, AppRest
<1>5. CASE Closed \/ UNCHANGED vars
  BY <1>5 DEF Quiet, Closed, vars
<1>6. CASE ReadPacket
  <2>1. Nudged
    BY <1>6, Nudges DEF ReadPacket, Put
  <2>2. file'.epoch = file.epoch /\ read'.pc = "loop"
    BY <1>6 DEF ReadPacket, FileType, ReadType
  <2> QED BY <1>6, <2>1, <2>2 DEF Reads, ReadPacket, Put, ReadRest
<1>7. CASE ReadEof
  <2>1. Nudged
    BY <1>7, Nudges DEF ReadEof, Put
  <2>2. read'.pc = "loop"
    BY <1>7 DEF ReadEof, ReadType
  <2> QED BY <1>7, <2>1, <2>2 DEF Reads, ReadEof, Put, ReadRest
<1>8. CASE ReadFails
  <2>1. Nudged
    BY <1>8, Nudges DEF ReadFails
  <2>2. file'.epoch = file.epoch /\ read'.pc = "loop"
    BY <1>8 DEF ReadFails, FileType, ReadType
  <2> QED BY <1>8, <2>1, <2>2 DEF Reads, ReadFails, ReadRest
<1>9. CASE Shutdown
  BY <1>9, Nudges DEF Shutdown, Ends, AppRest
<1>10. CASE JoinRead
  <2>1. Nudged
    BY <1>10 DEF JoinRead, Nudged, Decoder, DecAt
  <2> QED BY <1>10, <2>1 DEF JoinRead, Ends, AppRest
<1>11. CASE JoinDecoder
  BY <1>11, Nudges DEF JoinDecoder, Ends, AppRest
<1> QED BY <1>2, <1>3, <1>4, <1>5, <1>6, <1>7, <1>8, <1>9, <1>10, <1>11
       DEF Next, ReadThread, Joining

-----------------------------------------------------------------------------
(* The ring, step by step *)

LEMMA RingStep ==
    ASSUME Types, RingInv, DecoderInv, FramesOfTheirSerial, [Next]_vars
    PROVE  RingInv' /\ FramesOfTheirSerial'
<1> USE DEF Types
<1>1. ASSUME UNCHANGED pictq, dec'.pc = "fill" => DecAt("fill"),
             vout' = "due" => pictq.rindex_shown < pictq.size,
             vout' \in {"stepping", "display"} => pictq.rindex_shown = 1
      PROVE  RingInv' /\ FramesOfTheirSerial'
  BY <1>1 DEF RingInv, FramesOfTheirSerial, DecAt
<1>2. ASSUME UNCHANGED <<pictq, vout>>, dec'.pc = "fill" => DecAt("fill")
      PROVE  RingInv' /\ FramesOfTheirSerial'
  BY <1>1, <1>2 DEF RingInv
<1>3. CASE Quiet \/ Reads \/ Ends
  BY <1>2, <1>3 DEF Quiet, Reads, Ends, Nudged, DecAt
<1>4. CASE OpenStream \/ SeekFile \/ SeekPut
  <2>1. dec'.pc = "fill" => DecAt("fill")
    BY <1>4, Nudges DEF OpenStream, SeekFile, SeekPut, Put, Nudged, DecAt, Decoder
  <2> QED BY <1>2, <1>4, <2>1 DEF OpenStream, SeekFile, SeekPut, ReadRest
<1>5. CASE DecodeReceive \/ DecodeGet \/ DecodeBuffer \/ DecodeBlock \/ DecodePacket
  <2>1. dec'.pc # "fill"
    BY <1>5 DEF DecodeReceive, DecodeGet, DecodeBuffer, DecodeBlock, DecodePacket, PacketGet,
       DecGoto, Decoder, DecAt
  <2>2. ASSUME DecodeReceive PROVE UNCHANGED <<pictq, vout>>
    BY <2>2 DEF DecodeReceive, DecRest
  <2>3. ASSUME DecodePacket PROVE UNCHANGED <<pictq, vout>>
    BY <2>3 DEF DecodePacket, DecRest
  <2>4. ASSUME DecodeGet \/ DecodeBuffer \/ DecodeBlock PROVE UNCHANGED <<pictq, vout>>
    BY <2>4 DEF DecodeGet, DecodeBuffer, DecodeBlock, DecRest
  <2>5. UNCHANGED <<pictq, vout>>
    BY <1>5, <2>2, <2>3, <2>4
  <2> QED BY <1>2, <2>1, <2>5
<1>6. CASE PeekWritable
  <2>0. dec'.pc = "fill" => ~(pictq.size >= PictqSize)
    BY <1>6 DEF PeekWritable, DecGoto, Decoder
  <2>1. dec'.pc = "fill" => pictq.size < PictqSize
    BY <2>0, FFPlayAssumption DEF FrameQueue
  <2> QED BY <1>6, <2>1 DEF PeekWritable, DecRest, RingInv, FramesOfTheirSerial, DecAt
<1>7. CASE QueuePicture
  <2> DEFINE p == [serial |-> dec.pkt_serial, epoch |-> dec.frame]
  <2>1. p \in Picture /\ p.serial = p.epoch /\ p.serial >= 1
    BY <1>7 DEF QueuePicture, Picture, Decoder, DecoderInv, DecAt
  <2>2. pictq' = FramePush(pictq, p) /\ vout' = vout /\ pictq.size < PictqSize
    BY <1>7 DEF QueuePicture, DecRest, RingInv
  <2>3. dec'.pc = "receive"
    BY <1>7 DEF QueuePicture, DecGoto, Decoder
  <2> HIDE DEF p
  <2>4. Ring(pictq')
    BY <2>1, <2>2, PushKeepsRing DEF RingInv
  <2>5. pictq'.rindex_shown = pictq.rindex_shown /\ pictq'.size = pictq.size + 1
        /\ pictq'.queue = [pictq.queue EXCEPT ![pictq.windex] = p]
    BY <2>2 DEF FramePush, FrameQueue
  <2>6. RingInv'
    <3>1. vout' = "due" => pictq'.rindex_shown < pictq'.size
      BY <2>2, <2>5 DEF RingInv, FrameQueue
    <3>2. vout' \in {"stepping", "display"} => pictq'.rindex_shown = 1
      BY <2>2, <2>5 DEF RingInv
    <3> QED BY <2>3, <2>4, <3>1, <3>2 DEF RingInv, DecAt
  <2>7. FramesOfTheirSerial'
    BY <2>1, <2>5 DEF FramesOfTheirSerial, FrameQueue
  <2> QED BY <2>6, <2>7
<1>8. CASE VoutTop \/ VoutLater \/ VoutDue \/ VoutStep \/ VoutDisplay
  <2>1. VoutDue => pictq.rindex_shown < pictq.size
    BY DEF VoutDue, Remaining, FrameQueue
  <2>2. VoutStep => pictq.rindex_shown = 1
    BY DEF VoutStep, RingInv
  <2>3. vout' = "due" => pictq.rindex_shown < pictq.size
    BY <1>8, <2>1 DEF VoutTop, VoutLater, VoutStep, VoutDisplay
  <2>4. vout' \in {"stepping", "display"} => pictq.rindex_shown = 1
    BY <1>8, <2>2 DEF VoutTop, VoutLater, VoutDue, VoutDisplay
  <2> QED BY <1>1, <1>8, <2>3, <2>4 DEF VoutTop, VoutLater, VoutDue, VoutStep,
             VoutDisplay, DecAt
<1>9. CASE VoutDrop \/ VoutAdvance
  <2>1. pictq.rindex_shown < pictq.size /\ NextFrame /\ vout' \in {"retry", "stepping"}
    BY <1>9 DEF VoutDrop, VoutAdvance, Remaining, FrameQueue, RingInv
  <2>2. Ring(pictq') /\ pictq'.rindex_shown = 1 /\ pictq'.size <= pictq.size
    BY <2>1, NextKeepsRing DEF NextFrame, RingInv
  <2>3. dec'.pc = "fill" => DecAt("fill")
    BY <2>1, Nudges DEF NextFrame, Nudged, DecAt
  <2>4. pictq' \in FrameQueue
    BY <2>1, FrameNextType DEF NextFrame
  <2>5. RingInv'
    <3>1. dec'.pc = "fill" => pictq'.size < PictqSize
      BY <2>2, <2>3, <2>4, FFPlayAssumption DEF RingInv, FrameQueue
    <3> QED BY <2>1, <2>2, <3>1 DEF RingInv, DecAt
  <2>6. \A i \in 0 .. PictqSize - 1 : pictq'.queue[i] \in {pictq.queue[i], NoPicture}
    BY <2>1 DEF NextFrame, FrameNext, FrameQueue
  <2>7. NoPicture.serial = NoPicture.epoch
    BY DEF NoPicture
  <2>8. FramesOfTheirSerial'
    BY <2>6, <2>7 DEF FramesOfTheirSerial
  <2> QED BY <2>5, <2>8
<1> QED BY <1>3, <1>4, <1>5, <1>6, <1>7, <1>8, <1>9, Steps DEF Decode, VideoRefresh

-----------------------------------------------------------------------------
(* Frames from before a seek *)

LEMMA PutSerial ==
    ASSUME NEW q \in PacketQueue, NEW kind \in {"data", "null"}
    PROVE  PacketPut(q, kind).serial = q.serial
BY DEF PacketPut, PacketQueue

LEMMA SameSerial ==
    ASSUME Types, Reads \/ Ends
    PROVE  videoq'.serial = videoq.serial
<1>1. CASE Reads
  <2>1. ASSUME NEW kind \in {"data", "null"}
        PROVE  PacketPut(videoq, kind) \in PacketQueue
    BY PutType DEF Types, FileType, Kinds
  <2> QED BY <1>1, <2>1, PutSerial DEF Reads, Types
<1>2. CASE Ends
  BY <1>2 DEF Ends, PacketAbort, PacketFlush, Types, PacketQueue
<1> QED BY <1>1, <1>2

(* A push does not touch the frames that are watched. *)
LEMMA PushKeepsWatched ==
    ASSUME Types, RingInv, QueuePicture, DecoderInv
    PROVE  /\ pictq'.rindex = pictq.rindex /\ pictq'.rindex_shown = pictq.rindex_shown
           /\ vout = "due" => pictq'.queue[PeekIndex] = pictq.queue[PeekIndex]
           /\ pictq.rindex_shown = 1 => pictq'.queue[pictq.rindex] = pictq.queue[pictq.rindex]
<1> DEFINE p == [serial |-> dec.pkt_serial, epoch |-> dec.frame]
<1>1. p \in Picture /\ p.serial >= 1
  BY DEF QueuePicture, Picture, Decoder, DecoderInv, DecAt, Types
<1>2. pictq' = FramePush(pictq, p) /\ pictq.size < PictqSize
  BY DEF QueuePicture, RingInv
<1> HIDE DEF p
<1>3. \A k \in 0 .. pictq.size - 1 :
          LET i == (pictq.rindex + k) % PictqSize IN pictq'.queue[i] = pictq.queue[i]
  BY <1>1, <1>2, PushKeepsRing DEF Types, RingInv
<1>4. pictq'.rindex = pictq.rindex /\ pictq'.rindex_shown = pictq.rindex_shown
  BY <1>2 DEF FramePush, Types, FrameQueue
<1>5. vout = "due" => pictq.rindex_shown \in 0 .. pictq.size - 1
  BY DEF RingInv, Types, FrameQueue
<1>6. pictq.rindex_shown = 1 => 0 \in 0 .. pictq.size - 1
  BY DEF RingInv, Ring, Types, FrameQueue
<1>7. (pictq.rindex + 0) % PictqSize = pictq.rindex
  <2>1. pictq.rindex \in 0 .. PictqSize - 1 /\ PictqSize \in Nat
    BY FFPlayAssumption DEF Types, FrameQueue
  <2> QED BY <2>1, Mod
<1> QED BY <1>3, <1>4, <1>5, <1>6, <1>7 DEF PeekIndex

LEMMA StaleStep ==
    ASSUME Types, RingInv, DecoderInv, PacketInv, StaleInv, [Next]_vars
    PROVE  StaleInv'
<1> USE DEF Types
<1>1. ASSUME UNCHANGED <<pictq, vout, shown>>, videoq'.serial = videoq.serial
      PROVE  StaleInv'
  BY <1>1 DEF StaleInv, PeekIndex
<1>2. CASE Quiet \/ Reads \/ Ends
  BY <1>1, <1>2, SameSerial DEF Quiet, Reads, Ends
<1>3. CASE SeekFile
  <2>1. videoq'.serial = videoq.serial
    BY <1>3 DEF SeekFile, PacketFlush, PacketQueue
  <2> QED BY <1>1, <1>3, <2>1 DEF SeekFile, ReadRest
<1>4. CASE OpenStream
  <2>1. videoq.serial = 0 /\ vout \in {"top", "exited"} /\ vout' = vout /\ shown' = shown
    BY <1>4 DEF OpenStream, ReadRest, PacketInv, StaleInv
  <2> QED BY <2>1 DEF StaleInv
<1>5. CASE SeekPut
  <2>1. shown'.stale = 0 /\ vout' = vout
    BY <1>5 DEF SeekPut, ShownType, ReadRest
  <2>2. videoq'.serial = videoq.serial \/ videoq'.serial = videoq.serial + 1
    BY <1>5 DEF SeekPut, Put, PacketPut, PacketQueue
  <2>3. videoq'.serial = 0 => videoq.serial = 0
    BY <2>2 DEF PacketQueue
  <2> QED BY <2>1, <2>3 DEF StaleInv
<1>6. CASE DecodeReceive \/ DecodeGet \/ DecodeBuffer \/ DecodeBlock \/ DecodePacket \/ PeekWritable
  <2>1. videoq'.serial = videoq.serial
    BY <1>6 DEF DecodeReceive, DecodeGet, DecodeBuffer, DecodeBlock, DecodePacket, PeekWritable,
       PacketGet, PacketQueue
  <2> QED BY <1>1, <1>6, <2>1 DEF DecodeReceive, DecodeGet, DecodeBuffer, DecodeBlock,
             DecodePacket, PeekWritable, DecRest
<1>7. CASE QueuePicture
  <2>1. videoq' = videoq /\ vout' = vout /\ shown' = shown
    BY <1>7 DEF QueuePicture, DecRest
  <2>2. vout \in {"stepping", "display"} => pictq.rindex_shown = 1
    BY DEF RingInv
  <2> QED BY <1>7, <2>1, <2>2, PushKeepsWatched DEF StaleInv, PeekIndex
<1>8. CASE VoutTop \/ VoutLater
  <2>1. videoq' = videoq /\ shown' = shown /\ vout' \in {"top", "exited", "retry"}
    BY <1>8 DEF VoutTop, VoutLater, VoutRest
  <2>2. videoq.serial = 0 => vout' \in {"top", "exited"}
    BY <1>8 DEF VoutTop, VoutLater
  <2> QED BY <2>1, <2>2 DEF StaleInv
<1>9. CASE VoutDue
  <2>1. videoq' = videoq /\ pictq' = pictq /\ shown' = shown /\ vout' = "due" /\ vout = "retry"
    BY <1>9 DEF VoutDue, VoutRest
  <2>2. pictq.queue[PeekIndex].serial = videoq.serial
    BY <1>9 DEF VoutDue, DropStale, PeekStale
  <2> QED BY <2>1, <2>2 DEF StaleInv, PeekIndex
<1>10. CASE VoutDrop
  BY <1>10 DEF VoutDrop, VoutRest, StaleInv
<1>11. CASE VoutAdvance
  <2>1. videoq' = videoq /\ shown' = shown /\ vout' = "stepping" /\ vout = "due" /\ NextFrame
    BY <1>11 DEF VoutAdvance, VoutRest
  <2>2. pictq'.rindex = PeekIndex /\ pictq'.queue[pictq'.rindex] = pictq.queue[PeekIndex]
    BY <2>1, NextKeepsRing DEF RingInv, NextFrame, PeekIndex
  <2> QED BY <2>1, <2>2 DEF StaleInv
<1>12. CASE VoutStep
  BY <1>12 DEF VoutStep, VoutRest, StaleInv
<1>13. CASE VoutDisplay
  <2>1. videoq' = videoq /\ vout' = "top" /\ vout = "display"
    BY <1>13 DEF VoutDisplay, VoutRest
  <2>2. shown'.stale = IF pictq.queue[pictq.rindex].serial # videoq.serial
                       THEN shown.stale + 1 ELSE shown.stale
    BY <1>13 DEF VoutDisplay
  <2>3. shown.stale \in Nat /\ shown.stale <= 1
    BY DEF StaleInv, ShownType
  <2>4. shown'.stale <= 1
    BY <2>1, <2>2, <2>3 DEF StaleInv
  <2> QED BY <2>1, <2>4 DEF StaleInv
<1> QED BY <1>2, <1>3, <1>4, <1>5, <1>6, <1>7, <1>8, <1>9, <1>10, <1>11, <1>12, <1>13, Steps
       DEF Decode, VideoRefresh

-----------------------------------------------------------------------------
(* The packets *)

(* What a put adds to a queue. *)
LEMMA PutAdds ==
    ASSUME NEW q \in PacketQueue, ~q.abort, NEW kind \in Kinds, file.epoch \in Nat
    PROVE  LET new == PacketPut(q, kind)
               s == IF kind = "flush" THEN q.serial + 1 ELSE q.serial
           IN  /\ new.serial = s /\ ~new.abort
               /\ new.pkts = Append(q.pkts, [kind |-> kind, serial |-> s, epoch |-> file.epoch])
BY DEF PacketPut, PacketQueue

LEMMA PutKeepsLinks ==
    ASSUME NEW q \in PacketQueue, ~q.abort, NEW kind \in Kinds, NEW d \in Nat, d <= q.serial,
           Truthful(q), Linked(q, d), q.serial >= 1,
           file.epoch = IF kind = "flush" THEN q.serial + 1 ELSE q.serial,
           q.pkts = <<>> => d = q.serial \/ kind = "flush"
    PROVE  /\ Truthful(PacketPut(q, kind)) /\ Linked(PacketPut(q, kind), d)
           /\ PacketPut(q, kind).pkts # <<>>
<1> DEFINE new == PacketPut(q, kind)
<1> DEFINE s == IF kind = "flush" THEN q.serial + 1 ELSE q.serial
<1> DEFINE p == [kind |-> kind, serial |-> s, epoch |-> file.epoch]
<1>1. q.serial \in Nat /\ q.pkts \in Seq(Packet) /\ s \in Nat /\ file.epoch = s /\ s >= q.serial
  BY DEF PacketQueue
<1>2. new.serial = s /\ new.pkts = Append(q.pkts, p) /\ p \in Packet
  BY <1>1, PutAdds DEF Packet
<1>3. p.serial = s /\ p.epoch = s /\ p.kind = kind
  BY <1>1
<1> DEFINE n == Len(q.pkts)
<1>4. n \in Nat /\ DOMAIN q.pkts = 1 .. n
  BY <1>1
<1> HIDE DEF p
<1>5. /\ Len(new.pkts) = n + 1 /\ DOMAIN new.pkts = 1 .. n + 1 /\ new.pkts[n + 1] = p
      /\ \A i \in 1 .. n : new.pkts[i] = q.pkts[i]
  <2> HIDE DEF new, s
  <2> QED BY <1>1, <1>2
<1>6. Truthful(new)
  <2>1. \A i \in 1 .. n : q.pkts[i].serial \in 1 .. q.serial /\ q.pkts[i].epoch = q.pkts[i].serial
    BY <1>4 DEF Truthful
  <2>2. \A i \in 1 .. n + 1 : i = n + 1 \/ i \in 1 .. n
    BY <1>4
  <2> HIDE DEF new, s, n
  <2>3. 1 .. q.serial \subseteq 1 .. s /\ s \in 1 .. s
    BY <1>1
  <2> QED BY <1>2, <1>3, <1>5, <2>1, <2>2, <2>3 DEF Truthful
<1>7. n = 0 => Follows(p, d)
  <2>1. n = 0 => q.pkts = <<>>
    BY <1>1
  <2>2. kind = "flush" => s > d
    BY <1>1
  <2>3. kind # "flush" => s = q.serial
    OBVIOUS
  <2> HIDE DEF s, n
  <2> QED BY <1>3, <2>1, <2>2, <2>3 DEF Follows
<1>8. n > 0 => Follows(p, q.pkts[n].serial) /\ Follows(q.pkts[1], d)
  <2>1. n > 0 => q.pkts # <<>>
    BY <1>1
  <2>2. n > 0 => q.pkts[n].serial = q.serial /\ Follows(q.pkts[1], d)
    BY <2>1 DEF Linked
  <2>3. IF kind = "flush" THEN s > q.serial ELSE s = q.serial
    BY <1>1
  <2> HIDE DEF s, n
  <2> QED BY <1>3, <2>2, <2>3 DEF Follows
<1>9. \A i \in 2 .. n : Follows(q.pkts[i], q.pkts[i - 1].serial)
  BY DEF Linked
<1> HIDE DEF new, s, n
<1>10. Follows(new.pkts[1], d)
  BY <1>4, <1>5, <1>7, <1>8
<1>11. \A i \in 2 .. n + 1 : Follows(new.pkts[i], new.pkts[i - 1].serial)
  <2> TAKE i \in 2 .. n + 1
  <2>1. CASE i = n + 1
    <3>1. n > 0 /\ i - 1 = n /\ n \in 1 .. n
      BY <2>1, <1>4
    <3> QED BY <2>1, <3>1, <1>5, <1>8
  <2>2. CASE i # n + 1
    <3>1. i \in 2 .. n /\ i \in 1 .. n /\ i - 1 \in 1 .. n
      BY <2>2, <1>4
    <3> QED BY <3>1, <1>5, <1>9
  <2> QED BY <2>1, <2>2
<1>12. new.pkts # <<>>
  <2> SUFFICES ASSUME new.pkts = <<>> PROVE FALSE
    OBVIOUS
  <2>1. Len(new.pkts) = 0
    OBVIOUS
  <2> QED BY <2>1, <1>4, <1>5
<1>13. Linked(new, d)
  BY <1>2, <1>3, <1>5, <1>10, <1>11, <1>12 DEF Linked
<1> QED BY <1>6, <1>12, <1>13 DEF new

(* What is left after the first packet follows it. *)
LEMMA TailKeepsLinks ==
    ASSUME NEW q \in PacketQueue, NEW d \in Nat, Truthful(q), Linked(q, d), q.pkts # <<>>,
           NEW r \in PacketQueue, r.serial = q.serial, r.pkts = Tail(q.pkts)
    PROVE  /\ Truthful(r) /\ Linked(r, Head(q.pkts).serial)
           /\ r.pkts = <<>> => Head(q.pkts).serial = q.serial
           /\ Follows(Head(q.pkts), d)
           /\ Head(q.pkts).serial \in 1 .. q.serial
           /\ Head(q.pkts).epoch = Head(q.pkts).serial
<1> DEFINE n == Len(q.pkts)
<1>1. q.pkts \in Seq(Packet) /\ n \in Nat /\ n > 0 /\ DOMAIN q.pkts = 1 .. n /\ Head(q.pkts) = q.pkts[1]
  BY DEF PacketQueue
<1>2. /\ Len(r.pkts) = n - 1 /\ DOMAIN r.pkts = 1 .. n - 1
      /\ \A i \in 1 .. n - 1 : r.pkts[i] = q.pkts[i + 1]
  BY <1>1
<1>3. r.pkts = <<>> <=> n = 1
  <2>1. r.pkts \in Seq(Packet)
    BY DEF PacketQueue
  <2>2. \A t \in Seq(Packet) : t = <<>> <=> Len(t) = 0
    OBVIOUS
  <2>3. Len(r.pkts) = 0 <=> n = 1
    BY <1>1, <1>2
  <2> QED BY <2>1, <2>2, <2>3
<1>4. \A i \in 1 .. n : q.pkts[i].serial \in 1 .. q.serial /\ q.pkts[i].epoch = q.pkts[i].serial
  BY <1>1 DEF Truthful
<1>5. /\ Follows(q.pkts[1], d) /\ q.pkts[n].serial = q.serial
      /\ \A i \in 2 .. n : Follows(q.pkts[i], q.pkts[i - 1].serial)
  BY DEF Linked
<1> HIDE DEF n
<1>6. Truthful(r)
  <2>1. \A i \in 1 .. n - 1 : i + 1 \in 1 .. n
    BY <1>1
  <2> QED BY <1>2, <1>4, <2>1 DEF Truthful
<1>7. \A i \in 2 .. n - 1 : Follows(r.pkts[i], r.pkts[i - 1].serial)
  <2> TAKE i \in 2 .. n - 1
  <2>1. i \in 1 .. n - 1 /\ i - 1 \in 1 .. n - 1 /\ i + 1 \in 2 .. n /\ (i - 1) + 1 = i /\ (i + 1) - 1 = i
    BY <1>1
  <2> QED BY <1>2, <1>5, <2>1
<1>8. n > 1 => Follows(r.pkts[1], q.pkts[1].serial) /\ r.pkts[n - 1].serial = q.serial
  <2>1. n > 1 => /\ 1 \in 1 .. n - 1 /\ 1 + 1 \in 2 .. n /\ (1 + 1) - 1 = 1
                 /\ n - 1 \in 1 .. n - 1 /\ (n - 1) + 1 = n
    BY <1>1
  <2> QED BY <1>2, <1>5, <2>1
<1>9. Linked(r, q.pkts[1].serial)
  <2>1. r.pkts # <<>> => n > 1
    BY <1>1, <1>3
  <2> QED BY <1>2, <1>7, <1>8, <2>1 DEF Linked
<1>10. 1 \in 1 .. n
  BY <1>1
<1> QED BY <1>1, <1>3, <1>4, <1>5, <1>6, <1>9, <1>10

(* What the decoder has got with packet_queue_get. *)
LEMMA GetTakes ==
    ASSUME Types, PacketInv, ~videoq.abort, videoq.pkts # <<>>,
           dec' = [dec EXCEPT !.pc = "got", !.pkt = Head(videoq.pkts),
                              !.pkt_serial = Head(videoq.pkts).serial],
           videoq' = [videoq EXCEPT !.pkts = Tail(@)]
    PROVE  LET p == Head(videoq.pkts)
           IN  /\ dec'.pc = "got" /\ dec'.pkt = p /\ dec'.pkt_serial = p.serial
               /\ dec'.finished = dec.finished /\ dec'.frame = dec.frame
               /\ p.serial \in 1 .. videoq.serial /\ p.epoch = p.serial
               /\ Follows(p, dec.pkt_serial)
               /\ videoq'.serial = videoq.serial /\ ~videoq'.abort
               /\ Truthful(videoq') /\ Linked(videoq', p.serial)
               /\ videoq'.pkts = <<>> => p.serial = videoq.serial
<1>1. /\ dec'.pc = "got" /\ dec'.pkt = Head(videoq.pkts)
      /\ dec'.pkt_serial = Head(videoq.pkts).serial
      /\ dec'.finished = dec.finished /\ dec'.frame = dec.frame
  BY DEF Types, Decoder
<1>2. /\ videoq'.serial = videoq.serial /\ ~videoq'.abort /\ videoq'.pkts = Tail(videoq.pkts)
      /\ videoq' \in PacketQueue
  <2>1. Tail(videoq.pkts) \in Seq(Packet)
    BY DEF Types, PacketQueue
  <2> QED BY <2>1 DEF Types, PacketQueue
<1>3. Truthful(videoq) /\ Linked(videoq, dec.pkt_serial) /\ dec.pkt_serial \in Nat
      /\ videoq \in PacketQueue
  BY DEF PacketInv, ChainInv, Types, Decoder
<1> QED BY <1>1, <1>2, <1>3, TailKeepsLinks

LEMMA PacketStep ==
    ASSUME Types, PacketInv, [Next]_vars
    PROVE  PacketInv'
<1> USE DEF Types
<1>0. /\ videoq.serial \in Nat /\ dec.pkt_serial \in Nat /\ file.epoch \in Nat
      /\ videoq.abort \in BOOLEAN
  BY DEF PacketQueue, Decoder, FileType
<1>1. ASSUME UNCHANGED videoq, file'.epoch = file.epoch, dec'.pkt_serial = dec.pkt_serial,
             (read'.pc = "put") <=> ReadAt("put"), read'.pc = "open" => ReadAt("open"),
             DecAt("none") <=> dec'.pc = "none", dec'.pc = "exited" => videoq.abort
      PROVE  PacketInv'
  BY <1>1 DEF PacketInv, ChainInv, ReadAt, DecAt
<1>2. CASE Quiet
  BY <1>1, <1>2 DEF Quiet, DecAt, PacketInv
<1>3. CASE VideoRefresh
  <2>1. Nudged /\ UNCHANGED <<videoq, read, file>>
    BY <1>3, Nudges DEF VideoRefresh, VoutTop, VoutDrop, VoutLater, VoutDue, VoutAdvance, VoutStep,
       VoutDisplay, NextFrame, VoutRest
  <2> QED BY <1>1, <2>1 DEF Nudged, DecAt, ReadAt, PacketInv
<1>4. CASE DecodeReceive \/ DecodeBuffer \/ DecodePacket \/ PeekWritable \/ QueuePicture
  <2>1. UNCHANGED <<videoq, read, file>> /\ ~DecAt("none")
    BY <1>4 DEF DecodeReceive, DecodeBuffer, DecodePacket, PeekWritable, QueuePicture, DecRest,
       DecAt
  <2>2. dec'.pkt_serial = dec.pkt_serial /\ dec'.pc # "none"
    BY <1>4 DEF DecodeReceive, DecodeBuffer, DecodePacket, PeekWritable, QueuePicture, DecGoto,
       Decoder, DecAt
  <2>3. dec'.pc = "exited" => videoq.abort
    BY <1>4, <1>0 DEF DecodeReceive, DecodeBuffer, DecodePacket, PeekWritable, QueuePicture,
       DecGoto, Decoder, DecAt
  <2> QED BY <1>1, <2>1, <2>2, <2>3 DEF ReadAt
<1>5. CASE DecodeGet \/ DecodeBlock
  <2>1. UNCHANGED <<read, file>> /\ ~DecAt("none") /\ (PacketGet("buffer") \/ PacketGet("waiting"))
    BY <1>5 DEF DecodeGet, DecodeBlock, DecRest, DecAt
  <2>2. CASE /\ ~videoq.abort /\ videoq.pkts # <<>>
             /\ dec' = [dec EXCEPT !.pc = "got", !.pkt = Head(videoq.pkts),
                                   !.pkt_serial = Head(videoq.pkts).serial]
             /\ videoq' = [videoq EXCEPT !.pkts = Tail(@)]
    <3>1. /\ dec'.pc = "got" /\ videoq'.serial = videoq.serial /\ Truthful(videoq')
          /\ ~videoq'.abort
          /\ dec'.pkt_serial \in 1 .. videoq.serial
          /\ Linked(videoq', dec'.pkt_serial)
          /\ videoq'.pkts = <<>> => dec'.pkt_serial = videoq.serial
      BY <2>2, GetTakes
    <3>2. ChainInv /\ videoq.serial >= 1 /\ ~ReadAt("open")
      BY <2>2 DEF PacketInv, ChainInv
    <3>3. ChainInv'
      BY <2>1, <3>1, <3>2 DEF ChainInv, ReadAt
    <3> QED BY <1>0, <2>1, <3>1, <3>2, <3>3 DEF PacketInv, DecAt, ReadAt
  <2>3. CASE \E place \in {"exited", "buffer", "waiting"} :
                 DecGoto(place) /\ UNCHANGED videoq /\ (place = "exited" => videoq.abort)
    <3>1. /\ dec'.pkt_serial = dec.pkt_serial /\ dec'.pc # "none"
          /\ dec'.pc = "exited" => videoq.abort
      BY <2>3 DEF DecGoto, Decoder
    <3> QED BY <1>1, <2>1, <2>3, <3>1 DEF ReadAt
  <2> QED BY <2>1, <2>2, <2>3 DEF PacketGet
<1>6. CASE OpenStream
  <2> DEFINE q == [videoq EXCEPT !.abort = FALSE]
  <2> DEFINE p == [kind |-> "flush", serial |-> 1, epoch |-> 1]
  <2>1. videoq.pkts = <<>> /\ videoq.serial = 0 /\ file.epoch = 1 /\ dec.pkt_serial = 0
    BY <1>0, <1>6 DEF OpenStream, PacketInv
  <2>2. q \in PacketQueue /\ ~q.abort /\ q.pkts = <<>> /\ q.serial = 0 /\ videoq' = PacketPut(q, "flush")
    BY <1>6, <2>1 DEF OpenStream, PacketStart, PacketQueue
  <2>3. "flush" \in Kinds /\ 0 + 1 = 1
    BY DEF Kinds
  <2>4. videoq'.serial = 1 /\ ~videoq'.abort /\ videoq'.pkts = Append(<<>>, p)
    <3> HIDE DEF q
    <3> QED BY <1>0, <2>1, <2>2, <2>3, PutAdds
  <2>5. /\ Len(videoq'.pkts) = 1 /\ DOMAIN videoq'.pkts = 1 .. 1 /\ videoq'.pkts[1] = p
        /\ videoq'.pkts # <<>>
    BY <2>4
  <2>6. /\ read'.pc = "prepared" /\ dec'.pc = "receive" /\ dec'.pkt_serial = 0 /\ file' = file
    BY <1>6, <2>1 DEF OpenStream, ReadGoto, ReadType, Decoder
  <2>7. Truthful(videoq') /\ Linked(videoq', 0)
    BY <2>4, <2>5 DEF Truthful, Linked, Follows
  <2> QED BY <2>1, <2>4, <2>5, <2>6, <2>7 DEF PacketInv, ChainInv, DecAt, ReadAt
<1>7. CASE SeekFile
  <2>1. videoq'.pkts = <<>> /\ videoq'.serial = videoq.serial /\ videoq'.abort = videoq.abort
    BY <1>7 DEF SeekFile, PacketFlush, PacketQueue
  <2>2. /\ ReadAt("flush") /\ read'.pc = "put" /\ dec' = dec
        /\ file'.epoch = file.epoch + 1
    BY <1>7 DEF SeekFile, ReadGoto, ReadType
  <2>3. Truthful(videoq') /\ Linked(videoq', dec.pkt_serial)
    BY <2>1 DEF Truthful, Linked
  <2> QED BY <1>0, <2>1, <2>2, <2>3 DEF PacketInv, ChainInv, ReadAt, DecAt
<1>8. CASE SeekPut
  <2>1. /\ ReadAt("put") /\ read'.pc = "resume" /\ file' = file /\ Nudged
        /\ videoq' = PacketPut(videoq, "flush")
    BY <1>8, Nudges DEF SeekPut, SeekDone, ReadType, Put
  <2>2. CASE videoq.abort
    <3>1. videoq' = videoq
      BY <2>1, <2>2 DEF PacketPut
    <3> QED BY <2>1, <2>2, <3>1 DEF PacketInv, Nudged, ReadAt, DecAt
  <2>3. CASE ~videoq.abort
    <3>1. ChainInv /\ file.epoch = videoq.serial + 1
      BY <2>1, <2>3 DEF PacketInv, ChainInv, ReadAt
    <3>2. /\ Truthful(videoq') /\ Linked(videoq', dec.pkt_serial) /\ videoq'.pkts # <<>>
          /\ videoq'.serial = videoq.serial + 1
      BY <1>0, <2>1, <2>3, <3>1, PutKeepsLinks, PutAdds DEF PacketInv, ChainInv, Kinds
    <3>3. dec'.pkt_serial = dec.pkt_serial /\ (dec'.pc = "exited" => DecAt("exited"))
      BY <2>1 DEF Nudged, DecAt
    <3>4. ChainInv'
      BY <1>0, <2>1, <3>1, <3>2, <3>3 DEF ChainInv, ReadAt
    <3> QED BY <1>0, <2>1, <2>3, <3>2, <3>3, <3>4 DEF PacketInv, ReadAt, DecAt
  <2> QED BY <2>2, <2>3
<1>9. CASE Reads
  <2>1. /\ ReadAt("read") /\ read'.pc = "loop" /\ file'.epoch = file.epoch /\ Nudged
    BY <1>9 DEF Reads
  <2>2. dec'.pkt_serial = dec.pkt_serial /\ (dec'.pc = "none" <=> DecAt("none"))
        /\ (dec'.pc = "exited" <=> DecAt("exited"))
    BY <2>1 DEF Nudged, DecAt
  <2>3. CASE UNCHANGED videoq
    BY <1>1, <2>1, <2>2, <2>3 DEF PacketInv, ReadAt
  <2>4. ASSUME NEW kind \in {"data", "null"},
               \/ videoq' = PacketPut(videoq, kind)
               \/ videoq' = PacketPut(PacketPut(videoq, kind), kind),
               ~videoq.abort
        PROVE  PacketInv'
    <3> DEFINE q == PacketPut(videoq, kind)
    <3>1. ChainInv /\ file.epoch = videoq.serial /\ videoq.serial >= 1
      BY <1>0, <2>1, <2>4 DEF PacketInv, ChainInv, ReadAt
    <3>2. videoq.pkts = <<>> => dec.pkt_serial = videoq.serial
      BY <3>1, <2>1 DEF ChainInv, ReadAt
    <3>3. kind \in Kinds /\ kind # "flush"
      BY DEF Kinds
    <3>4. /\ Truthful(q) /\ Linked(q, dec.pkt_serial) /\ q.pkts # <<>> /\ q.serial = videoq.serial
          /\ ~q.abort /\ q \in PacketQueue
      BY <1>0, <2>4, <3>1, <3>2, <3>3, PutKeepsLinks, PutAdds, PutType DEF PacketInv, ChainInv
    <3>5. /\ Truthful(PacketPut(q, kind)) /\ Linked(PacketPut(q, kind), dec.pkt_serial)
          /\ PacketPut(q, kind).pkts # <<>> /\ PacketPut(q, kind).serial = videoq.serial
      <4> HIDE DEF q
      <4> QED BY <1>0, <3>1, <3>3, <3>4, PutKeepsLinks, PutAdds DEF PacketInv
    <3>6. /\ Truthful(videoq') /\ Linked(videoq', dec.pkt_serial) /\ videoq'.pkts # <<>>
          /\ videoq'.serial = videoq.serial
      BY <2>4, <3>4, <3>5
    <3>7. ChainInv'
      BY <1>0, <2>1, <2>2, <3>1, <3>6 DEF ChainInv, ReadAt
    <3> QED BY <2>1, <2>2, <2>4, <3>6, <3>7 DEF PacketInv, ReadAt, DecAt
  <2>5. videoq.abort /\ ~(UNCHANGED videoq) => FALSE
    BY <1>9 DEF Reads, PacketPut
  <2> QED BY <1>0, <1>9, <2>3, <2>4, <2>5 DEF Reads
<1>10. CASE Ends
  <2>1. UNCHANGED <<read, file>> /\ Nudged
    BY <1>10 DEF Ends
  <2>2. dec'.pkt_serial = dec.pkt_serial /\ (dec'.pc = "none" <=> DecAt("none"))
        /\ (dec'.pc = "exited" <=> DecAt("exited"))
    BY <2>1 DEF Nudged, DecAt
  <2>3. videoq'.abort /\ videoq'.serial = videoq.serial /\ (videoq'.pkts \in {videoq.pkts, <<>>})
    BY <1>10 DEF Ends, PacketAbort, PacketFlush, PacketQueue, PacketInv
  <2>4. Truthful(videoq')
    BY <2>3 DEF PacketInv, Truthful
  <2> QED BY <2>1, <2>2, <2>3, <2>4 DEF PacketInv, ReadAt, DecAt
<1> QED BY <1>2, <1>3, <1>4, <1>5, <1>6, <1>7, <1>8, <1>9, <1>10, Steps DEF Decode

-----------------------------------------------------------------------------
(* The decoder *)

LEMMA DecoderStep ==
    ASSUME Types, PacketInv, DecoderInv, [Next]_vars
    PROVE  DecoderInv'
<1> USE DEF Types
<1>0. /\ videoq.serial \in Nat /\ dec.pkt_serial \in Nat /\ dec.finished \in Nat
      /\ dec.pkt_serial <= videoq.serial /\ videoq.abort \in BOOLEAN /\ codec.frames \in Seq(Nat)
  BY DEF PacketQueue, Decoder, PacketInv, CodecType
<1>1. ASSUME Nudged, UNCHANGED codec,
             videoq'.serial = videoq.serial \/ videoq'.serial > dec.pkt_serial
      PROVE  DecoderInv'
  <2>1. /\ dec'.pkt_serial = dec.pkt_serial /\ dec'.finished = dec.finished
        /\ dec'.pkt = dec.pkt /\ dec'.frame = dec.frame /\ (Flushing' <=> Flushing)
        /\ dec'.pc \in {"picture", "full", "fill"} => dec.pc \in {"picture", "full", "fill"}
    BY <1>1 DEF Nudged, Flushing, DecAt
  <2>2. dec'.pkt_serial = videoq'.serial => dec.pkt_serial = videoq.serial
    BY <1>0, <1>1, <2>1
  <2> QED BY <1>1, <2>1, <2>2 DEF DecoderInv
<1>2. CASE Quiet
  <2>1. Nudged
    BY <1>2, Nudges DEF Quiet
  <2> QED BY <1>1, <1>2, <2>1 DEF Quiet
<1>3. CASE Reads \/ Ends
  BY <1>1, <1>3, SameSerial DEF Reads, Ends
<1>4. CASE VideoRefresh
  <2>1. Nudged /\ UNCHANGED <<videoq, codec>>
    BY <1>4, Nudges DEF VideoRefresh, VoutTop, VoutDrop, VoutLater, VoutDue, VoutAdvance, VoutStep,
       VoutDisplay, NextFrame, VoutRest
  <2> QED BY <1>1, <2>1
<1>5. CASE SeekFile \/ SeekPut
  <2>1. Nudged /\ UNCHANGED codec
    BY <1>5, Nudges DEF SeekFile, SeekPut, Put, ReadRest
  <2>2. videoq'.serial = videoq.serial \/ videoq'.serial = videoq.serial + 1
    BY <1>5 DEF SeekFile, SeekPut, Put, PacketFlush, PacketPut, PacketQueue
  <2>3. videoq'.serial = videoq.serial \/ videoq'.serial > dec.pkt_serial
    BY <1>0, <2>2
  <2> QED BY <1>1, <2>1, <2>3
<1>6. CASE OpenStream
  <2>1. /\ dec'.pc = "receive" /\ dec'.pkt_serial = dec.pkt_serial /\ dec'.finished = dec.finished
        /\ dec'.pkt = dec.pkt
    BY <1>6 DEF OpenStream, Decoder
  <2>2. videoq.serial = 0 /\ videoq'.serial = videoq.serial + 1
    BY <1>6 DEF OpenStream, PacketInv, PacketStart, PacketPut, PacketQueue
  <2>3. dec'.pkt_serial # videoq'.serial
    BY <1>0, <2>1, <2>2
  <2> QED BY <2>1, <2>3 DEF DecoderInv, Flushing, DecAt
<1>7. ASSUME UNCHANGED <<videoq, codec>>, NEW place, DecGoto(place), place # "got",
             place \in {"picture", "full", "fill"} => dec.pc \in {"picture", "full", "fill"},
             ~Flushing \/ dec.pkt_serial # videoq.serial
      PROVE  DecoderInv'
  <2>1. /\ dec'.pkt_serial = dec.pkt_serial /\ dec'.finished = dec.finished
        /\ dec'.pkt = dec.pkt /\ dec'.frame = dec.frame /\ dec'.pc = place
    BY <1>7 DEF DecGoto, Decoder
  <2> QED BY <1>7, <2>1 DEF DecoderInv, Flushing, DecAt
<1>8. CASE DecodeReceive
  <2>1. DecAt("receive") /\ ~Flushing /\ UNCHANGED videoq /\ videoq.serial >= 1
    BY <1>8 DEF DecodeReceive, DecAt, Flushing, PacketInv
  <2>2. CASE \E place \in {"exited", "get"} : DecGoto(place) /\ UNCHANGED codec
    BY <1>7, <2>1, <2>2
  <2>3. CASE /\ videoq.serial = dec.pkt_serial /\ codec.frames # <<>>
             /\ dec' = [dec EXCEPT !.pc = "picture", !.frame = Head(codec.frames)]
             /\ codec' = [codec EXCEPT !.frames = Tail(@)]
    <3>1. \A i \in DOMAIN codec.frames : codec.frames[i] = dec.pkt_serial
      BY <2>1, <2>3 DEF DecoderInv
    <3>2. Head(codec.frames) = dec.pkt_serial
      <4>1. 1 \in DOMAIN codec.frames /\ Head(codec.frames) = codec.frames[1]
        BY <1>0, <2>3
      <4> QED BY <3>1, <4>1
    <3>3. \A i \in DOMAIN Tail(codec.frames) : Tail(codec.frames)[i] = dec.pkt_serial
      <4>1. \A i \in DOMAIN Tail(codec.frames) :
                i + 1 \in DOMAIN codec.frames /\ Tail(codec.frames)[i] = codec.frames[i + 1]
        BY <1>0, <2>3, TailElements
      <4> QED BY <3>1, <4>1
    <3>4. /\ dec'.pkt_serial = dec.pkt_serial /\ dec'.finished = dec.finished
          /\ dec'.pkt = dec.pkt /\ dec'.frame = Head(codec.frames) /\ dec'.pc = "picture"
          /\ codec'.frames = Tail(codec.frames)
      BY <2>3 DEF Decoder, CodecType
    <3> QED BY <2>1, <2>3, <3>2, <3>3, <3>4 DEF DecoderInv, Flushing, DecAt
  <2>4. CASE dec' = [dec EXCEPT !.finished = dec.pkt_serial] /\ codec' = Flushed
    <3>1. /\ dec'.pkt_serial = dec.pkt_serial /\ dec'.finished = dec.pkt_serial
          /\ dec'.pkt = dec.pkt /\ dec'.pc = "receive" /\ codec'.frames = <<>>
      BY <2>1, <2>4 DEF Decoder, Flushed, DecAt
    <3> QED BY <1>0, <3>1 DEF DecoderInv, Flushing, DecAt
  <2> QED BY <1>8, <2>2, <2>3, <2>4 DEF DecodeReceive, CodecReady
<1>9. CASE DecodeGet \/ DecodeBlock
  <2>1. ~Flushing /\ UNCHANGED codec /\ (PacketGet("buffer") \/ PacketGet("waiting"))
    BY <1>9 DEF DecodeGet, DecodeBlock, DecAt, Flushing
  <2>2. CASE /\ ~videoq.abort /\ videoq.pkts # <<>>
             /\ dec' = [dec EXCEPT !.pc = "got", !.pkt = Head(videoq.pkts),
                                   !.pkt_serial = Head(videoq.pkts).serial]
             /\ videoq' = [videoq EXCEPT !.pkts = Tail(@)]
    <3> DEFINE p == Head(videoq.pkts)
    <3>1. /\ dec'.pc = "got" /\ dec'.pkt = p /\ dec'.pkt_serial = p.serial
          /\ dec'.finished = dec.finished
          /\ p.serial \in 1 .. videoq.serial /\ p.epoch = p.serial
          /\ Follows(p, dec.pkt_serial)
          /\ videoq'.serial = videoq.serial
      BY <2>2, GetTakes
    <3> HIDE DEF p
    <3>2. dec.finished <= dec.pkt_serial
      BY DEF DecoderInv
    <3>3. CASE p.kind = "flush"
      <4>1. p.serial > dec.pkt_serial
        BY <3>1, <3>3 DEF Follows
      <4>2. dec.finished < p.serial
        BY <1>0, <3>1, <3>2, <4>1
      <4> QED BY <1>0, <3>1, <3>3, <4>2 DEF DecoderInv, Flushing, DecAt
    <3>4. CASE p.kind # "flush"
      <4>1. p.serial = dec.pkt_serial
        BY <3>1, <3>4 DEF Follows
      <4> QED BY <2>1, <3>1, <3>2, <3>4, <4>1 DEF DecoderInv, Flushing, DecAt
    <3> QED BY <3>3, <3>4
  <2>3. CASE \E place \in {"exited", "buffer", "waiting"} : DecGoto(place) /\ UNCHANGED videoq
    BY <1>7, <2>1, <2>3
  <2> QED BY <2>1, <2>2, <2>3 DEF PacketGet
<1>10. CASE DecodeBuffer
  BY <1>7, <1>10 DEF DecodeBuffer, Flushing, DecAt
<1>11. CASE DecodePacket
  <2>1. DecAt("got") /\ UNCHANGED videoq
    BY <1>11 DEF DecodePacket
  <2>2. CASE Discarded /\ DecGoto("get") /\ UNCHANGED codec
    <3>1. ~Flushing \/ dec.pkt_serial # videoq.serial
      BY <1>0, <2>2 DEF Discarded, DecoderInv
    <3> QED BY <1>7, <2>1, <2>2, <3>1
  <2>3. CASE dec' = [dec EXCEPT !.pc = "receive", !.finished = 0] /\ codec' = Flushed
    <3>1. /\ dec'.pkt_serial = dec.pkt_serial /\ dec'.finished = 0
          /\ dec'.pkt = dec.pkt /\ dec'.pc = "receive" /\ codec'.frames = <<>>
      BY <2>3 DEF Decoder, Flushed
    <3> QED BY <1>0, <3>1 DEF DecoderInv, Flushing, DecAt
  <2>4. CASE dec.pkt.kind # "flush" /\ DecGoto("receive") /\ CodecSend(dec.pkt)
    <3>1. ~Flushing
      BY <2>4 DEF Flushing
    <3>2. /\ dec'.pkt_serial = dec.pkt_serial /\ dec'.finished = dec.finished
          /\ dec'.pkt = dec.pkt /\ dec'.pc = "receive"
      BY <2>4 DEF DecGoto, Decoder
    <3>3. codec'.frames = codec.frames \/ codec'.frames = Append(codec.frames, dec.pkt_serial)
      BY <2>4 DEF CodecSend, CodecType, DecoderInv
    <3>4. \A i \in DOMAIN Append(codec.frames, dec.pkt_serial) :
              \/ Append(codec.frames, dec.pkt_serial)[i] = dec.pkt_serial
              \/ /\ i \in DOMAIN codec.frames
                 /\ Append(codec.frames, dec.pkt_serial)[i] = codec.frames[i]
      BY <1>0
    <3> QED BY <2>1, <3>1, <3>2, <3>3, <3>4 DEF DecoderInv, Flushing, DecAt
  <2> QED BY <1>11, <2>2, <2>3, <2>4 DEF DecodePacket
<1>12. CASE PeekWritable
  <2>1. DecAt("picture") /\ UNCHANGED <<videoq, codec>> /\ ~Flushing
    BY <1>12 DEF PeekWritable, DecAt, Flushing
  <2>2. \E place \in {"full", "exited", "fill"} : DecGoto(place)
    BY <1>12 DEF PeekWritable
  <2> QED BY <1>7, <2>1, <2>2 DEF DecAt
<1>13. CASE QueuePicture
  BY <1>7, <1>13 DEF QueuePicture, Flushing, DecAt
<1> QED BY <1>2, <1>3, <1>4, <1>5, <1>6, <1>8, <1>9, <1>10, <1>11, <1>12, <1>13, Steps DEF Decode

-----------------------------------------------------------------------------
(* The invariant and what follows from it *)

LEMMA FFInvInit == Init => FFInv
<1> SUFFICES ASSUME Init PROVE FFInv
  OBVIOUS
<1>1. TypeOK
  <2>1. /\ <<>> \in Seq(Packet) /\ <<>> \in Seq(Nat)
        /\ <<>> \in Seq([what : {"start", "pause", "seek", "completed"}, pos : 0 .. FileLen])
    OBVIOUS
  <2>2. NoPacket \in Packet /\ NoPicture \in Picture
    BY DEF NoPacket, NoPicture, Packet, Picture, Kinds
  <2>3. /\ 0 \in 0 .. FileLen /\ 0 \in 0 .. PictqSize - 1 /\ 0 \in 0 .. PictqSize
    BY FFPlayAssumption
  <2>4. videoq \in PacketQueue /\ codec \in CodecType
    BY <2>1 DEF Init, PacketQueue, CodecType
  <2>5. dec \in Decoder
    BY <2>2 DEF Init, Decoder, DecPlaces
  <2>6. pictq \in FrameQueue
    BY <2>2, <2>3 DEF Init, FrameQueue
  <2>7. read \in ReadType /\ play \in PlayType /\ seek \in SeekType /\ file \in FileType
    BY <2>3 DEF Init, ReadType, PlayType, SeekType, FileType, ReadPlaces
  <2>8. msgs \in Seq(Message) /\ shown \in ShownType
    BY <2>1, <2>2 DEF Init, Message, ShownType
  <2>9. abort_request \in BOOLEAN /\ restart \in BOOLEAN
    BY Zenon DEF Init
  <2>10. /\ vout \in VoutPlaces /\ app \in AppPlaces
         /\ loop \in Int /\ calls \in Nat /\ seeks \in Nat /\ faults \in Nat
    BY DEF Init, VoutPlaces, AppPlaces
  <2>11. Types
    BY <2>4, <2>5, <2>6, <2>7, <2>8, <2>9, <2>10 DEF Types
  <2> QED BY <2>11, TypesAre
<1>2. RingInv
  <2>1. 0 % PictqSize = 0
    BY Mod, FFPlayAssumption
  <2> QED BY <2>1 DEF Init, RingInv, Ring, DecAt
<1>3. PacketInv
  BY DEF Init, PacketInv, Truthful, ReadAt, DecAt
<1>4. DecoderInv
  BY DEF Init, DecoderInv, Flushing, DecAt, NoPacket
<1>5. FramesOfTheirSerial
  BY DEF Init, FramesOfTheirSerial, NoPicture
<1>6. StaleInv
  BY DEF Init, StaleInv
<1> QED BY <1>1, <1>2, <1>3, <1>4, <1>5, <1>6 DEF FFInv

(* The invariant of the four threads' pipeline holds in every state. *)
THEOREM PipelineInvariant == Spec => []FFInv
<1>1. FFInv /\ [Next]_vars => FFInv'
  BY TypesAre, TypeStep, RingStep, PacketStep, DecoderStep, StaleStep DEF FFInv
<1> QED BY FFInvInit, <1>1, PTL DEF Spec

(* ff_ffplay.c keeps its types: the ring indices stay in the ring and its   *)
(* size within max_size, whatever the decoder and ff_vout interleave.       *)
THEOREM PipelineTypeCorrect == Spec => []TypeOK
<1>1. FFInv => TypeOK
  BY DEF FFInv
<1> QED BY <1>1, PipelineInvariant, PTL

(* decoder_decode_frame never lets a frame from before a seek out under the *)
(* serial number of that seek, for every codec delay and length of the ring.*)
THEOREM SerialsTrue == Spec => []FramesOfTheirSerial
<1>1. FFInv => FramesOfTheirSerial
  BY DEF FFInv
<1> QED BY <1>1, PipelineInvariant, PTL

(* frame_queue_push never writes into the slot on screen or the slot that   *)
(* is due, and frame_queue_next never clears one that is watched.           *)
THEOREM WatchedIsKept == Spec => []ShownIsKept
<1>1. FFInv => ShownIsKept
  <2> SUFFICES ASSUME FFInv PROVE ShownIsKept
    OBVIOUS
  <2> DEFINE n == PictqSize
  <2> DEFINE r == pictq.rindex
  <2> DEFINE s == pictq.size
  <2>1. /\ n \in Nat /\ n >= 2 /\ r \in 0 .. n - 1 /\ s \in 0 .. n
        /\ pictq.rindex_shown \in {0, 1} /\ pictq.windex = (r + s) % n
        /\ pictq.rindex_shown <= s
        /\ DecAt("fill") => s < n
        /\ vout = "due" => pictq.rindex_shown < s
    BY FFPlayAssumption DEF FFInv, TypeOK, RingInv, Ring
  <2>2. \A k \in 0 .. s - 1 : pictq.queue[(r + k) % n].serial >= 1
    BY DEF FFInv, RingInv, Ring
  <2>3. \A x \in 0 .. 2 * n - 1 : x % n = IF x < n THEN x ELSE x - n
    BY Mod
  <2>4. \A i \in Watched : \E k \in 0 .. s - 1 : i = (r + k) % n
    <3> TAKE i \in Watched
    <3>1. CASE vout = "due" /\ i = PeekIndex
      <4>1. pictq.rindex_shown \in 0 .. s - 1
        BY <2>1, <3>1
      <4> QED BY <3>1, <4>1 DEF PeekIndex
    <3>2. CASE pictq.rindex_shown = 1 /\ i = r
      <4>1. 0 \in 0 .. s - 1
        BY <2>1, <3>2
      <4>2. (r + 0) % n = r
        <5> HIDE DEF n, r, s
        <5> QED BY <2>1, <2>3
      <4> QED BY <3>2, <4>1, <4>2
    <3> QED BY <3>1, <3>2 DEF Watched
  <2>5. NoPicture.serial = 0
    BY DEF NoPicture
  <2> HIDE DEF n, r, s
  <2>6. DecAt("fill") => \A k \in 0 .. s - 1 : (r + k) % n # pictq.windex
    BY <2>1, <2>3
  <2>7. \A i \in Watched : pictq.queue[i] # NoPicture
    BY <2>2, <2>4, <2>5
  <2>8. DecAt("fill") => pictq.windex \notin Watched
    BY <2>4, <2>6
  <2> QED BY <2>7, <2>8 DEF ShownIsKept
<1> QED BY <1>1, PipelineInvariant, PTL

(* video_refresh shows at most one frame from before a seek after it, the   *)
(* one it had taken when packet_queue_put raised the serial number.         *)
THEOREM StaleOnce == Spec => []OneStaleFrame
<1>1. FFInv => OneStaleFrame
  BY DEF FFInv, StaleInv, OneStaleFrame
<1> QED BY <1>1, PipelineInvariant, PTL

-----------------------------------------------------------------------------
(* Completion *)

LEMMA ReaderStep ==
    ASSUME Types, PacketInv, ReaderInv, [Next]_vars
    PROVE  ReaderInv'
<1> USE DEF Types
<1>0. /\ videoq.serial \in Nat /\ videoq.abort \in BOOLEAN /\ file.epoch \in Nat
      /\ read.pc \in ReadPlaces /\ seek.req \in BOOLEAN
  BY DEF PacketQueue, FileType, ReadType, SeekType
<1>1. ASSUME UNCHANGED <<read, file, seek>>,
             videoq'.abort = videoq.abort, videoq'.serial = videoq.serial,
             UNCHANGED <<abort_request, app>> \/ (abort_request' /\ app' # "idle")
      PROVE  ReaderInv'
  BY <1>1 DEF ReaderInv, ReadAt
<1>2. CASE Decode
  <2>1. UNCHANGED <<read, file, seek, abort_request, app>>
    BY <1>2 DEF Decode, DecodeReceive, DecodeGet, DecodeBuffer, DecodeBlock, DecodePacket,
       PeekWritable, QueuePicture, DecRest
  <2>2. videoq'.abort = videoq.abort /\ videoq'.serial = videoq.serial
    <3>1. CASE DecodeGet \/ DecodeBlock
      BY <3>1 DEF DecodeGet, DecodeBlock, PacketGet, PacketQueue
    <3>2. CASE DecodeReceive \/ DecodeBuffer \/ DecodePacket \/ PeekWritable \/ QueuePicture
      BY <3>2 DEF DecodeReceive, DecodeBuffer, DecodePacket, PeekWritable, QueuePicture
    <3> QED BY <1>2, <3>1, <3>2 DEF Decode
  <2> QED BY <1>1, <2>1, <2>2
<1>3. CASE VideoRefresh
  <2>1. UNCHANGED <<videoq, read, file, seek, abort_request, app>>
    BY <1>3 DEF VideoRefresh, VoutTop, VoutDrop, VoutLater, VoutDue, VoutAdvance, VoutStep,
       VoutDisplay, VoutRest
  <2> QED BY <1>1, <2>1
<1>4. ASSUME UNCHANGED <<abort_request, app>>, videoq'.serial = videoq.serial,
             videoq'.abort = videoq.abort, file'.epoch = file.epoch,
             read.pc \notin {"open", "put", "exited"}, read'.pc \notin {"open", "put"},
             \/ file.epoch = videoq.serial
             \/ read'.pc = "exited"
             \/ videoq.abort /\ seek'.req = seek.req /\ read'.pc \in {"limit", "loop"}
      PROVE  ReaderInv'
  BY <1>0, <1>4 DEF ReaderInv, ReadAt
<1>5. CASE OpenStream
  <2>1. videoq.serial = 0 /\ file.epoch = 1 /\ file' = file
    BY <1>5 DEF OpenStream, PacketInv
  <2>2. videoq'.serial = 1 /\ ~videoq'.abort
    BY <1>5, <2>1 DEF OpenStream, PacketStart, PacketPut, PacketQueue
  <2>3. read'.pc = "prepared"
    BY <1>5 DEF OpenStream, ReadGoto, ReadType
  <2> QED BY <2>1, <2>2, <2>3 DEF ReaderInv, ReadAt
<1>6. CASE OpenFails
  <2>1. read'.pc = "exited"
    BY <1>6 DEF OpenFails, ReadGoto, ReadType
  <2> QED BY <2>1 DEF ReaderInv
<1>7. ASSUME NEW place \in ReadPlaces, ReadGoto(place)
      PROVE  read'.pc = place
  BY <1>7 DEF ReadGoto, ReadType
<1>8. CASE WaitStart \/ ReadLoop
  <2>1. read.pc \in {"prepared", "loop"} /\ UNCHANGED <<videoq, file, seek, abort_request, app>>
    BY <1>8 DEF WaitStart, ReadLoop, ReadAt, ReadRest
  <2>2. CASE WaitStart
    <3>1. read'.pc = "loop" /\ file.epoch = videoq.serial
      BY <2>2, <1>0, <1>7 DEF WaitStart, ReadPlaces, ReaderInv, ReadAt
    <3> QED BY <1>4, <2>1, <3>1
  <2>3. CASE ReadLoop
    <3>1. read'.pc = IF abort_request THEN "exited" ELSE IF seek.req THEN "flush" ELSE "limit"
      BY <2>3, <1>7 DEF ReadLoop, ReadPlaces
    <3>2. file.epoch = videoq.serial \/ abort_request
      BY <2>3, <1>0 DEF ReadLoop, ReaderInv, ReadAt
    <3> QED BY <1>4, <2>1, <3>1, <3>2
  <2> QED BY <1>8, <2>2, <2>3
<1>9. CASE SeekResume
  <2>1. /\ ReadAt("resume") /\ UNCHANGED <<videoq, file, seek, abort_request, app>>
        /\ read'.pc = "limit"
    BY <1>9, <1>7 DEF SeekResume, ReadRest, ReadPlaces
  <2> QED BY <1>0, <2>1, <1>4 DEF ReaderInv, ReadAt
<1>10. CASE ReadLimit
  <2>1. /\ ReadAt("limit") /\ UNCHANGED <<videoq, file, seek, abort_request, app>>
        /\ (read'.pc = "loop" /\ ~seek.req) \/ (read'.pc = "finish" /\ (seek.req \/ ~Enough))
    BY <1>10, <1>7 DEF ReadLimit, ReadRest, ReadPlaces
  <2>2. file.epoch = videoq.serial \/ (videoq.abort /\ ~seek.req)
    BY <1>0, <2>1 DEF ReaderInv, ReadAt
  <2> QED BY <1>4, <2>1, <2>2 DEF Enough, ReadAt
<1>11. CASE FinishNot \/ FinishRepeats \/ FinishCompletes \/ FinishWaits
  <2>1. ReadAt("finish") /\ UNCHANGED <<videoq, file, abort_request, app>>
    BY <1>11 DEF FinishNot, FinishRepeats, FinishCompletes, FinishWaits, ReadRest
  <2>2. read'.pc \in {"read", "loop"}
    BY <1>11, <1>7 DEF FinishNot, FinishRepeats, FinishCompletes, FinishWaits, ReadType, ReadPlaces
  <2>3. file.epoch = videoq.serial
    BY <1>0, <2>1 DEF ReaderInv, ReadAt
  <2> QED BY <1>4, <2>1, <2>2, <2>3 DEF ReadAt
<1>12. CASE ReadPacket \/ ReadEof \/ ReadFails
  <2>1. ReadAt("read") /\ UNCHANGED <<abort_request, app>>
    BY <1>12 DEF ReadPacket, ReadEof, ReadFails, ReadRest
  <2>2. read'.pc = "loop" /\ file'.epoch = file.epoch
    BY <1>12 DEF ReadPacket, ReadEof, ReadFails, ReadType, FileType
  <2>3. videoq'.serial = videoq.serial /\ videoq'.abort = videoq.abort
    BY <1>12 DEF ReadPacket, ReadEof, ReadFails, Put, PacketPut, PacketQueue
  <2>4. file.epoch = videoq.serial
    BY <1>0, <2>1 DEF ReaderInv, ReadAt
  <2> QED BY <1>4, <2>1, <2>2, <2>3, <2>4 DEF ReadAt
<1>13. CASE SeekFile
  <2>1. ReadAt("flush") /\ UNCHANGED <<abort_request, app>> /\ read'.pc = "put"
    BY <1>13, <1>7 DEF SeekFile, ReadRest, ReadPlaces
  <2>2. /\ videoq'.serial = videoq.serial /\ videoq'.abort = videoq.abort
        /\ file'.epoch = file.epoch + 1
    BY <1>13 DEF SeekFile, PacketFlush, PacketQueue
  <2> QED BY <1>0, <2>1, <2>2 DEF ReaderInv, ReadAt
<1>14. CASE SeekFails
  <2>1. ReadAt("flush") /\ UNCHANGED <<videoq, file, abort_request, app>> /\ read'.pc = "resume"
    BY <1>14 DEF SeekFails, SeekDone, ReadRest, ReadType
  <2>2. file.epoch = videoq.serial
    BY <1>0, <2>1 DEF ReaderInv, ReadAt
  <2> QED BY <1>4, <2>1, <2>2 DEF ReadAt
<1>15. CASE SeekPut
  <2>1. /\ ReadAt("put") /\ UNCHANGED <<file, abort_request, app>> /\ read'.pc = "resume"
        /\ ~seek'.req
    BY <1>15 DEF SeekPut, SeekDone, ReadRest, ReadType, SeekType
  <2>2. file.epoch = videoq.serial + 1 /\ videoq.serial >= 1
    BY <1>0, <2>1 DEF ReaderInv, ReadAt
  <2>3. /\ videoq'.abort = videoq.abort
        /\ videoq'.serial = IF videoq.abort THEN videoq.serial ELSE videoq.serial + 1
    BY <1>15 DEF SeekPut, Put, PacketPut, PacketQueue
  <2> QED BY <1>0, <2>1, <2>2, <2>3 DEF ReaderInv, ReadAt
<1>16. CASE Start \/ Pause \/ (\E pos \in SeekTargets : SeekTo(pos))
            \/ (\E on \in LoopSettings : SetLoop(on)) \/ GetStart \/ GetPause \/ GetCompleted
            \/ Stop
  <2>1. UNCHANGED <<videoq, read, file, seek>>
        /\ (UNCHANGED <<abort_request, app>> \/ (abort_request' /\ app' # "idle"))
    BY <1>16 DEF Start, Pause, SeekTo, SetLoop, Call, GetStart, GetPause, GetCompleted, GetMsg,
       Stop, StopPlaying, AppRest
  <2> QED BY <1>1, <2>1
<1>17. CASE GetStartFrom \/ GetSeek
  <2>1. UNCHANGED <<videoq, read, file, abort_request, app>> /\ app = "idle"
    BY <1>17 DEF GetStartFrom, GetSeek, GetMsg, AppRest
  <2> QED BY <1>0, <2>1 DEF ReaderInv, ReadAt
<1>18. CASE Shutdown
  <2>1. UNCHANGED <<read, file, seek>> /\ abort_request' /\ app' # "idle"
    BY <1>18 DEF Shutdown, StopPlaying, AppRest
  <2>2. videoq'.abort /\ videoq'.serial = videoq.serial
    BY <1>18 DEF Shutdown, PacketAbort, PacketQueue
  <2> QED BY <1>0, <2>1, <2>2 DEF ReaderInv, ReadAt
<1>19. CASE JoinRead
  <2>1. read' = read /\ ReadAt("exited")
    BY <1>19 DEF JoinRead, AppRest
  <2> QED BY <2>1 DEF ReaderInv, ReadAt
<1>20. CASE JoinDecoder
  <2>1. UNCHANGED <<read, file, seek, abort_request>> /\ app' # "idle" /\ app # "idle"
    BY <1>20 DEF JoinDecoder, AppRest
  <2>2. videoq'.abort = videoq.abort /\ videoq'.serial = videoq.serial
    BY <1>20 DEF JoinDecoder, PacketFlush, PacketQueue
  <2> QED BY <2>1, <2>2 DEF ReaderInv, ReadAt
<1>21. CASE JoinVout
  <2>1. UNCHANGED <<videoq, read, file, seek, abort_request>> /\ app' # "idle" /\ app # "idle"
    BY <1>21 DEF JoinVout, AppRest
  <2> QED BY <2>1 DEF ReaderInv, ReadAt
<1>22. CASE Closed \/ UNCHANGED vars
  BY <1>22, <1>1 DEF Closed, vars
<1> QED BY <1>2, <1>3, <1>5, <1>6, <1>8, <1>9, <1>10, <1>11, <1>12, <1>13, <1>14, <1>15, <1>16,
           <1>17, <1>18, <1>19, <1>20, <1>21, <1>22
        DEF Next, ReadThread, MessageLoop, Joining

(* The slots that a push and a next leave blank. *)
LEMMA PushKeepsBlank ==
    ASSUME NEW f \in FrameQueue, Ring(f), Blank(f), f.size < PictqSize, NEW p \in Picture
    PROVE  Blank(FramePush(f, p))
<1> DEFINE g == FramePush(f, p)
<1>1. /\ PictqSize \in Nat /\ PictqSize >= 2 /\ f.rindex \in 0 .. PictqSize - 1
      /\ f.size \in 0 .. PictqSize - 1 /\ f.windex = (f.rindex + f.size) % PictqSize
      /\ f.windex \in 0 .. PictqSize - 1 /\ f.queue \in [0 .. PictqSize - 1 -> Picture]
  BY FFPlayAssumption DEF FrameQueue, Ring
<1>2. /\ g.queue = [f.queue EXCEPT ![f.windex] = p] /\ g.size = f.size + 1
      /\ g.rindex = f.rindex
  BY DEF FramePush, FrameQueue
<1> HIDE DEF g
<1>3. Distance(f, f.windex) = f.size
  <2> DEFINE n == PictqSize
  <2> DEFINE r == f.rindex
  <2> DEFINE w == f.windex
  <2> DEFINE s == f.size
  <2>1. /\ n \in Nat /\ r \in 0 .. n - 1 /\ s \in 0 .. n - 1 /\ w = (r + s) % n
        /\ \A x \in 0 .. 2 * n - 1 : x % n = IF x < n THEN x ELSE x - n
    BY <1>1, Mod
  <2>2. Distance(f, f.windex) = IF w >= r THEN w - r ELSE w - r + n
    BY DEF Distance
  <2> HIDE DEF n, r, w, s
  <2>3. w = IF r + s < n THEN r + s ELSE r + s - n
    BY <2>1
  <2>4. Distance(f, f.windex) = s
    BY <2>1, <2>2, <2>3
  <2> QED BY <2>4 DEF s
<1>4. ASSUME NEW i \in 0 .. PictqSize - 1, Distance(g, i) >= g.size
      PROVE  g.queue[i].serial = 0
  <2>1. Distance(g, i) = Distance(f, i) /\ Distance(f, i) \in Int
    BY <1>1, <1>2 DEF Distance
  <2>2. i # f.windex /\ Distance(f, i) >= f.size
    BY <1>1, <1>2, <1>3, <1>4, <2>1
  <2>3. g.queue[i] = f.queue[i]
    BY <1>1, <1>2, <2>2
  <2> QED BY <2>2, <2>3 DEF Blank
<1> QED BY <1>4 DEF Blank, g

LEMMA NextKeepsBlank ==
    ASSUME NEW f \in FrameQueue, Blank(f), f.rindex_shown < f.size
    PROVE  Blank(FrameNext(f))
<1> DEFINE g == FrameNext(f)
<1>1. /\ PictqSize \in Nat /\ PictqSize >= 2 /\ f.rindex \in 0 .. PictqSize - 1
      /\ f.size \in 0 .. PictqSize /\ f.queue \in [0 .. PictqSize - 1 -> Picture]
      /\ f.rindex_shown \in {0, 1}
  BY FFPlayAssumption DEF FrameQueue
<1>2. CASE f.rindex_shown = 0
  <2>1. g.queue = f.queue /\ g.size = f.size /\ g.rindex = f.rindex
    BY <1>2 DEF FrameNext, FrameQueue
  <2> HIDE DEF g
  <2>2. \A i : Distance(g, i) = Distance(f, i)
    BY <2>1 DEF Distance
  <2>3. Blank(g)
    BY <2>1, <2>2 DEF Blank
  <2> QED BY <2>3 DEF g
<1>3. CASE f.rindex_shown = 1
  <2>1. /\ g.queue = [f.queue EXCEPT ![f.rindex] = NoPicture] /\ g.size = f.size - 1
        /\ g.rindex = (f.rindex + 1) % PictqSize
    BY <1>3 DEF FrameNext, FrameQueue
  <2>2. g.rindex = IF f.rindex + 1 < PictqSize THEN f.rindex + 1 ELSE 0
    BY <1>1, <2>1, Mod
  <2> HIDE DEF g
  <2>3. ASSUME NEW i \in 0 .. PictqSize - 1, Distance(g, i) >= g.size
        PROVE  g.queue[i].serial = 0
    <3>1. CASE i = f.rindex
      <4>1. g.queue[i] = NoPicture
        BY <1>1, <2>1, <3>1
      <4> QED BY <4>1 DEF NoPicture
    <3>2. CASE i # f.rindex
      <4>1. Distance(g, i) = Distance(f, i) - 1 /\ Distance(f, i) \in Int
        <5> DEFINE r == f.rindex
        <5> DEFINE q == g.rindex
        <5>1. /\ r \in 0 .. PictqSize - 1 /\ PictqSize \in Nat /\ i # r
              /\ q = IF r + 1 < PictqSize THEN r + 1 ELSE 0
          BY <1>1, <2>2, <3>2
        <5>2. /\ Distance(f, i) = IF i >= r THEN i - r ELSE i - r + PictqSize
              /\ Distance(g, i) = IF i >= q THEN i - q ELSE i - q + PictqSize
          BY DEF Distance
        <5> HIDE DEF r, q
        <5>3. CASE r + 1 < PictqSize
          BY <5>1, <5>2, <5>3
        <5>4. CASE r + 1 >= PictqSize
          BY <5>1, <5>2, <5>4
        <5> QED BY <5>1, <5>3, <5>4
      <4>2. Distance(f, i) >= f.size
        BY <1>1, <2>1, <2>3, <4>1
      <4>3. g.queue[i] = f.queue[i]
        BY <1>1, <2>1, <3>2
      <4> QED BY <4>2, <4>3 DEF Blank
    <3> QED BY <3>1, <3>2
  <2>4. Blank(g)
    BY <2>3 DEF Blank
  <2> QED BY <2>4 DEF g
<1> QED BY <1>1, <1>2, <1>3

LEMMA BlankStep ==
    ASSUME Types, RingInv, Blank(pictq), [Next]_vars
    PROVE  Blank(pictq')
<1> USE DEF Types
<1>1. CASE UNCHANGED pictq
  BY <1>1
<1>2. CASE QueuePicture
  <2>1. [serial |-> dec.pkt_serial, epoch |-> dec.frame] \in Picture
    BY DEF Picture, Decoder
  <2> QED BY <1>2, <2>1, PushKeepsBlank DEF QueuePicture, RingInv
<1>3. CASE VoutDrop \/ VoutAdvance
  <2>1. pictq' = FrameNext(pictq) /\ pictq.rindex_shown < pictq.size
    BY <1>3 DEF VoutDrop, VoutAdvance, NextFrame, Remaining, FrameQueue, RingInv
  <2> QED BY <2>1, NextKeepsBlank
<1>4. CASE Quiet \/ Reads \/ Ends
  BY <1>1, <1>4 DEF Quiet, Reads, Ends
<1>5. CASE OpenStream \/ SeekFile \/ SeekPut
  BY <1>1, <1>5 DEF OpenStream, SeekFile, SeekPut, ReadRest
<1>6. CASE DecodeReceive \/ DecodeGet \/ DecodeBuffer \/ DecodeBlock \/ DecodePacket \/ PeekWritable
  <2>1. UNCHANGED pictq
    BY <1>6 DEF DecodeReceive, DecodeGet, DecodeBuffer, DecodeBlock, DecodePacket, PeekWritable
  <2> QED BY <1>1, <2>1
<1>7. CASE VoutTop \/ VoutLater \/ VoutDue \/ VoutStep \/ VoutDisplay
  BY <1>1, <1>7 DEF VoutTop, VoutLater, VoutDue, VoutStep, VoutDisplay
<1> QED BY <1>2, <1>3, <1>4, <1>5, <1>6, <1>7, Steps DEF Decode, VideoRefresh

LEMMA DrainedStep ==
    ASSUME Types, PacketInv, DecoderInv, DrainedInv, [Next]_vars
    PROVE  DrainedInv'
<1> USE DEF Types
<1>0. /\ videoq.serial \in Nat /\ dec.pkt_serial \in Nat /\ dec.finished \in Nat
      /\ dec.finished <= dec.pkt_serial /\ dec.pkt_serial <= videoq.serial
      /\ codec.frames \in Seq(Nat)
  BY DEF PacketQueue, Decoder, PacketInv, DecoderInv, CodecType
<1>1. ASSUME UNCHANGED codec, dec'.finished = dec.finished,
             dec'.pc \in {"picture", "full", "fill"} => dec.pc \in {"picture", "full", "fill"},
             videoq'.serial = videoq.serial \/ videoq'.serial > videoq.serial
      PROVE  DrainedInv'
  BY <1>0, <1>1 DEF DrainedInv
<1>2. CASE Quiet
  BY <1>1, <1>2 DEF Quiet
<1>3. CASE Reads \/ Ends
  BY <1>1, <1>3, SameSerial DEF Reads, Ends, Nudged, DecAt
<1>4. CASE VideoRefresh
  <2>1. Nudged /\ UNCHANGED <<videoq, codec>>
    BY <1>4, Nudges DEF VideoRefresh, VoutTop, VoutDrop, VoutLater, VoutDue, VoutAdvance, VoutStep,
       VoutDisplay, NextFrame, VoutRest
  <2> QED BY <1>1, <2>1 DEF Nudged, DecAt
<1>5. CASE SeekFile \/ SeekPut
  <2>1. Nudged /\ UNCHANGED codec
    BY <1>5, Nudges DEF SeekFile, SeekPut, Put, ReadRest
  <2>2. videoq'.serial = videoq.serial \/ videoq'.serial = videoq.serial + 1
    BY <1>5 DEF SeekFile, SeekPut, Put, PacketFlush, PacketPut, PacketQueue
  <2> QED BY <1>0, <1>1, <2>1, <2>2 DEF Nudged, DecAt
<1>6. CASE OpenStream
  <2>1. dec'.pc = "receive" /\ dec'.finished = dec.finished /\ codec' = codec
    BY <1>6 DEF OpenStream, Decoder, ReadRest
  <2>2. videoq'.serial = videoq.serial + 1
    BY <1>6 DEF OpenStream, PacketStart, PacketPut, PacketQueue
  <2> QED BY <1>0, <1>1, <2>1, <2>2
<1>7. CASE DecodeReceive
  <2>1. DecAt("receive") /\ UNCHANGED videoq
    BY <1>7 DEF DecodeReceive
  <2>2. CASE \E place \in {"exited", "get"} : DecGoto(place) /\ UNCHANGED codec
    BY <1>1, <2>1, <2>2 DEF DecGoto, Decoder
  <2>3. CASE /\ codec.frames # <<>>
             /\ dec' = [dec EXCEPT !.pc = "picture", !.frame = Head(codec.frames)]
    <3>1. dec'.finished = dec.finished
      BY <2>3 DEF Decoder
    <3> QED BY <2>1, <2>3, <3>1 DEF DrainedInv
  <2>4. CASE dec' = [dec EXCEPT !.finished = dec.pkt_serial] /\ codec' = Flushed
    <3>1. dec'.pc = "receive" /\ codec'.frames = <<>>
      BY <2>1, <2>4 DEF Decoder, DecAt, Flushed
    <3> QED BY <3>1 DEF DrainedInv
  <2> QED BY <1>7, <2>2, <2>3, <2>4 DEF DecodeReceive, CodecReady
<1>8. CASE DecodeGet \/ DecodeBlock
  <2>1. UNCHANGED codec /\ (PacketGet("buffer") \/ PacketGet("waiting"))
    BY <1>8 DEF DecodeGet, DecodeBlock
  <2>2. /\ dec'.finished = dec.finished /\ videoq'.serial = videoq.serial
        /\ dec'.pc \notin {"picture", "full", "fill"}
    BY <2>1 DEF PacketGet, DecGoto, Decoder, PacketQueue
  <2> QED BY <1>1, <2>1, <2>2
<1>9. CASE DecodeBuffer
  BY <1>1, <1>9 DEF DecodeBuffer, DecGoto, Decoder
<1>10. CASE DecodePacket
  <2>1. DecAt("got") /\ UNCHANGED videoq
    BY <1>10 DEF DecodePacket
  <2>2. CASE Discarded /\ DecGoto("get") /\ UNCHANGED codec
    BY <1>1, <2>1, <2>2 DEF DecGoto, Decoder
  <2>3. CASE dec' = [dec EXCEPT !.pc = "receive", !.finished = 0] /\ codec' = Flushed
    <3>1. dec'.pc = "receive" /\ codec'.frames = <<>>
      BY <2>3 DEF Decoder, Flushed
    <3> QED BY <3>1 DEF DrainedInv
  <2>4. CASE ~Discarded /\ DecGoto("receive")
    <3>1. dec'.finished = dec.finished /\ dec.finished # videoq.serial
      BY <2>4 DEF DecGoto, Decoder, Discarded
    <3> QED BY <2>1, <3>1 DEF DrainedInv
  <2> QED BY <1>10, <2>2, <2>3, <2>4 DEF DecodePacket
<1>11. CASE PeekWritable \/ QueuePicture
  <2>1. dec.pc \in {"picture", "fill"} /\ UNCHANGED <<videoq, codec>>
    BY <1>11 DEF PeekWritable, QueuePicture, DecAt
  <2>2. dec'.finished = dec.finished
    BY <1>11 DEF PeekWritable, QueuePicture, DecGoto, Decoder
  <2> QED BY <1>1, <2>1, <2>2
<1> QED BY <1>2, <1>3, <1>4, <1>5, <1>6, <1>7, <1>8, <1>9, <1>10, <1>11, Steps DEF Decode

(* The packets of a queue after a put. *)
LEMMA PutElements ==
    ASSUME NEW q \in PacketQueue, NEW kind \in Kinds, file.epoch \in Nat
    PROVE  LET new == PacketPut(q, kind)
           IN  \A i \in DOMAIN new.pkts :
                   \/ i \in DOMAIN q.pkts /\ new.pkts[i] = q.pkts[i]
                   \/ new.pkts[i].kind = kind /\ \A j \in DOMAIN new.pkts : ~(j > i)
<1>1. CASE q.abort
  BY <1>1 DEF PacketPut
<1>2. CASE ~q.abort
  <2> DEFINE p == [kind |-> kind, serial |-> IF kind = "flush" THEN q.serial + 1 ELSE q.serial,
                   epoch |-> file.epoch]
  <2>0. q.serial \in Nat /\ q.pkts \in Seq(Packet)
    BY DEF PacketQueue
  <2>1. PacketPut(q, kind).pkts = Append(q.pkts, p) /\ p.kind = kind /\ p \in Packet
    <3>1. PacketPut(q, kind).pkts = Append(q.pkts, p)
      BY <1>2, PutAdds
    <3>2. p \in Packet
      BY <2>0 DEF Packet
    <3> QED BY <3>1, <3>2
  <2> HIDE DEF p
  <2>2. /\ DOMAIN Append(q.pkts, p) = 1 .. Len(q.pkts) + 1 /\ Len(q.pkts) \in Nat
        /\ DOMAIN q.pkts = 1 .. Len(q.pkts)
        /\ Append(q.pkts, p)[Len(q.pkts) + 1] = p
        /\ \A i \in 1 .. Len(q.pkts) : Append(q.pkts, p)[i] = q.pkts[i]
    BY <2>0, <2>1
  <2>3. \A i \in 1 .. Len(q.pkts) + 1 :
            i \in 1 .. Len(q.pkts) \/ (i = Len(q.pkts) + 1 /\ \A j \in 1 .. Len(q.pkts) + 1 : ~(j > i))
    BY <2>2
  <2> QED BY <2>1, <2>2, <2>3
<1> QED BY <1>1, <1>2 DEF PacketQueue

LEMMA LastStep ==
    ASSUME Types, PacketInv, DecoderInv, ReaderInv, LastInv, [Next]_vars
    PROVE  LastInv'
<1> USE DEF Types
<1>0. /\ videoq.serial \in Nat /\ dec.pkt_serial \in Nat /\ dec.finished \in Nat
      /\ dec.finished <= dec.pkt_serial /\ dec.pkt_serial <= videoq.serial
      /\ videoq.abort \in BOOLEAN /\ videoq.pkts \in Seq(Packet) /\ file.epoch \in Nat
      /\ file.pos \in Int /\ FileLen \in Int /\ codec.draining \in BOOLEAN
  BY FFPlayAssumption DEF PacketQueue, Decoder, PacketInv, DecoderInv, FileType, CodecType
<1>1. ASSUME UNCHANGED file, videoq'.serial = videoq.serial, videoq'.pkts = videoq.pkts,
             EndSeen' => EndSeen
      PROVE  LastInv'
  BY <1>1 DEF LastInv, InStep, NoData
<1>2. ASSUME Nudged, UNCHANGED codec, videoq'.serial = videoq.serial
      PROVE  EndSeen' => EndSeen
  BY <1>2 DEF EndSeen, Nudged, Flushing, DecAt
<1>3. CASE Quiet
  <2>1. Nudged
    BY <1>3, Nudges DEF Quiet
  <2> QED BY <1>1, <1>2, <1>3, <2>1 DEF Quiet
<1>4. CASE VideoRefresh
  <2>1. Nudged /\ UNCHANGED <<videoq, codec, file>>
    BY <1>4, Nudges DEF VideoRefresh, VoutTop, VoutDrop, VoutLater, VoutDue, VoutAdvance, VoutStep,
       VoutDisplay, NextFrame, VoutRest
  <2> QED BY <1>1, <1>2, <2>1
<1>5. CASE Ends
  <2>1. Nudged /\ UNCHANGED <<codec, file>> /\ videoq'.serial = videoq.serial
        /\ videoq'.pkts \in {videoq.pkts, <<>>}
    BY <1>5 DEF Ends, PacketAbort, PacketFlush, PacketQueue
  <2>2. CASE videoq'.pkts = videoq.pkts
    BY <1>1, <1>2, <2>1, <2>2
  <2>3. CASE videoq'.pkts = <<>>
    <3>1. InStep' => InStep
      BY <2>1 DEF InStep
    <3>2. DOMAIN videoq'.pkts = {}
      BY <2>3
    <3> QED BY <1>2, <2>1, <3>1, <3>2 DEF LastInv, NoData
  <2> QED BY <2>1, <2>2, <2>3
<1>6. CASE Reads
  <2>1. Nudged /\ UNCHANGED codec /\ file'.epoch = file.epoch /\ videoq'.serial = videoq.serial
    BY <1>6, SameSerial DEF Reads
  <2>2. EndSeen' => EndSeen
    BY <1>2, <2>1
  <2>3. CASE file'.failed
    BY <2>3 DEF LastInv, InStep
  <2>4. CASE UNCHANGED file /\ UNCHANGED videoq
    BY <1>1, <2>2, <2>4
  <2>5. CASE UNCHANGED file /\ file.pos = FileLen /\ videoq' = PacketPut(videoq, "null")
    <3>1. \A i \in DOMAIN videoq'.pkts :
              \/ i \in DOMAIN videoq.pkts /\ videoq'.pkts[i] = videoq.pkts[i]
              \/ videoq'.pkts[i].kind = "null" /\ \A j \in DOMAIN videoq'.pkts : ~(j > i)
      BY <1>0, <2>5, PutElements DEF Kinds
    <3>2. InStep' => InStep
      BY <2>1, <2>5 DEF InStep
    <3>3. ASSUME NEW n, NoData(videoq, n) PROVE NoData(videoq', n)
      BY <3>1, <3>3 DEF NoData
    <3>4. ASSUME InStep', NEW i \in DOMAIN videoq'.pkts, videoq'.pkts[i].kind = "null",
                 videoq'.pkts[i].serial = videoq'.serial
          PROVE  NoData(videoq', i)
      <4>1. CASE i \in DOMAIN videoq.pkts /\ videoq'.pkts[i] = videoq.pkts[i]
        BY <2>1, <3>2, <3>3, <3>4, <4>1 DEF LastInv
      <4>2. CASE \A j \in DOMAIN videoq'.pkts : ~(j > i)
        BY <4>2 DEF NoData
      <4> QED BY <3>1, <4>1, <4>2
    <3>5. file'.pos = FileLen
      BY <2>5
    <3> QED BY <2>2, <3>2, <3>3, <3>4, <3>5 DEF LastInv
  <2>6. CASE file'.failed = file.failed /\ file.pos < FileLen /\ videoq' = PacketPut(videoq, "data")
    <3>1. \A i \in DOMAIN videoq'.pkts :
              \/ i \in DOMAIN videoq.pkts /\ videoq'.pkts[i] = videoq.pkts[i]
              \/ videoq'.pkts[i].kind = "data"
      BY <1>0, <2>6, PutElements DEF Kinds
    <3>2. (InStep' => InStep) /\ file.pos # FileLen
      BY <1>0, <2>1, <2>6 DEF InStep
    <3> QED BY <2>1, <2>2, <3>1, <3>2 DEF LastInv
  <2> QED BY <1>6, <2>3, <2>4, <2>5, <2>6 DEF Reads
<1>7. CASE OpenStream
  <2>1. /\ file' = file /\ dec'.pc = "receive" /\ dec'.pkt_serial = dec.pkt_serial
        /\ dec'.finished = dec.finished
    BY <1>7 DEF OpenStream, Decoder
  <2>2. videoq.pkts = <<>> /\ videoq.serial = 0 /\ file.epoch = 1
    BY <1>7 DEF OpenStream, PacketInv
  <2>3. videoq'.serial = 1 /\ ~EndSeen'
    <3>1. videoq'.serial = videoq.serial + 1
      BY <1>7 DEF OpenStream, PacketStart, PacketPut, PacketQueue
    <3> QED BY <1>0, <2>1, <2>2, <3>1 DEF EndSeen
  <2>4. \A i \in DOMAIN videoq'.pkts : videoq'.pkts[i].kind = "flush"
    <3> DEFINE q == [videoq EXCEPT !.abort = FALSE]
    <3>1. q \in PacketQueue /\ q.pkts = <<>> /\ videoq' = PacketPut(q, "flush")
      BY <1>7, <2>2 DEF OpenStream, PacketStart, PacketQueue
    <3> HIDE DEF q
    <3>2. DOMAIN q.pkts = {}
      BY <3>1
    <3> QED BY <1>0, <3>1, <3>2, PutElements DEF Kinds
  <2> QED BY <2>3, <2>4 DEF LastInv
<1>8. CASE SeekFile
  <2>1. ReadAt("flush") /\ file'.epoch = file.epoch + 1 /\ videoq'.serial = videoq.serial
    BY <1>8 DEF SeekFile, PacketFlush, PacketQueue
  <2>2. file.epoch = videoq.serial
    BY <1>0, <2>1 DEF ReaderInv, ReadAt
  <2>3. ~InStep'
    BY <1>0, <2>1, <2>2 DEF InStep
  <2> QED BY <2>3 DEF LastInv
<1>9. CASE SeekPut
  <2>1. ReadAt("put") /\ file' = file /\ Nudged /\ videoq' = PacketPut(videoq, "flush")
    BY <1>9, Nudges DEF SeekPut, Put
  <2>2. file.epoch = videoq.serial + 1
    BY <1>0, <2>1 DEF ReaderInv, ReadAt
  <2>3. CASE videoq.abort
    <3>1. videoq' = videoq
      BY <2>1, <2>3 DEF PacketPut
    <3>2. ~InStep'
      BY <1>0, <2>1, <2>2, <3>1 DEF InStep
    <3> QED BY <3>2 DEF LastInv
  <2>4. CASE ~videoq.abort
    <3>1. videoq'.serial = videoq.serial + 1
      BY <2>1, <2>4 DEF PacketPut, PacketQueue
    <3>2. \A i \in DOMAIN videoq'.pkts :
              \/ i \in DOMAIN videoq.pkts /\ videoq'.pkts[i] = videoq.pkts[i]
              \/ videoq'.pkts[i].kind = "flush"
      BY <1>0, <2>1, PutElements DEF Kinds
    <3>3. \A i \in DOMAIN videoq.pkts : videoq.pkts[i].serial # videoq'.serial
      BY <1>0, <3>1 DEF PacketInv, Truthful
    <3>4. ~EndSeen'
      BY <1>0, <2>1, <3>1 DEF EndSeen, Nudged
    <3> QED BY <3>2, <3>3, <3>4 DEF LastInv
  <2> QED BY <2>3, <2>4
<1>10. ASSUME NEW place, DecGoto(place), place # "got", ~Flushing, UNCHANGED videoq,
              codec'.draining = codec.draining
       PROVE  EndSeen' => EndSeen
  <2>1. /\ dec'.pkt_serial = dec.pkt_serial /\ dec'.finished = dec.finished /\ dec'.pc = place
    BY <1>10 DEF DecGoto, Decoder
  <2> QED BY <1>10, <2>1 DEF EndSeen, DecAt
<1>11. CASE DecodeReceive
  <2>1. DecAt("receive") /\ ~Flushing /\ UNCHANGED <<videoq, file>>
    BY <1>11 DEF DecodeReceive, DecAt, Flushing, DecRest
  <2>2. CASE \E place \in {"exited", "get"} : DecGoto(place) /\ UNCHANGED codec
    BY <1>1, <1>10, <2>1, <2>2
  <2>3. CASE /\ dec' = [dec EXCEPT !.pc = "picture", !.frame = Head(codec.frames)]
             /\ codec' = [codec EXCEPT !.frames = Tail(@)]
    <3>1. /\ dec'.pkt_serial = dec.pkt_serial /\ dec'.finished = dec.finished
          /\ dec'.pc = "picture" /\ codec'.draining = codec.draining
      BY <2>3 DEF Decoder, CodecType
    <3>2. EndSeen' => EndSeen
      BY <2>1, <3>1 DEF EndSeen, DecAt
    <3> QED BY <1>1, <2>1, <3>2
  <2>4. CASE videoq.serial = dec.pkt_serial /\ codec.draining
    <3>1. EndSeen
      BY <2>1, <2>4 DEF EndSeen
    <3> QED BY <1>1, <2>1, <3>1
  <2> QED BY <1>11, <2>2, <2>3, <2>4 DEF DecodeReceive
<1>12. CASE DecodeBuffer \/ PeekWritable \/ QueuePicture
  <2>1. ~Flushing /\ UNCHANGED <<videoq, codec, file>>
    BY <1>12 DEF DecodeBuffer, PeekWritable, QueuePicture, DecAt, Flushing, DecRest
  <2>2. \E place \in DecPlaces \ {"got"} : DecGoto(place)
    BY <1>12 DEF DecodeBuffer, PeekWritable, QueuePicture, DecPlaces
  <2> QED BY <1>1, <1>10, <2>1, <2>2
<1>13. CASE DecodePacket
  <2>1. DecAt("got") /\ UNCHANGED <<videoq, file>> /\ videoq.serial >= 1
    BY <1>13 DEF DecodePacket, DecRest, DecAt, PacketInv
  <2>2. CASE Discarded /\ DecGoto("get") /\ UNCHANGED codec
    <3>1. dec'.pkt_serial = dec.pkt_serial /\ dec'.finished = dec.finished /\ dec'.pc = "get"
      BY <2>2 DEF DecGoto, Decoder
    <3>2. EndSeen' => EndSeen
      BY <2>1, <2>2, <3>1 DEF EndSeen, DecAt, Discarded
    <3> QED BY <1>1, <2>1, <3>2
  <2>3. CASE dec' = [dec EXCEPT !.pc = "receive", !.finished = 0] /\ codec' = Flushed
    <3>1. dec'.finished = 0 /\ dec'.pc = "receive" /\ ~codec'.draining
      BY <2>3 DEF Decoder, Flushed
    <3>2. ~EndSeen'
      BY <1>0, <2>1, <3>1 DEF EndSeen, DecAt
    <3> QED BY <1>1, <2>1, <3>2
  <2>4. CASE dec.pkt.kind # "flush" /\ DecGoto("receive") /\ CodecSend(dec.pkt)
    <3>1. dec'.pkt_serial = dec.pkt_serial /\ dec'.finished = dec.finished /\ dec'.pc = "receive"
      BY <2>4 DEF DecGoto, Decoder
    <3>2. codec'.draining => codec.draining \/ dec.pkt.kind = "null"
      BY <2>4 DEF CodecSend, CodecType
    <3>3. EndSeen' => EndSeen
      BY <2>1, <2>4, <3>1, <3>2 DEF EndSeen, DecAt, Flushing
    <3> QED BY <1>1, <2>1, <3>3
  <2> QED BY <1>13, <2>2, <2>3, <2>4 DEF DecodePacket
<1>14. CASE DecodeGet \/ DecodeBlock
  <2>1. /\ ~Flushing /\ UNCHANGED <<codec, file>> /\ (PacketGet("buffer") \/ PacketGet("waiting"))
        /\ ~DecAt("got")
    BY <1>14 DEF DecodeGet, DecodeBlock, DecAt, Flushing, DecRest
  <2>2. CASE /\ ~videoq.abort /\ videoq.pkts # <<>>
             /\ dec' = [dec EXCEPT !.pc = "got", !.pkt = Head(videoq.pkts),
                                   !.pkt_serial = Head(videoq.pkts).serial]
             /\ videoq' = [videoq EXCEPT !.pkts = Tail(@)]
    <3> DEFINE p == Head(videoq.pkts)
    <3>1. /\ dec'.pc = "got" /\ dec'.pkt = p /\ dec'.pkt_serial = p.serial
          /\ dec'.finished = dec.finished /\ Follows(p, dec.pkt_serial)
          /\ videoq'.serial = videoq.serial /\ p.serial \in Int
      BY <2>2, GetTakes
    <3>2. 1 \in DOMAIN videoq.pkts /\ p = videoq.pkts[1]
      BY <1>0, <2>2
    <3>3. videoq'.pkts = Tail(videoq.pkts)
      BY <2>2 DEF PacketQueue
    <3>4. \A i \in DOMAIN videoq'.pkts :
              i \in Int /\ i + 1 \in DOMAIN videoq.pkts /\ videoq'.pkts[i] = videoq.pkts[i + 1]
      <4>1. Tail(videoq.pkts) \in Seq(Packet)
        BY <1>0, <2>2
      <4>2. \A i \in DOMAIN Tail(videoq.pkts) : i \in Int
        BY <4>1
      <4> QED BY <1>0, <2>2, <3>3, <4>2, TailElements
    <3> HIDE DEF p
    <3>5. InStep' => InStep
      BY <2>1, <3>1 DEF InStep
    <3>6. ASSUME NEW n \in Int, NoData(videoq, n + 1) PROVE NoData(videoq', n)
      <4> SUFFICES ASSUME NEW i \in DOMAIN videoq'.pkts, i > n PROVE videoq'.pkts[i].kind # "data"
        BY DEF NoData
      <4>1. i + 1 > n + 1
        BY <3>4
      <4> QED BY <3>4, <3>6, <4>1 DEF NoData
    <3>7. EndSeen' => EndSeen \/ (p.kind = "null" /\ p.serial = videoq.serial)
      <4>1. CASE p.kind = "flush"
        <5>1. p.serial > dec.pkt_serial
          BY <3>1, <4>1 DEF Follows
        <5> QED BY <3>1, <4>1 DEF EndSeen, DecAt, Flushing
      <4>2. CASE p.kind # "flush"
        <5>1. p.serial = dec.pkt_serial
          BY <3>1, <4>2 DEF Follows
        <5> QED BY <2>1, <3>1, <5>1 DEF EndSeen, DecAt, Flushing
      <4> QED BY <4>1, <4>2
    <3>8. ASSUME InStep', EndSeen' PROVE file.pos = FileLen /\ NoData(videoq', 0)
      <4>1. CASE EndSeen
        <5>1. file.pos = FileLen /\ NoData(videoq, 0)
          BY <3>5, <3>8, <4>1 DEF LastInv
        <5>2. \A i \in DOMAIN videoq'.pkts : i + 1 > 0
          <6>1. \A i \in DOMAIN videoq.pkts : i > 0
            BY <1>0
          <6> QED BY <3>4, <6>1
        <5>3. NoData(videoq', 0)
          BY <3>4, <5>1, <5>2 DEF NoData
        <5> QED BY <5>1, <5>3
      <4>2. CASE p.kind = "null" /\ p.serial = videoq.serial
        <5>1. file.pos = FileLen /\ NoData(videoq, 1)
          BY <3>2, <3>5, <3>8, <4>2 DEF LastInv
        <5>2. NoData(videoq, 0 + 1)
          BY <5>1
        <5> QED BY <3>6, <5>1, <5>2
      <4> QED BY <3>7, <3>8, <4>1, <4>2
    <3>9. ASSUME InStep', NEW i \in DOMAIN videoq'.pkts, videoq'.pkts[i].kind = "null",
                 videoq'.pkts[i].serial = videoq'.serial
          PROVE  file.pos = FileLen /\ NoData(videoq', i)
      <4>1. file.pos = FileLen /\ NoData(videoq, i + 1)
        BY <3>1, <3>4, <3>5, <3>9 DEF LastInv
      <4> QED BY <3>4, <3>6, <4>1
    <3> QED BY <2>1, <3>8, <3>9 DEF LastInv
  <2>3. CASE \E place \in {"exited", "buffer", "waiting"} : DecGoto(place) /\ UNCHANGED videoq
    BY <1>1, <1>10, <2>1, <2>3
  <2> QED BY <2>1, <2>2, <2>3 DEF PacketGet
<1> QED BY <1>3, <1>4, <1>5, <1>6, <1>7, <1>8, <1>9, <1>11, <1>12, <1>13, <1>14, Steps DEF Decode

LEMMA EndInvInit == Init => EndInv
<1> SUFFICES ASSUME Init PROVE EndInv
  OBVIOUS
<1>1. /\ read.pc = "open" /\ videoq.serial = 0 /\ file.epoch = 1 /\ codec.frames = <<>>
      /\ dec.pc = "none"
  BY DEF Init
<1>2. Blank(pictq)
  BY DEF Init, Blank, NoPicture
<1>3. ReaderInv /\ DrainedInv /\ LastInv
  BY <1>1 DEF ReaderInv, DrainedInv, LastInv, InStep
<1> QED BY <1>2, <1>3 DEF EndInv

LEMMA EndInvStep == FFInv /\ EndInv /\ [Next]_vars => EndInv'
<1> SUFFICES ASSUME FFInv, EndInv, [Next]_vars PROVE EndInv'
  OBVIOUS
<1>1. Types /\ RingInv /\ PacketInv /\ DecoderInv
  BY TypesAre DEF FFInv
<1>2. ReaderInv /\ Blank(pictq) /\ DrainedInv /\ LastInv
  BY DEF EndInv
<1>3. ReaderInv'
  BY <1>1, <1>2, ReaderStep
<1>4. Blank(pictq')
  BY <1>1, <1>2, BlankStep
<1>5. DrainedInv'
  BY <1>1, <1>2, DrainedStep
<1>6. LastInv'
  BY <1>1, <1>2, LastStep
<1>7. Blank(pictq)'
  BY <1>4 DEF Blank, Distance
<1> QED BY <1>3, <1>5, <1>6, <1>7 DEF EndInv

(* The end of the file, the codec that drains and the reader that waits for *)
(* both agree, for every file, codec delay and ring.                        *)
THEOREM PipelineEnd == Spec => []EndInv
<1> QED BY EndInvInit, EndInvStep, PipelineInvariant, PTL DEF Spec

(* A step of the reader that completes is a FinishCompletes. *)
LEMMA OnlyFinishCompletes ==
    ASSUME Types, [Next]_vars, read'.completed, ~read.completed
    PROVE  FinishCompletes
<1> USE DEF Types
<1>1. ASSUME NEW place, ReadGoto(place) PROVE FALSE
  BY <1>1 DEF ReadGoto, ReadType
<1>2. ~UNCHANGED read
  OBVIOUS
<1>3. ~Decode
  BY <1>2 DEF Decode, DecodeReceive, DecodeGet, DecodeBuffer, DecodeBlock, DecodePacket,
     PeekWritable, QueuePicture, DecRest
<1>4. ~VideoRefresh
  BY <1>2 DEF VideoRefresh, VoutTop, VoutDrop, VoutLater, VoutDue, VoutAdvance, VoutStep,
     VoutDisplay, VoutRest
<1>5. ~(OpenStream \/ OpenFails \/ WaitStart \/ ReadLoop \/ SeekFile \/ SeekResume \/ ReadLimit
        \/ FinishNot \/ FinishRepeats \/ FinishWaits)
  BY <1>1 DEF OpenStream, OpenFails, WaitStart, ReadLoop, SeekFile, SeekResume, ReadLimit,
     FinishNot, FinishRepeats, FinishWaits
<1>6. ~(SeekPut \/ SeekFails)
  BY DEF SeekPut, SeekFails, SeekDone, ReadType
<1>7. ~(ReadPacket \/ ReadEof \/ ReadFails)
  BY DEF ReadPacket, ReadEof, ReadFails, ReadType
<1>8. ~(Start \/ Pause \/ (\E pos \in SeekTargets : SeekTo(pos))
        \/ (\E on \in LoopSettings : SetLoop(on)) \/ MessageLoop)
  BY <1>2 DEF Start, Pause, SeekTo, SetLoop, Call, MessageLoop, GetStart, GetStartFrom, GetPause,
     GetSeek, GetCompleted, GetMsg, AppRest
<1>9. ~(Stop \/ Shutdown \/ Joining)
  BY <1>2 DEF Stop, Shutdown, Joining, JoinRead, JoinDecoder, JoinVout, AppRest
<1>10. ~(Closed \/ UNCHANGED vars)
  BY <1>2 DEF Closed, vars
<1> QED BY <1>3, <1>4, <1>5, <1>6, <1>7, <1>8, <1>9, <1>10 DEF Next, ReadThread

(* FFP_MSG_COMPLETED comes at the end: every packet of the file since the   *)
(* last seek was read and decoded when the reader posts it, and every frame *)
(* taken over by ff_vout, the last one perhaps not yet displayed, unless a  *)
(* read has failed.                                                         *)
THEOREM CompletedIsOver == Spec => CompletedAtEnd
<1> DEFINE Nothing ==
        /\ file.pos = FileLen
        /\ \A i \in DOMAIN videoq.pkts : videoq.pkts[i].kind # "data"
        /\ codec.frames = <<>>
        /\ dec.pc \notin {"picture", "full", "fill"}
        /\ \A i \in 0 .. PictqSize - 1 :
               pictq.queue[i].serial = videoq.serial => i = pictq.rindex
<1>1. ASSUME FFInv, EndInv, [Next]_vars, read'.completed, ~read.completed, ~file.failed
      PROVE  Nothing
  <2>1. Types /\ ReaderInv /\ Blank(pictq) /\ DrainedInv /\ LastInv
    BY <1>1, TypesAre DEF FFInv, EndInv
  <2>2. FinishCompletes
    BY <1>1, <2>1, OnlyFinishCompletes
  <2>3. ReadAt("finish") /\ dec.finished = videoq.serial /\ Remaining = 0
    BY <2>2 DEF FinishCompletes, Over
  <2>4. file.epoch = videoq.serial /\ videoq.serial >= 1 /\ videoq.serial \in Nat
    BY <2>1, <2>3 DEF ReaderInv, ReadAt, Types, FileType, PacketQueue
  <2>5. InStep /\ EndSeen
    BY <1>1, <2>3, <2>4 DEF InStep, EndSeen
  <2>6. file.pos = FileLen /\ NoData(videoq, 0)
    BY <2>1, <2>5 DEF LastInv
  <2>7. \A i \in DOMAIN videoq.pkts : i > 0
    BY <2>1 DEF Types, PacketQueue
  <2>8. \A i \in DOMAIN videoq.pkts : videoq.pkts[i].kind # "data"
    BY <2>6, <2>7 DEF NoData
  <2>9. codec.frames = <<>> /\ dec.pc \notin {"picture", "full", "fill"}
    BY <2>1, <2>3 DEF DrainedInv
  <2>10. ASSUME NEW i \in 0 .. PictqSize - 1, i # pictq.rindex
         PROVE  pictq.queue[i].serial # videoq.serial
    <3>1. PictqSize \in Nat /\ pictq.rindex \in 0 .. PictqSize - 1 /\ pictq.size <= 1
          /\ pictq.size \in Int
      BY <2>1, <2>3, FFPlayAssumption DEF Types, FrameQueue, Remaining
    <3>2. Distance(pictq, i) >= 1 /\ Distance(pictq, i) \in Int
      BY <2>10, <3>1 DEF Distance
    <3>3. Distance(pictq, i) >= pictq.size
      BY <3>1, <3>2
    <3>4. pictq.queue[i].serial = 0
      BY <2>1, <3>3 DEF Blank
    <3> QED BY <2>4, <3>4
  <2> QED BY <2>6, <2>8, <2>9, <2>10
<1>2. FFInv /\ EndInv /\ [Next]_vars
         => [read'.completed /\ ~read.completed /\ ~file.failed => Nothing]_vars
  BY <1>1
<1> QED BY <1>2, PipelineInvariant, PipelineEnd, PTL DEF Spec, CompletedAtEnd
=============================================================================
