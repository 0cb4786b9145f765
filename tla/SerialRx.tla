------------------------------ MODULE SerialRx ------------------------------
(***************************************************************************)
(* The receive half of subsys/zros_serial: the frame parser with its       *)
(* one-level rescan, fed by a line that may damage or lose units, and the  *)
(* ground side's decoder, which rescans without limit, as its reference.   *)
(*                                                                         *)
(* A unit is one field of the header, one byte of the payload or the       *)
(* trailer; all are numbers, so that any of them may be mistaken for any   *)
(* other.  The trailer of frame n is a number no other frame carries and   *)
(* no damage produces: it matches the header and payload of frame n and    *)
(* nothing else, which a CRC promises for one damaged byte.  The parser    *)
(* belongs to one thread and sees the units in order, so a frame's worth   *)
(* of them is one step.                                                    *)
(***************************************************************************)
EXTENDS Naturals, Sequences, FiniteSets

CONSTANTS
  Sync0, Sync1,  \* RDD2_ZROS_SERIAL_SYNC0 and SYNC1
  MaxPayload,    \* CONFIG_RDD2_ZROS_SERIAL_MAX_PAYLOAD
  SeqWrap,       \* what the sequence number wraps at, 256 in the code
  RxTopic,       \* the topic accepted inbound
  PayloadSize,   \* the catalog's size of RxTopic
  Frames,        \* [topic, payload]: what the sender may send
  Noise,         \* the numbers a damaged unit may become
  MaxFrames,     \* bound: frames sent
  MaxFaults      \* bound: units damaged and stretches lost

\* a field has at most sixteen bits
MaxField == 65535

ASSUME SyncAssumption == Sync0 # Sync1 /\ {Sync0, Sync1} \subseteq 0 .. MaxField
ASSUME SizesAssumption == MaxPayload \in 1 .. MaxField /\ SeqWrap \in 1 .. MaxField + 1
ASSUME BoundsAssumption == {MaxFrames, MaxFaults} \subseteq Nat
ASSUME NoiseAssumption == Noise \subseteq 0 .. MaxField
ASSUME FramesAssumption ==
  \A frame \in Frames : /\ frame.topic \in 0 .. MaxField
                        /\ frame.payload \in Seq(0 .. MaxField)
                        /\ Len(frame.payload) <= MaxField

VARIABLES
  sent,     \* the frames sent
  arrived,  \* the units that reached the receive ring
  hurt,     \* the frames of sent that lost a unit or had one damaged
  faults,   \* damages and losses so far
  rx        \* the parser

vars == <<sent, arrived, hurt, faults, rx>>

-----------------------------------------------------------------------------
(* Frames on the line                                                      *)

HeaderUnits == 3
Trailer(n) == MaxField + n
Body(n, frame) == <<Len(frame.payload), frame.topic, n % SeqWrap>> \o frame.payload
Line(n, frame) == <<Sync0, Sync1>> \o Body(n, frame) \o <<Trailer(n)>>

\* the longest a frame can be
FrameMax == 2 + HeaderUnits + MaxPayload + 1

-----------------------------------------------------------------------------
(* The parser                                                              *)

\* the candidate is frame n, header, payload and trailer
Covered(frames, units, n) ==
  n \in DOMAIN frames /\ units = Append(Body(n, frames[n]), Trailer(n))

\* variant: the check covers the payload only
PayloadCrcOk(units) ==
  LET n == units[Len(units)] - MaxField
  IN /\ n \in DOMAIN sent'
     /\ SubSeq(units, HeaderUnits + 1, Len(units)) = Append(sent'[n].payload, Trailer(n))
\* crc16_itu_t over header and payload equals the trailer
CrcOk(units) == Covered(sent', units, units[Len(units)] - MaxField)

\* variant: a length beyond the buffer is taken
AnyLength(len) == len # 0
LengthOk(len) == len # 0 /\ len <= MaxPayload

\* rx_track_sequence
Tracked(parser, seq) ==
  [parser EXCEPT !.last = <<seq>>,
                 !.gaps = IF parser.last \notin {<<>>, <<(seq + SeqWrap - 1) % SeqWrap>>}
                          THEN @ + 1 ELSE @]

\* rx_deliver
Wanted(topic, len) == topic = RxTopic /\ len = PayloadSize
Delivered(parser, n, topic, len) ==
  IF Wanted(topic, len) THEN [parser EXCEPT !.published = Append(@, n)] ELSE parser

\* variant: the sequence number of a frame nobody wants is not tracked
TrackedIfDelivered(parser, units, n) ==
  LET seen == [parser EXCEPT !.accepted = Append(@, n)]
  IN IF Wanted(units[2], units[1])
     THEN Delivered(Tracked(seen, units[3]), n, units[2], units[1]) ELSE seen
Accept(parser, units, n) ==
  Delivered(Tracked([parser EXCEPT !.accepted = Append(@, n)], units[3]), n, units[2], units[1])

Scanning(parser) == [parser EXCEPT !.state = "sync0", !.units = <<>>]

\* a parser fed with units one by one
InOrder(Byte(_, _), parser, units) ==
  LET After[i \in 0 .. Len(units)] == IF i = 0 THEN parser ELSE Byte(After[i - 1], units[i])
  IN After[Len(units)]

\* rx_byte, with what becomes of a rejected candidate
Consume(parser, unit, Rejected(_, _)) ==
  LET units == Append(parser.units, unit)
      long == Len(units)
  IN CASE parser.state = "sync0" ->
            IF unit = Sync0 THEN [parser EXCEPT !.state = "sync1"] ELSE parser
       [] parser.state = "sync1" ->
            IF unit = Sync1 THEN [parser EXCEPT !.state = "frame"]
            ELSE IF unit = Sync0 THEN parser ELSE Scanning(parser)
       [] OTHER ->
            IF long < HeaderUnits THEN [parser EXCEPT !.units = units]
            ELSE IF ~LengthOk(units[1]) THEN Rejected(parser, units)
            ELSE IF long < HeaderUnits + units[1] + 1 THEN [parser EXCEPT !.units = units]
            ELSE IF CrcOk(units) THEN Scanning(Accept(parser, units, unit - MaxField))
            ELSE Rejected(parser, units)

\* rx_replay: while replaying a rejected candidate is dropped, otherwise its
\* units are scanned again
Drop(parser, units) == Scanning(parser)
ReplayByte(parser, unit) == Consume(parser, unit, Drop)
Replay(parser, units) == InOrder(ReplayByte, Scanning(parser), units)
RxByte(parser, unit) == Consume(parser, unit, Replay)

\* rx_drain
Drain(parser, units) == InOrder(RxByte, parser, units)

-----------------------------------------------------------------------------
(* The reference: FrameDecoder of tools/synapse_serial                     *)

\* the frames found in a stream, as their numbers
Reference(stream) ==
  LET From[i \in 1 .. Len(stream) + 1] ==
        IF i + HeaderUnits + 1 > Len(stream) THEN <<>>
        ELSE IF stream[i] # Sync0 \/ stream[i + 1] # Sync1 THEN From[i + 1]
        ELSE IF ~LengthOk(stream[i + 2]) THEN From[i + 2]
        ELSE LET end == i + 1 + HeaderUnits + stream[i + 2] + 1
             IN IF end > Len(stream) THEN <<>>
                ELSE IF Covered(sent, SubSeq(stream, i + 2, end), stream[end] - MaxField)
                     THEN <<stream[end] - MaxField>> \o From[end + 1]
                     ELSE From[i + 2]
  IN From[1]

-----------------------------------------------------------------------------
(* The line                                                                *)

Receive(frame, units) ==
  /\ Len(sent) < MaxFrames
  /\ sent' = Append(sent, frame)
  /\ arrived' = arrived \o units
  /\ rx' = Drain(rx, units)

ReceiveWhole(frame) ==
  /\ Receive(frame, Line(Len(sent) + 1, frame))
  /\ UNCHANGED <<hurt, faults>>

Hurt ==
  /\ faults < MaxFaults
  /\ faults' = faults + 1
  /\ hurt' = hurt \cup {Len(sent) + 1}

\* one unit arrives as another number
ReceiveDamaged(frame) ==
  LET line == Line(Len(sent) + 1, frame)
  IN \E i \in DOMAIN line, unit \in Noise :
       /\ unit # line[i]
       /\ Receive(frame, [line EXCEPT ![i] = unit])
       /\ Hurt

\* a stretch of units is lost: on the air, or because the receive ring is full
ReceiveShort(frame) ==
  LET line == Line(Len(sent) + 1, frame)
  IN \E first, last \in DOMAIN line :
       /\ first <= last
       /\ Receive(frame, SubSeq(line, 1, first - 1) \o SubSeq(line, last + 1, Len(line)))
       /\ Hurt

-----------------------------------------------------------------------------
(* The specification                                                       *)

Init ==
  /\ sent = <<>> /\ arrived = <<>> /\ hurt = {} /\ faults = 0
  /\ rx = [state |-> "sync0", units |-> <<>>, last |-> <<>>, gaps |-> 0,
           accepted |-> <<>>, published |-> <<>>]

Next ==
  \E frame \in Frames : ReceiveWhole(frame) \/ ReceiveDamaged(frame) \/ ReceiveShort(frame)

Spec == Init /\ [][Next]_vars

-----------------------------------------------------------------------------
(* Properties                                                              *)

Numbers == 1 .. Len(sent)

\* Every variable holds a value of its kind; the candidate never outgrows the
\* buffers g_rx_header, g_rx_payload and g_rx_crc, and is never a whole frame.
TypeOK ==
  /\ sent \in Seq(Frames) /\ arrived \in Seq(Nat)
  /\ hurt \subseteq Numbers /\ faults \in 0 .. MaxFaults
  /\ rx.state \in {"sync0", "sync1", "frame"}
  /\ Len(rx.units) < FrameMax - 2 /\ (rx.state # "frame" => rx.units = <<>>)
  /\ rx.gaps \in Nat /\ Len(rx.last) <= 1

\* What is published is what was sent on the inbound topic in the catalog's
\* size, each frame once and in order, whatever was damaged on the way and
\* however often units were scanned again.
PublishedAsSent ==
  /\ \A i \in DOMAIN rx.published :
       /\ rx.published[i] \in Numbers \ hurt
       /\ Wanted(sent[rx.published[i]].topic, Len(sent[rx.published[i]].payload))
  /\ \A i, j \in DOMAIN rx.published : i < j => rx.published[i] < rx.published[j]

\* frame n does not spell the sync word between sync words, nor would it if
\* units in between were lost, or its length damaged
SyncFree(n) ==
  LET body == Body(n, sent[n])
  IN /\ sent[n].topic # Sync1
     /\ \A i, j \in DOMAIN body : i < j => <<body[i], body[j]>> # <<Sync0, Sync1>>

\* The one-level rescan finds exactly the frames an unlimited rescan finds
\* as long as there is at most one fault and no frame can be made to spell the
\* sync word by it.
AgreesWithReference ==
  faults <= 1 /\ (\A n \in Numbers : SyncFree(n)) => rx.accepted = Reference(arrived)

\* docs/ground_station_telemetry.md of the vehicle's rescan and an
\* unconditional one: "the two then differ only on doubly-corrupted input".
DiffersOnlyOnDoubleDamage == faults <= 1 => rx.accepted = Reference(arrived)

\* One damage costs the frame it hits and no other: every other frame is
\* accepted as soon as as many units as a frame can have have followed it.
DamageIsLocal ==
  faults <= 1 /\ (\A n \in Numbers : SyncFree(n)) =>
    \A n \in Numbers \ hurt :
      (\E k \in DOMAIN arrived :
         arrived[k] = Trailer(n) /\ k + FrameMax <= Len(arrived)) =>
      \E i \in DOMAIN rx.accepted : rx.accepted[i] = n

\* The gaps counted are the holes in the frames accepted, wanted or not,
\* except holes of a multiple of SeqWrap frames.
GapsAreHoles ==
  rx.gaps = Cardinality({i \in 1 .. Len(rx.accepted) - 1 :
                           (rx.accepted[i + 1] - rx.accepted[i]) % SeqWrap # 1 % SeqWrap})

=============================================================================
