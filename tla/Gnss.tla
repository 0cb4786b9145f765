-------------------------------- MODULE Gnss ---------------------------------
(***************************************************************************)
(* gnss_onboard.c: the receiver's stream of UBX frames, from the UART's    *)
(* interrupt through a ring to a thread that parses it and publishes the   *)
(* fix.  The line may damage or lose units; the ring may be full.          *)
(*                                                                         *)
(* A unit is what a frame's kind (class and id), its length, one part of   *)
(* its payload or its check is; all are numbers, so that any of them may   *)
(* be mistaken for another.  The check of frame n is a number that no      *)
(* other frame carries and no damage produces: the sums promise as much    *)
(* for one damaged byte.                                                   *)
(***************************************************************************)
EXTENDS GnssFix, Sequences

CONSTANTS
  Sync1, Sync2,       \* UBX_PREAMBLE_SYNC_CHAR_1 and _2
  NavPvt,             \* the kind of a NAV-PVT frame
  PvtLen,             \* sizeof(struct ubx_nav_pvt)
  MaxPayload,         \* UBX_MAX_PAYLOAD
  RingSize,           \* CONFIG_RDD2_GNSS_UBX_RX_RING_SIZE
  FifoRead, BatchSize,   \* what the interrupt and the thread read at once
  Pvts,               \* reports a receiver may send; a payload begins with the index of one
  Frames,             \* [kind, payload]: what a receiver may send
  Noise,              \* the numbers a damaged unit may become
  MaxFrames, MaxFaults   \* bounds

ASSUME SizesAssumption ==
  /\ {PvtLen, MaxPayload, RingSize, FifoRead, BatchSize} \subseteq Nat \ {0}
  /\ PvtLen <= MaxPayload /\ Sync1 # Sync2
ASSUME UnitsAssumption ==
  /\ {Sync1, Sync2, NavPvt} \cup Noise \subseteq Nat
  /\ \A frame \in Frames : frame.kind \in Nat /\ frame.payload \in Seq(Nat)

\* The units of a frame are told from its check, and no kind or length reads as a
\* sync word: no class is the sync's first byte, and a length that begins with it
\* is beyond what a receiver sends.
ASSUME FramesAssumption ==
  /\ \A unit \in {Sync1, Sync2} \cup Noise : unit <= 100
  /\ \A frame \in Frames :
       LET len == Len(frame.payload)
       IN /\ frame.kind <= 100 /\ len <= 100
          /\ \A i \in 1 .. len : frame.payload[i] <= 100
          /\ <<frame.kind, len>> # <<Sync1, Sync2>>
          /\ len > 0 => <<len, frame.payload[1]>> # <<Sync1, Sync2>>
          /\ frame.kind = NavPvt /\ len = PvtLen => frame.payload[1] \in DOMAIN Pvts
ASSUME PvtsAssumption == \A i \in DOMAIN Pvts : Report(Pvts[i])
ASSUME MaxFaultsAssumption == MaxFaults \in Nat

VARIABLES
  sent, line,       \* frames sent, and what the interrupt has not read of the last
  ring, batch,      \* g_ring, and what the thread took from it
  state, header, payload,   \* the parser; g_pos is the length of what it fills
  stats,            \* g_stats
  topic,            \* the fix and whose it is, once there is one
  accepted, published,      \* history: the frames that were
  starts, stored,   \* history: units stored in the ring before each frame, and in all
  hurt, faults      \* history: frames damaged or cut, and how often

vars == <<sent, line, ring, batch, state, header, payload, stats, topic,
          accepted, published, starts, stored, hurt, faults>>
parser == <<state, header, payload>>
outcome == <<topic, accepted, published>>
stream == <<sent, line, ring, starts, stored, hurt, faults>>

-----------------------------------------------------------------------------
(* The line and the interrupt                                              *)

HeaderUnits == 2
Check(n) == 100 + n
Line(n, frame) ==
  <<Sync1, Sync2, frame.kind, Len(frame.payload)>> \o frame.payload \o <<Check(n)>>

Transmit(frame, units) ==
  /\ line = <<>> /\ Len(sent) < MaxFrames
  /\ sent' = Append(sent, frame)
  /\ line' = units
  /\ starts' = Append(starts, stored)
  /\ UNCHANGED <<ring, batch, parser, stats, outcome, stored>>

Hurt(n) ==
  /\ faults < MaxFaults
  /\ faults' = faults + 1
  /\ hurt' = hurt \cup {n}

SendWhole(frame) ==
  /\ Transmit(frame, Line(Len(sent) + 1, frame))
  /\ UNCHANGED <<hurt, faults>>

SendDamaged(frame) ==
  LET whole == Line(Len(sent) + 1, frame)
  IN \E i \in DOMAIN whole, unit \in Noise :
       /\ unit # whole[i]
       /\ Transmit(frame, [whole EXCEPT ![i] = unit])
       /\ Hurt(Len(sent) + 1)

\* the UART loses a unit
SendShort(frame) ==
  LET whole == Line(Len(sent) + 1, frame)
  IN \E i \in DOMAIN whole :
       /\ Transmit(frame, SubSeq(whole, 1, i - 1) \o SubSeq(whole, i + 1, Len(whole)))
       /\ Hurt(Len(sent) + 1)

Least(a, b) == IF a <= b THEN a ELSE b

\* uart_isr: what does not fit is dropped and counted
UartIsr ==
  LET read == Least(FifoRead, Len(line))
      fits == Least(read, RingSize - Len(ring))
  IN /\ line # <<>>
     /\ line' = SubSeq(line, read + 1, Len(line))
     /\ ring' = ring \o SubSeq(line, 1, fits)
     /\ stored' = stored + fits
     /\ IF fits < read
        THEN Hurt(Len(sent)) /\ stats' = [stats EXCEPT !.overrun = @ + read - fits]
        ELSE UNCHANGED <<hurt, faults, stats>>
     /\ UNCHANGED <<sent, batch, parser, outcome, starts>>

-----------------------------------------------------------------------------
(* The thread: ring_buf_get, then rx_byte for each unit of the batch       *)

\* variant: only a full batch is taken
Full(units) == Len(units) >= BatchSize
Some(units) == units # <<>>

GetBatch ==
  LET read == Least(BatchSize, Len(ring))
  IN /\ batch = <<>> /\ Some(ring)
     /\ batch' = SubSeq(ring, 1, read)
     /\ ring' = SubSeq(ring, read + 1, Len(ring))
     /\ UNCHANGED <<sent, line, parser, stats, outcome, starts, stored, hurt, faults>>

RxUnit(in) ==
  /\ batch # <<>> /\ state = in
  /\ batch' = Tail(batch)
  /\ UNCHANGED stream
Unit == Head(batch)

RxSync1 ==
  /\ RxUnit("SYNC1")
  /\ state' = IF Unit = Sync1 THEN "SYNC2" ELSE "SYNC1"
  /\ UNCHANGED <<header, payload, stats, outcome>>

RxSync2 ==
  /\ RxUnit("SYNC2")
  /\ state' = IF Unit = Sync2 THEN "HEADER" ELSE IF Unit = Sync1 THEN "SYNC2" ELSE "SYNC1"
  /\ header' = IF Unit = Sync2 THEN <<>> ELSE header
  /\ UNCHANGED <<payload, stats, outcome>>

\* variant: a length beyond the buffer is taken
AnyLength(len) == len \in Nat
LengthOk(len) == len <= MaxPayload

RxHeader ==
  /\ RxUnit("HEADER")
  /\ header' = Append(header, Unit)
  /\ UNCHANGED outcome
  /\ IF Len(header) + 1 < HeaderUnits THEN UNCHANGED <<state, payload, stats>>
     ELSE IF LengthOk(Unit)
     THEN /\ state' = IF Unit = 0 THEN "CHECKSUM" ELSE "PAYLOAD"
          /\ payload' = <<>>
          /\ UNCHANGED stats
     ELSE /\ state' = "SYNC1"
          /\ stats' = [stats EXCEPT !.oversize = @ + 1]
          /\ UNCHANGED payload

RxPayload ==
  /\ RxUnit("PAYLOAD")
  /\ payload' = Append(payload, Unit)
  /\ state' = IF Len(payload) + 1 >= header[2] THEN "CHECKSUM" ELSE "PAYLOAD"
  /\ UNCHANGED <<header, stats, outcome>>

\* variant: the check covers the payload only
PayloadMatches(check) ==
  check - 100 \in DOMAIN sent /\ payload = sent[check - 100].payload
Matches(check) ==
  LET n == check - 100
  IN n \in DOMAIN sent /\ header = <<sent[n].kind, Len(sent[n].payload)>> /\ payload = sent[n].payload

\* variant: a frame whose check fails leaves the parser waiting for a check
AfterMatch(check) == IF Matches(check) THEN "SYNC1" ELSE "CHECKSUM"
AfterCheck(check) == "SYNC1"

\* frame_complete; a publication may fail
RxChecksum ==
  /\ RxUnit("CHECKSUM")
  /\ state' = AfterCheck(Unit)
  /\ UNCHANGED <<header, payload>>
  /\ \/ /\ ~Matches(Unit)
        /\ stats' = [stats EXCEPT !.checksumErrors = @ + 1]
        /\ UNCHANGED outcome
     \/ /\ Matches(Unit) /\ accepted' = accepted \cup {Unit - 100}
        /\ header[1] # NavPvt
        /\ stats' = [stats EXCEPT !.frames = @ + 1, !.otherFrames = @ + 1]
        /\ UNCHANGED <<topic, published>>
     \/ /\ Matches(Unit) /\ accepted' = accepted \cup {Unit - 100}
        /\ header[1] = NavPvt /\ header[2] # PvtLen
        /\ stats' = [stats EXCEPT !.frames = @ + 1, !.badLength = @ + 1]
        /\ UNCHANGED <<topic, published>>
     \/ /\ Matches(Unit) /\ accepted' = accepted \cup {Unit - 100}
        /\ header = <<NavPvt, PvtLen>>
        /\ \/ /\ stats' = [stats EXCEPT !.frames = @ + 1, !.samples = @ + 1, !.published = @ + 1]
              /\ \E fix \in Fixes(Pvts[payload[1]]) : topic' = <<Unit - 100, fix>>
              /\ published' = Append(published, Unit - 100)
           \/ /\ faults + stats.failed < MaxFaults   \* bound
              /\ stats' = [stats EXCEPT !.frames = @ + 1, !.samples = @ + 1, !.failed = @ + 1]
              /\ UNCHANGED <<topic, published>>

-----------------------------------------------------------------------------

Init ==
  /\ sent = <<>> /\ line = <<>> /\ ring = <<>> /\ batch = <<>>
  /\ state = "SYNC1" /\ header = <<>> /\ payload = <<>>
  /\ stats = [overrun |-> 0, oversize |-> 0, checksumErrors |-> 0, frames |-> 0, otherFrames |-> 0,
              badLength |-> 0, samples |-> 0, published |-> 0, failed |-> 0]
  /\ topic = <<>> /\ accepted = {} /\ published = <<>>
  /\ starts = <<>> /\ stored = 0 /\ hurt = {} /\ faults = 0

Thread == GetBatch \/ RxSync1 \/ RxSync2 \/ RxHeader \/ RxPayload \/ RxChecksum

Next ==
  \/ \E frame \in Frames : SendWhole(frame) \/ SendDamaged(frame) \/ SendShort(frame)
  \/ UartIsr \/ Thread

Spec == Init /\ [][Next]_vars /\ WF_vars(Thread)

-----------------------------------------------------------------------------
(* Properties                                                              *)

Numbers == 1 .. Len(sent)

\* Types, and what no stream may break: the ring and the parser's buffers
\* never hold more than their size, a payload being filled is shorter than
\* the length announced, and a check is awaited for a whole payload only.
TypeOK ==
  /\ state \in {"SYNC1", "SYNC2", "HEADER", "PAYLOAD", "CHECKSUM"}
  /\ Len(ring) <= RingSize /\ Len(batch) <= BatchSize
  /\ Len(header) <= HeaderUnits /\ Len(payload) <= MaxPayload
  /\ state = "HEADER" => Len(header) < HeaderUnits
  /\ state = "PAYLOAD" => Len(header) = HeaderUnits /\ Len(payload) < header[2]
  /\ state = "CHECKSUM" => Len(header) = HeaderUnits /\ Len(payload) = header[2]

\* What is published is a NAV-PVT frame the receiver sent, undamaged and of
\* the right size, each once and in order; the topic holds the last.
PublishedAsSent ==
  /\ \A i \in DOMAIN published :
       /\ published[i] \in Numbers \ hurt
       /\ sent[published[i]].kind = NavPvt /\ Len(sent[published[i]].payload) = PvtLen
  /\ \A i, j \in DOMAIN published : i < j => published[i] < published[j]
  /\ published # <<>> => topic[1] = published[Len(published)]

\* The fix says what the report of its frame said, at the ends of the fields'
\* ranges too, and its time is the calendar's.  One number is left out: for a
\* vertical speed of -2^31 mm/s the code's negation overflows, and the fix may
\* say up for down.
FixAsReported ==
  topic # <<>> => Reported(topic[2], Pvts[sent[topic[1]].payload[1]])

SyncFree(units) == \A i \in 1 .. Len(units) - 1 : <<units[i], units[i + 1]>> # <<Sync1, Sync2>>
FrameMax == 2 + HeaderUnits + MaxPayload + 1

\* A rejected frame is not scanned again, so one damage may cost frames after
\* the one it hits - but only those that begin within a longest frame's
\* length of it: any later one is accepted, as long as no payload spells the
\* sync word and it fits the buffer.
DamageBounded ==
  \A n \in Numbers \ hurt :
    (/\ \A m \in 1 .. n : SyncFree(sent[m].payload)
     /\ Len(sent[n].payload) <= MaxPayload
     /\ \A m \in hurt : m < n => starts[n] - starts[m + 1] >= FrameMax
     /\ stored - Len(ring) - Len(batch) >= starts[n] + Len(Line(n, sent[n])))
    => n \in accepted

\* Whatever the interrupt stores the thread parses, to the last unit, without
\* more to come.
RingDrains == (ring # <<>>) ~> (ring = <<>> /\ batch = <<>>)

=============================================================================
