----------------------------- MODULE DshotCodec ------------------------------
(***************************************************************************)
(* What nxp_flexio_dshot.c puts on a motor's line and reads off it.  A     *)
(* packet is 16 bits, the most significant first; each becomes three       *)
(* thirds on the line, and the 48 thirds go out in two halves.  An answer  *)
(* is a word of 12 bits: how the driver finds it in the received bits      *)
(* (run lengths, group code, check) is abstracted to whether it does.      *)
(***************************************************************************)
EXTENDS Integers, Sequences

\* what a bit of the throttle counts, a table as the provers know no powers
Weight == <<1024, 512, 256, 128, 64, 32, 16, 8, 4, 2, 1>>
Bit(n, i) == (n \div Weight[i]) % 2

\* the twelve bits of throttle and telemetry; what throttle has beyond its
\* eleven bits is shifted out of the 16
Data(throttle, telemetry) == [i \in 1 .. 12 |-> IF i = 12 THEN telemetry ELSE Bit(throttle, i)]

\* the exclusive or of the nibbles, of their complement when bidirectional:
\* three complements are one
Checksum(data, bidirectional) ==
  [i \in 1 .. 4 |-> (data[i] + data[i + 4] + data[i + 8] + bidirectional) % 2]

Packet(throttle, telemetry, bidirectional) ==
  Data(throttle, telemetry) \o Checksum(Data(throttle, telemetry), bidirectional)

\* a bit on the line is high, high for one and low for zero, low
Expanded(packet) ==
  [k \in 1 .. 48 |-> IF k % 3 = 1 THEN 1 ELSE IF k % 3 = 2 THEN packet[k \div 3 + 1] ELSE 0]

\* data_seg1 and irq_data
FirstHalf(packet) == SubSeq(Expanded(packet), 1, 24)
SecondHalf(packet) == SubSeq(Expanded(packet), 25, 48)

\* what a motor controller takes from the thirds it sees: the throttle, or
\* nothing if a third or the check is wrong
Taken(thirds, bidirectional) ==
  LET bits == [i \in 1 .. 16 |-> thirds[3 * i - 1]]
      Value[i \in 0 .. 11] == IF i = 0 THEN 0 ELSE 2 * Value[i - 1] + bits[i]
  IN IF /\ Len(thirds) = 48
        /\ \A i \in 1 .. 16 : thirds[3 * i - 2] = 1 /\ thirds[3 * i] = 0
        /\ \A i \in 1 .. 4 : (bits[i] + bits[i + 4] + bits[i + 8] + bits[i + 12]) % 2 = bidirectional
     THEN <<Value[11]>> ELSE <<>>

-----------------------------------------------------------------------------
(* Answers                                                                 *)

StopWord == 4095
Period(word) == (word % 512) * 2 ^ (word \div 512)

\* the conversion to uint16_t; no period may be zero
Erpm(word) ==
  IF word = StopWord THEN 0
  ELSE ((600000 + Period(word) \div 2) \div Period(word)) % 65536

\* a speed in hundreds of turns a minute is the nearest to its period
Nearest(erpm, word) ==
  IF word = StopWord THEN erpm = 0
  ELSE LET off == 600000 - erpm * Period(word)
       IN 2 * off <= Period(word) /\ 2 * off >= 0 - Period(word)

=============================================================================
