---------------------------- MODULE Dshot_proofs ----------------------------
(***************************************************************************)
(* The driver for any number of channels and of disturbed passes: its      *)
(* types, where a decoded speed comes from, what the lines carry and what  *)
(* is counted as missing.                                                  *)
(*   The first argument follows an answer from the shifter's buffer to     *)
(* dshot_info and to the fetch, and rests on when a line listens: until    *)
(* the loop has turned it around again it may still carry the answer of    *)
(* the pass before.  The second follows a packet from the loop to the line *)
(* in the stages the interrupt takes it through, and needs the codec to    *)
(* say that what is put together on the line is what was asked for.  The   *)
(* third counts both: each packet is answered at most once, and what is    *)
(* answered is received before the next pass unless one is disturbed.      *)
(***************************************************************************)
EXTENDS Dshot, SequenceTheorems, FiniteSetTheorems, TLAPS

-----------------------------------------------------------------------------
(* The strengthened invariant                                              *)

Thirds == Halves \cup {Zeros}
Third == {0} \cup {Expanded(Packet(t, 0, b))[k] : t \in Throttles, b \in {0, 1}, k \in 1 .. 48}
Heard == {<<answer>> : answer \in Answers}
Driver ==
  [seg1 : Thirds, irqData : Thirds, state : States, raw : Heard \cup {<<>>}, erpm : Int,
   crcErrors : Nat, frameErrors : Nat, noResponse : Nat, lastNoResponse : Nat]
Unit ==
  [mode : {"in", "out"}, on : BOOLEAN, sending : Thirds \cup {<<>>},
   buf : Thirds \cup Heard \cup {<<>>}, timer : BOOLEAN, heard : BOOLEAN]

KindsInv ==
  /\ bdshot \subseteq Channels /\ recvMask \subseteq bdshot /\ parsedMask \subseteq bdshot
  /\ info \in [Channels -> Driver] /\ hw \in [Channels -> Unit]
  /\ line \in [Channels -> Seq(Third)]
  /\ fetch \in 0 .. ChannelCount /\ channel \in Channels /\ isr \in 0 .. ChannelCount
  /\ at \in {"idle", "set", "turn", "put", "arm"}
  /\ shifterIrq \subseteq Channels /\ timerIrq \in {{}, Channels}
  /\ passes \in 0 .. MaxPasses

\* a line listens once its packet is out and until the loop turns it around again
ListenInv ==
  \A c \in Channels : hw[c].mode = "in" =>
    /\ c \in bdshot /\ hw[c].sending = <<>> /\ hw[c].buf \in Heard \cup {<<>>}
    /\ hw[c].buf # <<>> => hw[c].heard
    /\ info[c].state \in {"RECEIVE", "RECEIVE_COMPLETE"} \/ (at = "turn" /\ c = channel)
    /\ line[c] = <<>> => at \in {"set", "turn"} /\ channel <= c

SendInv ==
  \A c \in Channels : hw[c].mode = "out" =>
    /\ hw[c].buf \in Thirds \cup {<<>>}
    /\ hw[c].sending = <<>> => hw[c].buf = <<>>
    /\ hw[c].timer => line[c] # <<>>
    /\ info[c].state \notin {"RECEIVE", "RECEIVE_COMPLETE"}

\* a channel whose packet is written but whose line still has the old
\* direction gets no further than the second half
TurnInv ==
  at = "turn" =>
    /\ channel \in bdshot
    /\ hw[channel].mode = "in" =>
         \/ info[channel].state = "START" /\ (hw[channel].timer => hw[channel].heard)
         \/ info[channel].state = "12BIT_FIFO" /\ hw[channel].heard
         \/ info[channel].state = "12BIT_TRANSFERRED" /\ hw[channel].heard /\ ~hw[channel].timer
    /\ hw[channel].mode = "out" =>
         /\ hw[channel].buf = <<>>
         /\ \/ /\ info[channel].state = "START"
               /\ hw[channel].sending = <<>> /\ ~hw[channel].timer
            \/ /\ info[channel].state = "12BIT_FIFO"
               /\ hw[channel].timer => hw[channel].sending = <<>>
            \/ /\ info[channel].state = "12BIT_TRANSFERRED"
               /\ hw[channel].sending = <<>> /\ ~hw[channel].timer

\* a channel the loop has not come to yet sends nothing
Ahead(c) == (at \in {"set", "turn"} /\ channel < c) \/ (at = "set" /\ channel = c)
AheadInv ==
  \A c \in Channels : hw[c].mode = "out" /\ Ahead(c) =>
    /\ hw[c].sending = <<>> /\ hw[c].buf = <<>> /\ ~hw[c].timer
    /\ timerIrq = {} \/ info[c].state # "START"

\* between passes a packet not yet fed has its interrupt enabled
ArmedInv ==
  at = "idle" /\ timerIrq = Channels =>
    \A c \in Channels : hw[c].mode = "out" /\ info[c].state = "START" => c \in shifterIrq

\* before the first trigger
BootInv ==
  timerIrq = {} =>
    /\ shifterIrq = {} /\ isr = 0 /\ recvMask = {}
    /\ \A c \in Channels : hw[c].mode = "out"
    /\ at \in {"idle", "set", "turn"} =>
         \A c \in Channels : hw[c].sending = <<>> /\ hw[c].buf = <<>> /\ ~hw[c].timer

\* among a set of answers one of channel c, now raw, to a packet of a pass from .. to
Among(set, c, raw, from, to) ==
  \E a \in set : a.channel = c /\ raw = <<a.answer>> /\ a.pass \in Int
                 /\ from <= a.pass /\ a.pass <= to

\* whose answer is in the shifter, in dshot_info and before the fetch
AnswerInv ==
  /\ \A c \in Channels : hw[c].mode = "in" /\ hw[c].buf # <<>> =>
       /\ line[c] = <<>> => Among(answers, c, hw[c].buf, passes - 1, passes - 1)
       /\ line[c] # <<>> => Among(answers, c, hw[c].buf, passes, passes)
  /\ \A c \in recvMask :
       /\ at = "idle" => Among(answers, c, info[c].raw, passes, passes)
       /\ at # "idle" => Among(answers, c, info[c].raw, passes - 1, passes)

FetchInv ==
  /\ seen \in Nat /\ seen <= passes
  /\ at # "idle" => seen < passes
  /\ seen # 0 => fetch \in bdshot /\ Among(answers, fetch, info[fetch].raw, seen, passes)

IInv ==
  /\ KindsInv /\ ListenInv /\ SendInv /\ TurnInv /\ AheadInv /\ ArmedInv /\ BootInv
  /\ AnswerInv /\ FetchInv

-----------------------------------------------------------------------------
(* Lemmas                                                                  *)

\* What reaches a line is a sequence of thirds.
LEMMA HalvesAreSequences ==
  ASSUME NEW t \in Throttles, NEW b \in {0, 1}
  PROVE  /\ FirstHalf(Packet(t, 0, b)) \in Seq(Third)
         /\ SecondHalf(Packet(t, 0, b)) \in Seq(Third)
<1> DEFINE e == Expanded(Packet(t, 0, b))
<1>1. \A k \in 1 .. 48 : e[k] \in Third
  BY DEF Third
<1> HIDE DEF e
<1>2. SubSeq(e, 1, 24) \in Seq(Third) /\ SubSeq(e, 25, 48) \in Seq(Third)
  <2>1. (\A k \in 1 .. 24 : e[k] \in Third) /\ (\A k \in 25 .. 48 : e[k] \in Third)
    BY <1>1
  <2> QED
    BY <2>1, SubSeqProperties
<1> QED
  BY <1>2 DEF e, FirstHalf, SecondHalf

\* The halves of any packet are among what hardware and driver hold.
LEMMA HalvesAreThirds ==
  ASSUME NEW t \in Throttles, NEW b \in {0, 1}
  PROVE  FirstHalf(Packet(t, 0, b)) \in Thirds /\ SecondHalf(Packet(t, 0, b)) \in Thirds
<1> DEFINE pair == {FirstHalf(Packet(t, 0, b)), SecondHalf(Packet(t, 0, b))}
<1>1. pair \in {{FirstHalf(Packet(s, 0, d)), SecondHalf(Packet(s, 0, d))} :
                  s \in Throttles, d \in {0, 1}}
  OBVIOUS
<1>2. FirstHalf(Packet(t, 0, b)) \in pair /\ SecondHalf(Packet(t, 0, b)) \in pair
  OBVIOUS
<1> HIDE DEF pair
<1>3. \A half \in pair : half \in Halves
  BY <1>1 DEF Halves
<1> QED
  BY <1>2, <1>3 DEF Thirds

\* So are the words before the first packet, and all are sequences.
LEMMA ThirdsAreSequences == \A half \in Thirds : half \in Seq(Third)
<1>1. Zeros \in Seq(Third)
  BY IsASeq DEF Zeros, Third
<1>2. ASSUME NEW half \in Halves PROVE half \in Seq(Third)
  <2>1. PICK t \in Throttles, b \in {0, 1} :
          half \in {FirstHalf(Packet(t, 0, b)), SecondHalf(Packet(t, 0, b))}
    BY DEF Halves
  <2> QED
    BY <2>1, HalvesAreSequences
<1> QED
  BY <1>1, <1>2 DEF Thirds

\* The fields of a channel's hardware and of its entry in dshot_info.
LEMMA Fields ==
  ASSUME KindsInv, NEW c \in Channels
  PROVE  /\ hw[c] \in Unit /\ hw[c].mode \in {"in", "out"} /\ hw[c].timer \in BOOLEAN
         /\ hw[c].sending \in Thirds \cup {<<>>} /\ hw[c].buf \in Thirds \cup Heard \cup {<<>>}
         /\ info[c] \in Driver /\ info[c].state \in States
         /\ info[c].seg1 \in Thirds /\ info[c].irqData \in Thirds
         /\ info[c].raw \in Heard \cup {<<>>}
BY DEF KindsInv, Unit, Driver

\* An answer among some is among more, to a packet of more passes.
LEMMA AmongMore ==
  ASSUME NEW A, NEW B, A \subseteq B, NEW c, NEW raw, NEW from \in Int, NEW to \in Int,
         NEW lower \in Int, NEW upper \in Int, lower <= from, to <= upper,
         Among(A, c, raw, from, to)
  PROVE  Among(B, c, raw, lower, upper)
BY DEF Among

\* A channel is a number.
LEMMA ChannelFacts ==
  /\ ChannelCount \in Nat /\ ChannelCount >= 1 /\ 1 \in Channels
  /\ \A c \in Channels : c \in Nat /\ 1 <= c /\ c <= ChannelCount
  /\ \A c \in Nat : 1 <= c /\ c <= ChannelCount => c \in Channels
BY ChannelsAssumption DEF ChannelsAssumption, Channels

-----------------------------------------------------------------------------
(* The codec: from a throttle to thirds of bits on the line, and back      *)

\* a third of a bit, and what a packet can ask for
Digit == {0, 1}
Speeds == 0 .. 2047

\* Division by twice as much leaves one bit less.
LEMMA HalvedFacts ==
  ASSUME NEW n \in Nat, NEW w \in Nat \ {0}
  PROVE  n \div w = 2 * (n \div (2 * w)) + ((n \div w) % 2)
<1> DEFINE q == n \div w
           m == 2 * w
           h == n \div m
<1>1. q \in Int /\ w * q <= n /\ n < w * q + w
  <2>1. q \in Int /\ n % w = n - w * q /\ n % w \in Nat /\ n % w < w
    OBVIOUS
  <2> HIDE DEF q
  <2>2. w * q \in Int
    BY <2>1
  <2> QED
    BY <2>1, <2>2
<1>2. h \in Int /\ m * h <= n /\ n < m * h + m
  <2>1. m \in Nat \ {0}
    OBVIOUS
  <2> HIDE DEF m
  <2>2. h \in Int /\ n % m = n - m * h /\ n % m \in Nat /\ n % m < m
    BY <2>1
  <2> HIDE DEF h
  <2>3. m * h \in Int
    BY <2>1, <2>2
  <2> QED
    BY <2>1, <2>2, <2>3
<1> HIDE DEF q, h
<1>3. \A a, b \in Int : w * a < w * b => a < b
  <2>1. \A v \in Nat \ {0} : \A a, b \in Int : b <= a => v * b <= v * a
    OBVIOUS
  <2>2. \A a, b \in Int : b <= a => w * b <= w * a
    BY <2>1
  <2>3. \A a, b \in Int : w * a \in Int /\ w * b \in Int
    OBVIOUS
  <2> QED
    BY <2>2, <2>3
<1>4. m * h = w * (2 * h) /\ w * (2 * h + 2) = m * h + m /\ w * (q + 1) = w * q + w
  BY <1>1, <1>2
<1>5. q < 2 * h + 2
  <2>1. w * q < w * (2 * h + 2)
    <3>1. w * q \in Int /\ m * h \in Int /\ m \in Int
      BY <1>1, <1>2
    <3> HIDE DEF m
    <3> QED
      BY <1>1, <1>2, <1>4, <3>1
  <2> QED
    BY <1>1, <1>2, <1>3, <2>1
<1>6. 2 * h < q + 1
  <2>1. w * (2 * h) < w * (q + 1)
    <3>1. w * q \in Int /\ m * h \in Int /\ w \in Int
      BY <1>1, <1>2
    <3> HIDE DEF m
    <3> QED
      BY <1>1, <1>2, <1>4, <3>1
  <2> QED
    BY <1>1, <1>2, <1>3, <2>1
<1>7. q = 2 * h + (q % 2)
  <2>1. q = 2 * h \/ q = 2 * h + 1
    BY <1>1, <1>2, <1>5, <1>6
  <2>2. \A k \in Int : (2 * k) % 2 = 0 /\ (2 * k + 1) % 2 = 1
    OBVIOUS
  <2> QED
    BY <1>1, <1>2, <2>1, <2>2
<1> QED
  BY <1>7 DEF q, h

\* A throttle halved bit by bit: eleven leave nothing of it.
LEMMA WeightFacts ==
  ASSUME NEW t \in Speeds
  PROVE  /\ t \div Weight[1] = Bit(t, 1)
         /\ \A i \in 2 .. 11 : t \div Weight[i] = 2 * (t \div Weight[i - 1]) + Bit(t, i)
         /\ t \div Weight[11] = t
         /\ \A i \in 1 .. 11 : t \div Weight[i] \in Int /\ Bit(t, i) \in {0, 1}
<1>1. t \in Nat /\ t <= 2047
  BY DEF Speeds
<1>2. \A i \in 1 .. 11 : Weight[i] \in Nat \ {0}
  BY DEF Weight
<1>3. \A i \in 2 .. 11 : 2 * Weight[i] = Weight[i - 1]
  BY DEF Weight
<1>4. Weight[1] = 1024 /\ Weight[11] = 1
  BY DEF Weight
<1>5. ASSUME NEW i \in 1 .. 11 PROVE t \div Weight[i] \in Int /\ Bit(t, i) \in {0, 1}
  <2> DEFINE w == Weight[i]
  <2>1. w \in Nat \ {0}
    BY <1>2
  <2> HIDE DEF w
  <2>2. t \div w \in Int
    BY <1>1, <2>1
  <2>3. (t \div w) % 2 \in {0, 1}
    BY <2>2
  <2> QED
    BY <2>2, <2>3 DEF Bit, w
<1>6. ASSUME NEW i \in 2 .. 11 PROVE t \div Weight[i] = 2 * (t \div Weight[i - 1]) + Bit(t, i)
  <2>1. i \in 1 .. 11
    OBVIOUS
  <2>2. Weight[i] \in Nat \ {0} /\ 2 * Weight[i] = Weight[i - 1]
    BY <1>2, <1>3, <2>1
  <2> DEFINE w == Weight[i]
  <2>3. t \div w = 2 * (t \div (2 * w)) + ((t \div w) % 2)
    <3>1. w \in Nat \ {0}
      BY <2>2
    <3>2. t \in Nat
      BY <1>1
    <3> HIDE DEF w
    <3> QED
      BY <3>1, <3>2, HalvedFacts, Zenon
  <2> QED
    BY <2>2, <2>3, Zenon DEF Bit
<1>7. t \div Weight[1] = Bit(t, 1)
  <2>1. t \div 1024 = (t \div 1024) % 2
    BY <1>1
  <2> QED
    BY <1>4, <2>1 DEF Bit
<1>8. t \div Weight[11] = t
  BY <1>1, <1>4
<1> QED
  BY <1>5, <1>6, <1>7, <1>8

\* A packet's sixteen bits: the throttle's, none for telemetry, and the check.
LEMMA PacketFacts ==
  ASSUME NEW t \in Speeds, NEW b \in {0, 1}
  PROVE  /\ Len(Packet(t, 0, b)) = 16
         /\ \A i \in 1 .. 16 : Packet(t, 0, b)[i] \in {0, 1}
         /\ \A i \in 1 .. 11 : Packet(t, 0, b)[i] = Bit(t, i)
         /\ Packet(t, 0, b)[12] = 0
         /\ \A i \in 1 .. 4 :
              (Packet(t, 0, b)[i] + Packet(t, 0, b)[i + 4] + Packet(t, 0, b)[i + 8]
                 + Packet(t, 0, b)[i + 12]) % 2 = b
<1> DEFINE d == Data(t, 0)
           s == Checksum(d, b)
           p == Packet(t, 0, b)
<1>1. \A i \in 1 .. 11 : Bit(t, i) \in {0, 1}
  BY WeightFacts
<1>2. /\ d \in Seq(Digit) /\ Len(d) = 12 /\ \A i \in 1 .. 11 : d[i] = Bit(t, i)
      /\ d[12] = 0
  <2>1. d = [i \in 1 .. 12 |-> IF i = 12 THEN 0 ELSE Bit(t, i)]
    BY DEF Data
  <2> HIDE DEF d
  <2>2. d \in [1 .. 12 -> Digit]
    BY <1>1, <2>1 DEF Digit
  <2> QED
    BY <2>1, <2>2, 12 \in Nat, LenProperties, SeqDef
<1> HIDE DEF d
<1>3. \A i \in 1 .. 12 : d[i] \in {0, 1}
  <2>1. ASSUME NEW i \in 1 .. 11 PROVE d[i] \in {0, 1}
    <3>1. d[i] = Bit(t, i)
      BY <1>2
    <3>2. Bit(t, i) \in {0, 1}
      BY <1>1
    <3> QED
      BY <3>1, <3>2
  <2> QED
    BY <1>2, <2>1
<1>4. /\ s \in Seq(Digit) /\ Len(s) = 4
      /\ \A i \in 1 .. 4 : s[i] = (d[i] + d[i + 4] + d[i + 8] + b) % 2 /\ s[i] \in {0, 1}
  <2>1. s = [i \in 1 .. 4 |-> (d[i] + d[i + 4] + d[i + 8] + b) % 2]
    BY DEF Checksum
  <2> HIDE DEF s
  <2>2. \A i \in 1 .. 4 : (d[i] + d[i + 4] + d[i + 8] + b) % 2 \in {0, 1}
    <3> SUFFICES ASSUME NEW i \in 1 .. 4 PROVE (d[i] + d[i + 4] + d[i + 8] + b) % 2 \in {0, 1}
      OBVIOUS
    <3>1. d[i] \in Int /\ d[i + 4] \in Int /\ d[i + 8] \in Int
      BY <1>3
    <3> QED
      BY <3>1
  <2>3. s \in [1 .. 4 -> Digit]
    BY <2>1, <2>2 DEF Digit
  <2> QED
    BY <2>1, <2>2, <2>3, 4 \in Nat, LenProperties, SeqDef
<1>5. p = d \o s
  BY DEF Packet, d, s
<1> HIDE DEF s, p
<1>6. /\ p \in Seq(Digit) /\ Len(p) = 16 /\ \A i \in 1 .. 12 : p[i] = d[i]
      /\ \A i \in 13 .. 16 : p[i] = s[i - 12]
  <2>1. /\ p \in Seq(Digit) /\ Len(p) = Len(d) + Len(s)
        /\ \A i \in 1 .. Len(d) + Len(s) : p[i] = IF i <= Len(d) THEN d[i] ELSE s[i - Len(d)]
    <3>1. d \in Seq(Digit) /\ s \in Seq(Digit)
      BY <1>2, <1>4
    <3>2. /\ d \o s \in Seq(Digit) /\ Len(d \o s) = Len(d) + Len(s)
          /\ \A i \in 1 .. Len(d) + Len(s) : (d \o s)[i] = IF i <= Len(d) THEN d[i] ELSE s[i - Len(d)]
      BY <3>1, ConcatProperties
    <3> QED
      BY <1>5, <3>2
  <2>2. Len(d) + Len(s) = 16
    BY <1>2, <1>4
  <2>3. \A i \in 1 .. 16 : p[i] = IF i <= 12 THEN d[i] ELSE s[i - 12]
    BY <1>2, <2>1, <2>2
  <2>4. \A i \in 1 .. 12 : i \in 1 .. 16 /\ i <= 12
    OBVIOUS
  <2>5. \A i \in 13 .. 16 : i \in 1 .. 16 /\ ~(i <= 12)
    OBVIOUS
  <2> QED
    BY <2>1, <2>2, <2>3, <2>4, <2>5
<1>7. \A i \in 1 .. 4 : (p[i] + p[i + 4] + p[i + 8] + p[i + 12]) % 2 = b
  <2> SUFFICES ASSUME NEW i \in 1 .. 4 PROVE (p[i] + p[i + 4] + p[i + 8] + p[i + 12]) % 2 = b
    OBVIOUS
  <2>1. p[i] = d[i] /\ p[i + 4] = d[i + 4] /\ p[i + 8] = d[i + 8]
    BY <1>6
  <2>2. p[i + 12] = s[i]
    <3>1. i + 12 \in 13 .. 16 /\ (i + 12) - 12 = i
      OBVIOUS
    <3> QED
      BY <1>6, <3>1
  <2>3. d[i] \in {0, 1} /\ d[i + 4] \in {0, 1} /\ d[i + 8] \in {0, 1}
    BY <1>3
  <2>4. \A x, y, z \in {0, 1} : (x + y + z + ((x + y + z + b) % 2)) % 2 = b
    OBVIOUS
  <2>5. p[i + 12] = (d[i] + d[i + 4] + d[i + 8] + b) % 2
    BY <1>4, <2>2
  <2>6. (d[i] + d[i + 4] + d[i + 8] + ((d[i] + d[i + 4] + d[i + 8] + b) % 2)) % 2 = b
    BY <2>3, <2>4
  <2> QED
    BY <2>1, <2>3, <2>5, <2>6
<1>8. \A i \in 1 .. 16 : p[i] \in {0, 1}
  <2>1. p \in [1 .. 16 -> Digit]
    <3>0. p \in Seq(Digit)
      BY <1>6
    <3>1. p \in [1 .. Len(p) -> Digit]
      BY <3>0, LenProperties
    <3> QED
      BY <1>6, <3>1
  <2> QED
    BY <2>1 DEF Digit
<1> QED
  BY <1>2, <1>6, <1>7, <1>8 DEF p

\* A function of the first 48 numbers is a sequence.
LEMMA WideFacts ==
  ASSUME NEW S, NEW e \in [1 .. 48 -> S]
  PROVE  e \in Seq(S) /\ Len(e) = 48
<1>1. e \in Seq(S)
  BY SeqDef, 48 \in Nat
<1>2. DOMAIN e = 1 .. Len(e) /\ Len(e) \in Nat /\ DOMAIN e = 1 .. 48
  BY <1>1, LenProperties
<1> QED
  BY <1>1, <1>2

\* Each bit is three thirds, and the first of them all is high.
LEMMA ExpandedFacts ==
  ASSUME NEW t \in Speeds, NEW b \in {0, 1}
  PROVE  LET p == Packet(t, 0, b)
             e == Expanded(p)
         IN /\ e \in [1 .. 48 -> Digit] /\ e \in Seq(Digit) /\ Len(e) = 48
            /\ \A i \in 1 .. 16 : e[3 * i - 2] = 1 /\ e[3 * i - 1] = p[i] /\ e[3 * i] = 0
<1> DEFINE p == Packet(t, 0, b)
           e == Expanded(p)
<1>1. \A i \in 1 .. 16 : p[i] \in Digit
  <2>1. \A i \in 1 .. 16 : p[i] \in {0, 1}
    BY PacketFacts, Zenon
  <2> QED
    BY <2>1, Zenon DEF Digit
<1> HIDE DEF p
<1>2. e = [k \in 1 .. 48 |-> IF k % 3 = 1 THEN 1 ELSE IF k % 3 = 2 THEN p[(k \div 3) + 1] ELSE 0]
  BY DEF Expanded
<1> HIDE DEF e
<1>3. ASSUME NEW k \in 1 .. 48, k % 3 = 2 PROVE (k \div 3) + 1 \in 1 .. 16
  BY <1>3
<1>4. e \in [1 .. 48 -> Digit]
  <2>1. \A k \in 1 .. 48 : (IF k % 3 = 1 THEN 1 ELSE IF k % 3 = 2 THEN p[(k \div 3) + 1] ELSE 0) \in Digit
    BY <1>1, <1>3 DEF Digit
  <2> QED
    BY <1>2, <2>1
<1>5. e \in Seq(Digit) /\ Len(e) = 48
  BY <1>4, WideFacts
<1>6. ASSUME NEW i \in 1 .. 16 PROVE e[3 * i - 2] = 1 /\ e[3 * i - 1] = p[i] /\ e[3 * i] = 0
  <2>1. /\ 3 * i - 2 \in 1 .. 48 /\ (3 * i - 2) % 3 = 1
        /\ 3 * i - 1 \in 1 .. 48 /\ (3 * i - 1) % 3 = 2 /\ ((3 * i - 1) \div 3) + 1 = i
        /\ 3 * i \in 1 .. 48 /\ (3 * i) % 3 = 0
    OBVIOUS
  <2>2. e[3 * i - 2] = 1
    BY <1>2, <2>1
  <2>3. e[3 * i - 1] = p[i]
    BY <1>2, <2>1
  <2>4. e[3 * i] = 0
    BY <1>2, <2>1
  <2> QED
    BY <2>2, <2>3, <2>4
<1> QED
  BY <1>4, <1>5, <1>6, Zenon DEF e, p

\* Two halves of a whole, joined, are the whole.
LEMMA JoinFacts ==
  ASSUME NEW S, NEW e \in [1 .. 48 -> S]
  PROVE  /\ SubSeq(e, 1, 24) \in Seq(S) /\ Len(SubSeq(e, 1, 24)) = 24
         /\ SubSeq(e, 25, 48) \in Seq(S) /\ Len(SubSeq(e, 25, 48)) = 24
         /\ SubSeq(e, 1, 24) \o SubSeq(e, 25, 48) = e
         /\ SubSeq(e, 1, 24)[1] = e[1]
<1> DEFINE f == SubSeq(e, 1, 24)
           s == SubSeq(e, 25, 48)
<1>1. f \in Seq(S) /\ Len(f) = 24 /\ \A i \in 1 .. 24 : f[i] = e[i]
  <2>1. \A i \in 1 .. 24 : e[i] \in S
    OBVIOUS
  <2> QED
    BY <2>1, SubSeqProperties
<1>2. s \in Seq(S) /\ Len(s) = 24 /\ \A i \in 1 .. 24 : s[i] = e[i + 24]
  <2>1. \A i \in 25 .. 48 : e[i] \in S
    OBVIOUS
  <2> QED
    BY <2>1, SubSeqProperties
<1>3. f \o s = e
  <2>1. e \in Seq(S) /\ Len(e) = 48
    BY WideFacts
  <2>2. SubSeq(e, 1, 24) \o SubSeq(e, 24 + 1, 48) = SubSeq(e, 1, 48)
    <3>1. 1 \in 1 .. Len(e) + 1 /\ 24 \in 1 - 1 .. Len(e) /\ 48 \in 24 .. Len(e)
      BY <2>1
    <3> QED
      BY <2>1, <3>1, ConcatAdjacentSubSeq
  <2>3. SubSeq(e, 1, 48) = e
    BY <2>1, SubSeqFull
  <2> QED
    BY <2>2, <2>3
<1> QED
  BY <1>1, <1>2, <1>3

\* The two halves of a packet make it up, and the first begins with a high.
LEMMA WholeFacts ==
  ASSUME NEW t \in Speeds, NEW b \in {0, 1}
  PROVE  /\ FirstHalf(Packet(t, 0, b)) \o SecondHalf(Packet(t, 0, b)) = Expanded(Packet(t, 0, b))
         /\ Len(FirstHalf(Packet(t, 0, b))) = 24 /\ Len(SecondHalf(Packet(t, 0, b))) = 24
         /\ FirstHalf(Packet(t, 0, b)) \in Seq(Digit) /\ SecondHalf(Packet(t, 0, b)) \in Seq(Digit)
         /\ FirstHalf(Packet(t, 0, b))[1] = 1
<1> DEFINE e == Expanded(Packet(t, 0, b))
<1>1. e \in [1 .. 48 -> Digit] /\ e[1] = 1
  <2>1. e \in [1 .. 48 -> Digit] /\ \A i \in 1 .. 16 : e[3 * i - 2] = 1
    BY ExpandedFacts, Zenon
  <2> HIDE DEF e
  <2>2. 1 \in 1 .. 16 /\ 3 * 1 - 2 = 1
    OBVIOUS
  <2>3. e[3 * 1 - 2] = 1
    BY <2>1, <2>2
  <2> QED
    BY <2>1, <2>2, <2>3
<1>2. /\ FirstHalf(Packet(t, 0, b)) = SubSeq(e, 1, 24)
      /\ SecondHalf(Packet(t, 0, b)) = SubSeq(e, 25, 48)
  BY DEF FirstHalf, SecondHalf
<1> HIDE DEF e
<1>3. /\ SubSeq(e, 1, 24) \in Seq(Digit) /\ Len(SubSeq(e, 1, 24)) = 24
      /\ SubSeq(e, 25, 48) \in Seq(Digit) /\ Len(SubSeq(e, 25, 48)) = 24
      /\ SubSeq(e, 1, 24) \o SubSeq(e, 25, 48) = e
      /\ SubSeq(e, 1, 24)[1] = e[1]
  BY <1>1, JoinFacts
<1> QED
  BY <1>1, <1>2, <1>3 DEF e

\* Eleven bits of a throttle add up to it again.
LEMMA ValueFacts ==
  ASSUME NEW t \in Speeds, NEW bits, \A i \in 1 .. 11 : bits[i] = Bit(t, i)
  PROVE  LET Value[i \in 0 .. 11] == IF i = 0 THEN 0 ELSE 2 * Value[i - 1] + bits[i]
         IN Value[11] = t
<1> DEFINE next(g) == [i \in 0 .. 11 |-> IF i = 0 THEN 0 ELSE 2 * g[i - 1] + bits[i]]
           value == CHOOSE g : g = next(g)
           W(i) == IF i = 0 THEN 0 ELSE t \div Weight[i]
           w == [i \in 0 .. 11 |-> W(i)]
<1>1. w = next(w)
  <2>1. ASSUME NEW i \in 0 .. 11 PROVE W(i) = IF i = 0 THEN 0 ELSE 2 * w[i - 1] + bits[i]
    <3>1. CASE i = 0
      BY <3>1
    <3>2. CASE i = 1
      <4>1. W(1) = t \div Weight[1] /\ w[0] = 0 /\ bits[1] = Bit(t, 1)
        OBVIOUS
      <4>2. t \div Weight[1] = Bit(t, 1) /\ Bit(t, 1) \in Int
        BY WeightFacts
      <4> QED
        BY <3>2, <4>1, <4>2
    <3>3. CASE i \in 2 .. 11
      <4>1. /\ i - 1 \in 0 .. 11 /\ i - 1 # 0 /\ i # 0 /\ i \in 1 .. 11
        BY <3>3
      <4>2. w[i - 1] = t \div Weight[i - 1] /\ W(i) = t \div Weight[i] /\ bits[i] = Bit(t, i)
        BY <4>1
      <4>3. t \div Weight[i] = 2 * (t \div Weight[i - 1]) + Bit(t, i)
        BY <3>3, WeightFacts
      <4> QED
        BY <4>1, <4>2, <4>3
    <3>4. i = 0 \/ i = 1 \/ i \in 2 .. 11
      OBVIOUS
    <3> QED
      BY <3>1, <3>2, <3>3, <3>4
  <2> HIDE DEF W
  <2>2. w = [i \in 0 .. 11 |-> W(i)]
    OBVIOUS
  <2> HIDE DEF w
  <2> QED
    BY <2>1, <2>2
<1>2. value = next(value)
  <2> HIDE DEF next, w
  <2> QED
    BY <1>1
<1> DEFINE V[i \in 0 .. 11] == IF i = 0 THEN 0 ELSE 2 * V[i - 1] + bits[i]
<1>3. V = value
  OBVIOUS
<1> HIDE DEF value, V
<1>4. \A i \in 0 .. 11 : V[i] = IF i = 0 THEN 0 ELSE 2 * V[i - 1] + bits[i]
  BY <1>2, <1>3
<1> HIDE DEF next, w
<1>5. V[0] = 0
  BY <1>4
<1>6. \A i \in 1 .. 11 : V[i] = 2 * V[i - 1] + Bit(t, i)
  BY <1>4
<1>7. V[1] = t \div Weight[1]
  BY <1>5, <1>6, <1>6, WeightFacts
<1>8. V[2] = t \div Weight[2]
  BY <1>5, <1>6, <1>7, WeightFacts
<1>9. V[3] = t \div Weight[3]
  BY <1>5, <1>6, <1>8, WeightFacts
<1>10. V[4] = t \div Weight[4]
  BY <1>5, <1>6, <1>9, WeightFacts
<1>11. V[5] = t \div Weight[5]
  BY <1>5, <1>6, <1>10, WeightFacts
<1>12. V[6] = t \div Weight[6]
  BY <1>5, <1>6, <1>11, WeightFacts
<1>13. V[7] = t \div Weight[7]
  BY <1>5, <1>6, <1>12, WeightFacts
<1>14. V[8] = t \div Weight[8]
  BY <1>5, <1>6, <1>13, WeightFacts
<1>15. V[9] = t \div Weight[9]
  BY <1>5, <1>6, <1>14, WeightFacts
<1>16. V[10] = t \div Weight[10]
  BY <1>5, <1>6, <1>15, WeightFacts
<1>17. V[11] = t \div Weight[11]
  BY <1>5, <1>6, <1>16, WeightFacts
<1>18. V[11] = t
  BY <1>17, WeightFacts
<1> QED
  BY <1>18 DEF V

\* A motor controller takes from a packet the throttle it was made from.
LEMMA TakenFacts ==
  ASSUME NEW t \in Speeds, NEW b \in {0, 1}
  PROVE  Taken(Expanded(Packet(t, 0, b)), b) = <<t>>
<1> DEFINE p == Packet(t, 0, b)
           e == Expanded(p)
           bits == [i \in 1 .. 16 |-> e[3 * i - 1]]
           V[i \in 0 .. 11] == IF i = 0 THEN 0 ELSE 2 * V[i - 1] + bits[i]
           whole == /\ Len(e) = 48
                    /\ \A i \in 1 .. 16 : e[3 * i - 2] = 1 /\ e[3 * i] = 0
                    /\ \A i \in 1 .. 4 : (bits[i] + bits[i + 4] + bits[i + 8] + bits[i + 12]) % 2 = b
<1>1. Taken(e, b) = IF whole THEN <<V[11]>> ELSE <<>>
  <2> HIDE DEF e
  <2> QED
    BY DEF Taken
<1>2. /\ e \in Seq(Digit) /\ Len(e) = 48
      /\ \A i \in 1 .. 16 : e[3 * i - 2] = 1 /\ e[3 * i - 1] = p[i] /\ e[3 * i] = 0
  BY ExpandedFacts, Zenon
<1>3. /\ \A i \in 1 .. 11 : p[i] = Bit(t, i)
      /\ \A i \in 1 .. 4 : (p[i] + p[i + 4] + p[i + 8] + p[i + 12]) % 2 = b
  BY PacketFacts, Zenon
<1> HIDE DEF p, e
<1>4. \A i \in 1 .. 16 : bits[i] = p[i]
  BY <1>2
<1> HIDE DEF bits
<1>5. V[11] = t
  <2>1. \A i \in 1 .. 11 : bits[i] = Bit(t, i)
    BY <1>3, <1>4
  <2> QED
    BY <2>1, ValueFacts, Zenon
<1>6. \A i \in 1 .. 4 : (bits[i] + bits[i + 4] + bits[i + 8] + bits[i + 12]) % 2 = b
  <2> SUFFICES ASSUME NEW i \in 1 .. 4
               PROVE  (bits[i] + bits[i + 4] + bits[i + 8] + bits[i + 12]) % 2 = b
    OBVIOUS
  <2>1. bits[i] = p[i] /\ bits[i + 4] = p[i + 4] /\ bits[i + 8] = p[i + 8] /\ bits[i + 12] = p[i + 12]
    BY <1>4
  <2> QED
    BY <1>3, <2>1, Zenon
<1> HIDE DEF V
<1> QED
  BY <1>1, <1>2, <1>5, <1>6 DEF e, p

-----------------------------------------------------------------------------
(* The hardware                                                            *)

\* A half goes out only on a line that is sending, and none on one the loop
\* has still to come to.
LEMMA HalfSentInv == ASSUME IInv, NEW c \in Channels, HalfSent(c) PROVE IInv'
<1>1. UNCHANGED <<bdshot, parsedMask, fetch, seen, info, recvMask, isr, shifterIrq, timerIrq,
                  at, channel, passes, answers>>
  BY DEF HalfSent, fixed, handler, loop
<1>2. /\ hw[c].sending # <<>>
      /\ hw' = [hw EXCEPT ![c].sending = hw[c].buf, ![c].buf = <<>>, ![c].timer = TRUE]
      /\ line' = [line EXCEPT ![c] = @ \o hw[c].sending]
  BY DEF HalfSent
<1>3. hw[c].mode = "out" /\ hw[c].sending \in Thirds /\ hw[c].buf \in Thirds \cup {<<>>}
  BY <1>2, Fields DEF IInv, ListenInv, SendInv
<1>4. /\ hw' \in [Channels -> Unit] /\ \A d \in Channels : d # c => hw'[d] = hw[d]
      /\ hw'[c].mode = "out" /\ hw'[c].sending = hw[c].buf /\ hw'[c].buf = <<>> /\ hw'[c].timer
  <2>1. hw \in [Channels -> Unit] /\ hw[c] \in Unit
    BY DEF IInv, KindsInv
  <2> DEFINE u == [hw[c] EXCEPT !.sending = hw[c].buf, !.buf = <<>>, !.timer = TRUE]
  <2>2. u \in Unit /\ u.mode = hw[c].mode /\ u.sending = hw[c].buf /\ u.buf = <<>> /\ u.timer
    BY <1>3, <2>1 DEF Unit
  <2>3. hw' = [hw EXCEPT ![c] = u]
    BY <1>2, <2>1
  <2> HIDE DEF u
  <2> QED
    BY <1>3, <2>1, <2>2, <2>3
<1>5. /\ line' \in [Channels -> Seq(Third)] /\ line'[c] # <<>>
      /\ \A d \in Channels : d # c => line'[d] = line[d]
  <2>1. line \in [Channels -> Seq(Third)] /\ hw[c].sending \in Seq(Third)
    BY <1>3, ThirdsAreSequences DEF IInv, KindsInv
  <2>2. line[c] \o hw[c].sending \in Seq(Third) /\ Len(line[c] \o hw[c].sending) > 0
    <3>1. line[c] \in Seq(Third) /\ Len(line[c]) \in Nat /\ Len(hw[c].sending) \in Nat \ {0}
      BY <1>2, <2>1, LenProperties, EmptySeq
    <3> QED
      BY <2>1, <3>1, ConcatProperties
  <2> QED
    BY <1>2, <2>1, <2>2, EmptySeq
<1>6. KindsInv'
  BY <1>1, <1>4, <1>5 DEF IInv, KindsInv
<1>7. ListenInv'
  BY <1>1, <1>4, <1>5 DEF IInv, ListenInv
<1>8. SendInv'
  BY <1>1, <1>3, <1>4, <1>5 DEF IInv, SendInv
<1>9. TurnInv'
  <2>1. CASE channel = c
    BY <1>1, <1>2, <1>3, <1>4, <2>1 DEF IInv, TurnInv
  <2>2. CASE channel # c
    <3>1. hw'[channel] = hw[channel]
      BY <1>4, <2>2 DEF IInv, KindsInv
    <3> QED
      BY <1>1, <3>1 DEF IInv, TurnInv
  <2> QED
    BY <2>1, <2>2
<1>10. AheadInv' /\ BootInv'
  BY <1>1, <1>2, <1>3, <1>4 DEF IInv, AheadInv, Ahead, BootInv
<1>11. ArmedInv'
  BY <1>1, <1>3, <1>4 DEF IInv, ArmedInv
<1>12. AnswerInv' /\ FetchInv'
  BY <1>1, <1>3, <1>4, <1>5 DEF IInv, AnswerInv, FetchInv
<1> QED
  BY <1>6, <1>7, <1>8, <1>9, <1>10, <1>11, <1>12 DEF IInv

\* What is heard on a line not yet turned around answers the pass before.
LEMMA ResponseInv ==
  ASSUME IInv, NEW c \in Channels, NEW answer \in Answers, Response(c, answer)
  PROVE  IInv'
<1>1. UNCHANGED <<bdshot, parsedMask, fetch, seen, info, recvMask, isr, shifterIrq, timerIrq,
                  at, channel, passes, line>>
  BY DEF Response, fixed, handler, loop
<1>2. /\ hw[c].mode = "in" /\ ~hw[c].heard
      /\ hw' = [hw EXCEPT ![c].buf = <<answer>>, ![c].timer = TRUE, ![c].heard = TRUE]
  BY DEF Response
<1>3. /\ hw' \in [Channels -> Unit] /\ \A d \in Channels : d # c => hw'[d] = hw[d]
      /\ hw'[c].mode = "in" /\ hw'[c].sending = hw[c].sending /\ hw'[c].buf = <<answer>>
      /\ hw'[c].timer /\ hw'[c].heard
  <2>1. hw \in [Channels -> Unit] /\ <<answer>> \in Heard
    BY DEF IInv, KindsInv, Heard
  <2> QED
    BY <1>2, <2>1 DEF Unit
<1>4. /\ answers \subseteq answers'
      /\ line[c] = <<>> => Among(answers', c, <<answer>>, passes - 1, passes - 1)
      /\ line[c] # <<>> => Among(answers', c, <<answer>>, passes, passes)
  <2> DEFINE new == [channel |-> c, pass |-> IF line[c] = <<>> THEN passes - 1 ELSE passes,
                     answer |-> answer]
  <2>1. answers' = answers \cup {new}
    BY DEF Response
  <2>2. passes \in Int /\ new.channel = c /\ new.answer = answer
        /\ new.pass = IF line[c] = <<>> THEN passes - 1 ELSE passes
    BY DEF IInv, KindsInv
  <2> HIDE DEF new
  <2> QED
    BY <2>1, <2>2 DEF Among
<1>5. KindsInv'
  BY <1>1, <1>3 DEF IInv, KindsInv
<1>6. ListenInv'
  <2>1. <<answer>> \in Heard
    BY DEF Heard
  <2> QED
    BY <1>1, <1>2, <1>3, <2>1 DEF IInv, ListenInv
<1>7. SendInv'
  BY <1>1, <1>3 DEF IInv, SendInv
<1>8. TurnInv'
  <2>1. CASE channel = c
    BY <1>1, <1>2, <1>3, <2>1 DEF IInv, TurnInv
  <2>2. CASE channel # c
    <3>1. hw'[channel] = hw[channel]
      BY <1>3, <2>2 DEF IInv, KindsInv
    <3> QED
      BY <1>1, <3>1 DEF IInv, TurnInv
  <2> QED
    BY <2>1, <2>2
<1>9. AheadInv' /\ BootInv' /\ ArmedInv'
  BY <1>1, <1>2, <1>3 DEF IInv, AheadInv, Ahead, BootInv, ArmedInv
<1>10. AnswerInv' /\ FetchInv'
  <2>1. passes \in Int /\ seen \in Int
    BY DEF IInv, KindsInv, FetchInv
  <2>2. \A d, raw : \A from, to \in Int :
          Among(answers, d, raw, from, to) => Among(answers', d, raw, from, to)
    BY <1>4, AmongMore
  <2> QED
    BY <1>1, <1>2, <1>3, <1>4, <2>1, <2>2 DEF IInv, AnswerInv, FetchInv
<1> QED
  BY <1>5, <1>6, <1>7, <1>8, <1>9, <1>10 DEF IInv

-----------------------------------------------------------------------------
(* The loop                                                                *)

\* Between passes nothing is on its way: what sends is empty, fed and quiet.
LEMMA QuietFacts ==
  ASSUME IInv, at = "idle", Quiet, NEW c \in Channels
  PROVE  /\ ~hw[c].timer
         /\ hw[c].mode = "out" => /\ hw[c].sending = <<>> /\ hw[c].buf = <<>>
                                  /\ timerIrq = {} \/ info[c].state # "START"
<1>1. CASE timerIrq = {}
  BY <1>1 DEF IInv, BootInv
<1>2. CASE timerIrq = Channels
  <2>1. ~hw[c].timer
    BY <1>2 DEF Quiet, Undisturbed, Pending
  <2>2. ASSUME hw[c].mode = "out"
        PROVE  hw[c].sending = <<>> /\ hw[c].buf = <<>> /\ info[c].state # "START"
    <3>1. hw[c].sending = <<>> /\ hw[c].buf = <<>>
      BY <2>2 DEF Quiet, IInv, SendInv
    <3>2. ShifterFlag(c)
      BY <2>2, <3>1 DEF ShifterFlag
    <3>3. c \notin shifterIrq
      BY <3>2 DEF Quiet, Undisturbed, Pending
    <3> QED
      BY <1>2, <2>2, <3>1, <3>3 DEF IInv, ArmedInv
  <2> QED
    BY <2>1, <2>2
<1> QED
  BY <1>1, <1>2 DEF IInv, KindsInv

\* A new pass finds the answers of the one before.
LEMMA BeginInv == ASSUME IInv, Begin PROVE IInv'
<1>1. /\ at = "idle" /\ at' = "set" /\ channel' = 1 /\ passes' = passes + 1 /\ Quiet
      /\ line' = [c \in Channels |-> <<>>]
      /\ UNCHANGED <<bdshot, parsedMask, fetch, seen, info, recvMask, isr, shifterIrq, timerIrq,
                     hw, answers>>
  BY DEF Begin, fixed, handler, history
<1>2. passes \in Nat /\ passes' \in Nat /\ passes' \in 0 .. MaxPasses
  <2>1. Cardinality(bdshot) \in Nat
    <3>1. IsFiniteSet(Channels)
      BY ChannelFacts, FS_Interval DEF Channels
    <3>2. bdshot \subseteq Channels
      BY DEF IInv, KindsInv
    <3> QED
      BY <3>1, <3>2, FS_Subset, FS_CardinalityType
  <2>2. passes + Cardinality(bdshot) < MaxPasses
    BY DEF Begin
  <2>3. MaxPasses \in Nat /\ passes \in Nat
    BY BoundsAssumption DEF BoundsAssumption, IInv, KindsInv
  <2> QED
    BY <1>1, <2>1, <2>2, <2>3
<1>3. \A c \in Channels : line'[c] = <<>> /\ <<>> \in Seq(Third)
  BY <1>1, EmptySeq
<1>4. KindsInv'
  <2>1. line' \in [Channels -> Seq(Third)]
    BY <1>1, <1>3
  <2> QED
    BY <1>1, <1>2, <2>1, ChannelFacts DEF IInv, KindsInv
<1>5. ListenInv'
  <2>1. \A c \in Channels : 1 <= c
    BY ChannelFacts
  <2> QED
    BY <1>1, <2>1 DEF IInv, ListenInv
<1>6. SendInv' /\ AheadInv'
  BY <1>1, QuietFacts DEF IInv, SendInv, AheadInv, Ahead
<1>7. TurnInv' /\ ArmedInv'
  BY <1>1 DEF TurnInv, ArmedInv
<1>8. BootInv'
  BY <1>1 DEF IInv, BootInv
<1>9. \A c \in Channels : hw[c].mode = "in" => line[c] # <<>>
  BY <1>1 DEF IInv, ListenInv
<1>10. AnswerInv'
  <2>1. passes' - 1 = passes
    BY <1>1, <1>2
  <2>2. \A c \in recvMask : Among(answers, c, info[c].raw, passes, passes')
    BY <1>1, <1>2, AmongMore DEF IInv, AnswerInv
  <2> QED
    BY <1>1, <1>3, <1>9, <2>1, <2>2 DEF IInv, KindsInv, AnswerInv
<1>11. FetchInv'
  <2>1. seen \in Nat /\ seen <= passes
    BY DEF IInv, FetchInv
  <2>2. seen # 0 => fetch \in bdshot /\ Among(answers, fetch, info[fetch].raw, seen, passes')
    BY <1>1, <1>2, <2>1, AmongMore DEF IInv, FetchInv
  <2> QED
    BY <1>1, <1>2, <2>1, <2>2 DEF FetchInv
<1> QED
  BY <1>4, <1>5, <1>6, <1>7, <1>8, <1>10, <1>11 DEF IInv

\* The loop's next channel is one there is.
LEMMA NextChannelFacts ==
  ASSUME IInv, NextChannel
  PROVE  /\ channel' \in Channels /\ at' \in {"set", "put"}
         /\ at' = "set" => channel' = channel + 1
         /\ at' = "put" => \A c \in Channels : c <= channel
BY ChannelFacts DEF NextChannel, IInv, KindsInv

\* A packet written on a channel that still listens waits for its turn.
LEMMA SetPacketInv ==
  ASSUME IInv, NEW throttle \in Throttles, SetPacket(throttle)
  PROVE  IInv'
<1>1. /\ at = "set" /\ Undisturbed
      /\ UNCHANGED <<bdshot, parsedMask, fetch, seen, recvMask, isr, shifterIrq, timerIrq, hw,
                     line, passes, answers>>
  BY DEF SetPacket, InStep, fixed, handler, history
<1>2. channel \in Channels /\ Bidirectional(channel) \in {0, 1}
  BY DEF IInv, KindsInv, Bidirectional
<1>3. /\ info' \in [Channels -> Driver] /\ \A d \in Channels : d # channel => info'[d] = info[d]
      /\ info'[channel].state = "START" /\ info'[channel].raw = info[channel].raw
  <2> DEFINE first == FirstHalf(Packet(throttle, 0, Bidirectional(channel)))
             second == SecondHalf(Packet(throttle, 0, Bidirectional(channel)))
  <2>1. first \in Thirds /\ second \in Thirds
    BY <1>2, HalvesAreThirds
  <2>2. info' = [info EXCEPT ![channel].seg1 = first, ![channel].irqData = second,
                             ![channel].state = "START"]
    BY DEF SetPacket, DataSet
  <2>3. info \in [Channels -> Driver] /\ info[channel] \in Driver /\ "START" \in States
    BY <1>2 DEF IInv, KindsInv, States
  <2> HIDE DEF first, second
  <2> DEFINE u == [info[channel] EXCEPT !.seg1 = first, !.irqData = second, !.state = "START"]
  <2>4. u \in Driver /\ u.state = "START" /\ u.raw = info[channel].raw
    BY <2>1, <2>3 DEF Driver
  <2>5. info' = [info EXCEPT ![channel] = u]
    BY <1>2, <2>2, <2>3
  <2> HIDE DEF u
  <2> QED
    BY <1>2, <2>3, <2>4, <2>5
<1>4. \/ channel \in bdshot /\ at' = "turn" /\ channel' = channel
      \/ channel \notin bdshot /\ NextChannel
  BY DEF SetPacket
<1>5. /\ channel' \in Channels /\ at' \in {"set", "turn", "put"}
      /\ at' = "turn" => channel \in bdshot /\ channel' = channel
      /\ at' = "set" => channel' = channel + 1
      /\ at' = "put" => \A c \in Channels : c <= channel
      /\ at' # "turn" => hw[channel].mode = "out"
  <2>1. channel \notin bdshot => hw[channel].mode = "out"
    BY <1>2, Fields DEF IInv, ListenInv
  <2> QED
    BY <1>2, <1>4, <2>1, NextChannelFacts
<1>6. ~hw[channel].timer
  <2>1. CASE timerIrq = {}
    BY <1>1, <1>2, <2>1 DEF IInv, BootInv
  <2>2. CASE timerIrq = Channels
    BY <1>1, <1>2, <2>2 DEF Undisturbed, Pending
  <2> QED
    BY <2>1, <2>2 DEF IInv, KindsInv
<1>7. KindsInv'
  BY <1>1, <1>3, <1>5 DEF IInv, KindsInv
<1>8. ListenInv'
  <2> SUFFICES ASSUME NEW c \in Channels, hw[c].mode = "in"
               PROVE  /\ c \in bdshot /\ hw[c].sending = <<>> /\ hw[c].buf \in Heard \cup {<<>>}
                      /\ hw[c].buf # <<>> => hw[c].heard
                      /\ info'[c].state \in {"RECEIVE", "RECEIVE_COMPLETE"}
                           \/ (at' = "turn" /\ c = channel')
                      /\ line[c] = <<>> => at' \in {"set", "turn"} /\ channel' <= c
    BY <1>1 DEF ListenInv
  <2>1. c # channel => info[c].state \in {"RECEIVE", "RECEIVE_COMPLETE"}
    BY <1>1 DEF IInv, ListenInv
  <2>2. line[c] = <<>> => channel <= c
    BY <1>1 DEF IInv, ListenInv
  <2>3. line[c] = <<>> => at' \in {"set", "turn"} /\ channel' <= c
    BY <1>2, <1>5, <2>2, ChannelFacts
  <2> QED
    BY <1>2, <1>3, <1>5, <2>1, <2>3 DEF IInv, ListenInv
<1>9. SendInv'
  BY <1>1, <1>2, <1>3 DEF IInv, SendInv
<1>10. hw[channel].mode = "out" => hw[channel].sending = <<>> /\ hw[channel].buf = <<>>
  BY <1>1, <1>2 DEF IInv, AheadInv, Ahead
<1>11. TurnInv'
  BY <1>1, <1>2, <1>3, <1>5, <1>6, <1>10 DEF TurnInv
<1>12. AheadInv'
  <2>1. \A c \in Channels : Ahead(c)' => c # channel /\ Ahead(c)
    BY <1>1, <1>2, <1>5, ChannelFacts DEF Ahead
  <2> QED
    BY <1>1, <1>3, <2>1 DEF IInv, AheadInv
<1>13. ArmedInv' /\ BootInv'
  BY <1>1, <1>5 DEF IInv, ArmedInv, BootInv
<1>14. \A c \in Channels : info'[c].raw = info[c].raw
  BY <1>2, <1>3
<1>15. AnswerInv' /\ FetchInv'
  BY <1>1, <1>5, <1>14 DEF IInv, KindsInv, AnswerInv, FetchInv
<1> QED
  BY <1>7, <1>8, <1>9, <1>11, <1>12, <1>13, <1>15 DEF IInv

\* The line turned around again has lost what it heard of the pass before.
LEMMA TurnBackInv == ASSUME IInv, TurnBack PROVE IInv'
<1>1. /\ at = "turn" /\ NextChannel /\ shifterIrq' = {}
      /\ UNCHANGED <<bdshot, parsedMask, fetch, seen, info, recvMask, isr, timerIrq, line,
                     passes, answers>>
  BY DEF TurnBack, InStep, fixed, history
<1>2. channel \in Channels
  BY DEF IInv, KindsInv
<1>3. /\ hw' \in [Channels -> Unit]
      /\ \A d \in Channels : /\ ~hw'[d].timer
                             /\ d # channel => /\ hw'[d].mode = hw[d].mode
                                               /\ hw'[d].sending = hw[d].sending
                                               /\ hw'[d].buf = hw[d].buf
                                               /\ hw'[d].heard = hw[d].heard
      /\ hw'[channel].mode = "out" /\ hw'[channel].sending = <<>> /\ hw'[channel].buf = <<>>
  <2>1. hw \in [Channels -> Unit]
    BY DEF IInv, KindsInv
  <2>2. /\ TimersCleared \in [Channels -> Unit]
        /\ \A d \in Channels : /\ TimersCleared[d].mode = hw[d].mode
                               /\ TimersCleared[d].sending = hw[d].sending
                               /\ TimersCleared[d].buf = hw[d].buf
                               /\ TimersCleared[d].heard = hw[d].heard /\ ~TimersCleared[d].timer
    BY <2>1 DEF TimersCleared, Unit
  <2>3. /\ Configured("out") \in Unit /\ Configured("out").mode = "out"
        /\ Configured("out").sending = <<>> /\ Configured("out").buf = <<>>
        /\ ~Configured("out").timer
    BY DEF Configured, Unit
  <2>4. hw' = [TimersCleared EXCEPT ![channel] = Configured("out")]
    BY DEF TurnBack
  <2> QED
    BY <1>2, <2>2, <2>3, <2>4
<1>4. /\ channel' \in Channels /\ at' \in {"set", "put"}
      /\ at' = "set" => channel' = channel + 1
      /\ at' = "put" => \A c \in Channels : c <= channel
  BY <1>1, NextChannelFacts
<1>5. info[channel].state \notin {"RECEIVE", "RECEIVE_COMPLETE"}
  BY <1>1, <1>2, Fields DEF IInv, TurnInv
<1>6. KindsInv'
  BY <1>1, <1>3, <1>4 DEF IInv, KindsInv
<1>7. ListenInv'
  <2>1. \A c \in Channels : hw'[c].mode = "in" => c # channel /\ hw[c].mode = "in"
    BY <1>2, <1>3
  <2>2. \A c \in Channels : c # channel /\ channel <= c => at' = "set" /\ channel' <= c
    BY <1>2, <1>4, ChannelFacts
  <2> QED
    BY <1>1, <1>3, <2>1, <2>2 DEF IInv, ListenInv
<1>8. SendInv'
  BY <1>1, <1>2, <1>3, <1>5 DEF IInv, SendInv
<1>9. TurnInv' /\ ArmedInv'
  BY <1>4 DEF TurnInv, ArmedInv
<1>10. AheadInv'
  <2>1. \A c \in Channels : Ahead(c)' => c # channel /\ Ahead(c)
    BY <1>1, <1>2, <1>4, ChannelFacts DEF Ahead
  <2> QED
    BY <1>1, <1>3, <2>1 DEF IInv, AheadInv
<1>11. BootInv'
  BY <1>1, <1>2, <1>3 DEF IInv, BootInv
<1>12. AnswerInv' /\ FetchInv'
  BY <1>1, <1>2, <1>3, <1>4 DEF IInv, KindsInv, AnswerInv, FetchInv
<1> QED
  BY <1>6, <1>7, <1>8, <1>9, <1>10, <1>11, <1>12 DEF IInv

\* Untimed, a channel's hardware is otherwise what it was.
LEMMA ClearedFacts ==
  ASSUME KindsInv
  PROVE  /\ TimersCleared \in [Channels -> Unit]
         /\ \A d \in Channels : /\ TimersCleared[d].mode = hw[d].mode
                                /\ TimersCleared[d].sending = hw[d].sending
                                /\ TimersCleared[d].buf = hw[d].buf
                                /\ TimersCleared[d].heard = hw[d].heard
                                /\ ~TimersCleared[d].timer
BY ZenonT(40) DEF KindsInv, TimersCleared, Unit

\* A half is put where the hardware takes it from.
LEMMA PutFacts ==
  ASSUME NEW unit \in Unit, NEW half \in Thirds
  PROVE  /\ Put(unit, half) \in Unit /\ Put(unit, half).mode = unit.mode
         /\ Put(unit, half).timer = unit.timer /\ Put(unit, half).heard = unit.heard
         /\ unit.mode = "in" =>
              Put(unit, half).buf = <<>> /\ Put(unit, half).sending = unit.sending
         /\ unit.mode = "out" =>
              \/ unit.sending = <<>> /\ Put(unit, half).sending = half /\ Put(unit, half).buf = unit.buf
              \/ unit.sending # <<>> /\ Put(unit, half).sending = unit.sending
                   /\ Put(unit, half).buf = half
<1>1. CASE unit.mode = "in"
  BY <1>1 DEF Put, Unit
<1>2. CASE unit.mode = "out"
  BY <1>2 DEF Put, Unit
<1> QED
  BY <1>1, <1>2 DEF Unit

\* The first half goes to hardware that sends, or is lost on a line that listens.
LEMMA TriggerPutInv == ASSUME IInv, TriggerPut PROVE IInv'
<1>1. /\ at = "put" /\ at' \in {"put", "arm"}
      /\ UNCHANGED <<bdshot, parsedMask, fetch, seen, recvMask, isr, shifterIrq, timerIrq, line,
                     passes, answers>>
  BY DEF TriggerPut, InStep, fixed, handler, history
<1>2. channel \in Channels /\ channel' \in Channels
  <2>1. channel' = channel \/ (channel < ChannelCount /\ channel' = channel + 1)
    BY DEF TriggerPut
  <2> QED
    BY <2>1, ChannelFacts DEF IInv, KindsInv
<1>3. /\ info' \in [Channels -> Driver]
      /\ \A d \in Channels : info'[d].state = info[d].state /\ info'[d].raw = info[d].raw
  <2>1. info \in [Channels -> Driver] /\ info[channel].noResponse \in Nat
    BY <1>2 DEF IInv, KindsInv, Driver
  <2> DEFINE n == info[channel].noResponse + IF Silent(channel) THEN 1 ELSE 0
  <2>2. n \in Nat
    BY <2>1
  <2>3. info' = [info EXCEPT ![channel].noResponse = n]
    BY DEF TriggerPut
  <2> HIDE DEF n
  <2> QED
    BY <1>2, <2>1, <2>2, <2>3 DEF Driver
<1>4. /\ hw' \in [Channels -> Unit]
      /\ \A d \in Channels :
           /\ hw'[d].mode = hw[d].mode /\ hw'[d].heard = hw[d].heard
           /\ hw'[d].timer => hw[d].timer
           /\ hw[d].mode = "in" => /\ hw'[d].sending = hw[d].sending
                                   /\ hw'[d].buf = hw[d].buf \/ hw'[d].buf = <<>>
           /\ hw[d].mode = "out" => /\ hw'[d].buf \in Thirds \cup {<<>>}
                                    /\ hw'[d].sending = <<>> => hw'[d].buf = <<>>
  <2> DEFINE former == IF channel = 1 THEN TimersCleared ELSE hw
             unit == IF info[channel].seg1 = Zeros THEN former[channel]
                     ELSE Put(former[channel], info[channel].seg1)
  <2>1. /\ former \in [Channels -> Unit]
        /\ \A d \in Channels : /\ former[d].mode = hw[d].mode /\ former[d].sending = hw[d].sending
                               /\ former[d].buf = hw[d].buf /\ former[d].heard = hw[d].heard
                               /\ former[d].timer => hw[d].timer
    BY ClearedFacts DEF IInv, KindsInv
  <2>2. hw' = [former EXCEPT ![channel] = unit]
    BY DEF TriggerPut
  <2> HIDE DEF former
  <2>3. info[channel].seg1 \in Thirds /\ former[channel] \in Unit
    BY <1>2, <2>1, Fields DEF IInv
  <2>4. /\ hw[channel].mode = "out" =>
             hw[channel].buf \in Thirds \cup {<<>>} /\ (hw[channel].sending = <<>> => hw[channel].buf = <<>>)
        /\ hw[channel].mode \in {"in", "out"}
    BY <1>2, Fields DEF IInv, SendInv
  <2>5. /\ unit \in Unit
        /\ unit.mode = hw[channel].mode /\ unit.heard = hw[channel].heard
        /\ unit.timer => hw[channel].timer
        /\ hw[channel].mode = "in" => /\ unit.sending = hw[channel].sending
                                      /\ unit.buf = hw[channel].buf \/ unit.buf = <<>>
        /\ hw[channel].mode = "out" => /\ unit.buf \in Thirds \cup {<<>>}
                                       /\ unit.sending = <<>> => unit.buf = <<>>
    <3>1. CASE info[channel].seg1 = Zeros
      BY <1>2, <2>1, <2>3, <2>4, <3>1
    <3>2. CASE info[channel].seg1 # Zeros
      <4>1. unit = Put(former[channel], info[channel].seg1)
        BY <3>2
      <4> HIDE DEF unit
      <4> QED
        BY <1>2, <2>1, <2>3, <2>4, <4>1, PutFacts
    <3> QED
      BY <3>1, <3>2
  <2> HIDE DEF unit
  <2>6. hw' \in [Channels -> Unit] /\ hw'[channel] = unit
        /\ \A d \in Channels : d # channel => hw'[d] = former[d]
    BY <1>2, <2>1, <2>2, <2>5
  <2>7. \A d \in Channels : hw[d].mode = "out" =>
          hw[d].buf \in Thirds \cup {<<>>} /\ (hw[d].sending = <<>> => hw[d].buf = <<>>)
    BY DEF IInv, SendInv
  <2> QED
    BY <2>1, <2>5, <2>6, <2>7
<1>5. KindsInv'
  BY <1>1, <1>2, <1>3, <1>4 DEF IInv, KindsInv
<1>6. ListenInv'
  BY <1>1, <1>3, <1>4 DEF IInv, ListenInv
<1>7. SendInv'
  BY <1>1, <1>3, <1>4 DEF IInv, SendInv
<1>8. TurnInv' /\ AheadInv' /\ ArmedInv'
  BY <1>1 DEF TurnInv, AheadInv, Ahead, ArmedInv
<1>9. BootInv'
  BY <1>1, <1>4 DEF IInv, BootInv
<1>10. AnswerInv'
  BY <1>1, <1>3, <1>4 DEF IInv, KindsInv, AnswerInv
<1>11. FetchInv'
  BY <1>1, <1>3 DEF IInv, KindsInv, FetchInv
<1> QED
  BY <1>5, <1>6, <1>7, <1>8, <1>9, <1>10, <1>11 DEF IInv

\* Armed, the driver has forgotten the answers and may be interrupted.
LEMMA TriggerArmInv == ASSUME IInv, TriggerArm PROVE IInv'
<1>1. /\ at = "arm" /\ at' = "idle" /\ recvMask' = {}
      /\ hw' = TimersCleared /\ shifterIrq' = Channels /\ timerIrq' = Channels
      /\ UNCHANGED <<bdshot, parsedMask, fetch, seen, info, isr, channel, line, passes, answers>>
  BY DEF TriggerArm, InStep, AnswersForgotten, fixed, history
<1>2. /\ hw' \in [Channels -> Unit]
      /\ \A d \in Channels : /\ hw'[d].mode = hw[d].mode /\ hw'[d].sending = hw[d].sending
                             /\ hw'[d].buf = hw[d].buf /\ hw'[d].heard = hw[d].heard
                             /\ ~hw'[d].timer
  BY <1>1, ClearedFacts DEF IInv
<1>3. KindsInv'
  BY <1>1, <1>2 DEF IInv, KindsInv
<1>4. ListenInv' /\ SendInv'
  BY <1>1, <1>2 DEF IInv, ListenInv, SendInv
<1>5. TurnInv' /\ AheadInv' /\ ArmedInv'
  BY <1>1 DEF TurnInv, AheadInv, Ahead, ArmedInv
<1>6. BootInv'
  BY <1>1, ChannelFacts DEF BootInv
<1>7. AnswerInv' /\ FetchInv'
  BY <1>1, <1>2 DEF IInv, AnswerInv, FetchInv
<1> QED
  BY <1>3, <1>4, <1>5, <1>6, <1>7 DEF IInv

-----------------------------------------------------------------------------
(* The interrupt                                                           *)

\* What comes in is taken over as the answer to the packet it answers, and a
\* packet begun gets its second half.
LEMMA ServeShiftersInv == ASSUME IInv, ServeShifters PROVE IInv'
<1> DEFINE flagged == {c \in Channels : ShifterFlag(c)}
           feeding == {c \in flagged : FeedsSecondHalf(c)}
           received == {c \in flagged : info[c].state = "RECEIVE"}
<1>1. /\ isr = 0 /\ Pending /\ shifterIrq' = shifterIrq \ flagged
      /\ recvMask' = recvMask \cup received /\ isr' \in {0, 1}
      /\ UNCHANGED <<bdshot, parsedMask, fetch, seen, timerIrq, at, channel, passes, line, answers>>
  BY DEF ServeShifters, fixed, loop, history
<1>2. /\ info' = [c \in Channels |->
           IF c \in feeding THEN [info[c] EXCEPT !.state = "12BIT_FIFO"]
           ELSE IF c \in received THEN [info[c] EXCEPT !.state = "RECEIVE_COMPLETE", !.raw = hw[c].buf]
           ELSE info[c]]
      /\ hw' = [c \in Channels |->
           IF c \in feeding THEN Put(hw[c], info[c].irqData)
           ELSE IF c \in received THEN [hw[c] EXCEPT !.buf = <<>>] ELSE hw[c]]
  BY DEF ServeShifters
<1>3. timerIrq # {}
  BY <1>1 DEF Pending, IInv, BootInv
<1>4. ASSUME NEW c \in Channels
      PROVE  /\ c \in feeding <=> ShifterFlag(c) /\ info[c].state = "START"
             /\ c \in received <=> ShifterFlag(c) /\ info[c].state = "RECEIVE"
             /\ c \in flagged <=> ShifterFlag(c)
  BY DEF FeedsSecondHalf
<1> HIDE DEF flagged, feeding, received
<1>5. ASSUME NEW c \in Channels
      PROVE  /\ hw[c].mode \in {"in", "out"}
             /\ hw[c].mode = "out" => (ShifterFlag(c) <=> hw[c].buf = <<>>) /\ c \notin received
             /\ hw[c].mode = "in" => (ShifterFlag(c) <=> hw[c].buf # <<>>)
  BY <1>4, Fields DEF IInv, SendInv, ShifterFlag
<1>6. ASSUME NEW c \in feeding
      PROVE  /\ info'[c] \in Driver /\ info'[c].state = "12BIT_FIFO" /\ info'[c].raw = info[c].raw
             /\ hw'[c] \in Unit /\ hw'[c].mode = hw[c].mode /\ hw'[c].timer = hw[c].timer
             /\ hw'[c].heard = hw[c].heard
             /\ hw[c].mode = "in" => hw[c].buf # <<>> /\ hw'[c].buf = <<>> /\ hw'[c].sending = hw[c].sending
             /\ hw[c].mode = "out" =>
                  \/ hw[c].sending = <<>> /\ hw'[c].buf = <<>>
                  \/ hw'[c].sending = hw[c].sending /\ hw[c].sending # <<>> /\ hw'[c].buf \in Thirds
  <2>1. c \in Channels
    BY DEF feeding, flagged
  <2>2. /\ info[c] \in Driver /\ hw[c] \in Unit /\ info[c].irqData \in Thirds
    BY <2>1, Fields DEF IInv
  <2>3. info'[c] = [info[c] EXCEPT !.state = "12BIT_FIFO"] /\ hw'[c] = Put(hw[c], info[c].irqData)
    BY <1>2, <2>1
  <2>4. info'[c] \in Driver /\ info'[c].state = "12BIT_FIFO" /\ info'[c].raw = info[c].raw
    BY <2>2, <2>3 DEF Driver, States
  <2>5. /\ hw[c].mode = "in" => hw[c].buf # <<>>
        /\ hw[c].mode = "out" => hw[c].buf = <<>>
    BY <1>4, <1>5, <2>1
  <2> QED
    BY <2>2, <2>3, <2>4, <2>5, PutFacts
<1>7. ASSUME NEW c \in received
      PROVE  /\ c \in bdshot /\ hw[c].mode = "in" /\ hw[c].buf \in Heard /\ hw[c].buf # <<>>
             /\ info[c].state = "RECEIVE"
             /\ info'[c] \in Driver /\ info'[c].state = "RECEIVE_COMPLETE" /\ info'[c].raw = hw[c].buf
             /\ hw'[c] \in Unit /\ hw'[c].mode = "in" /\ hw'[c].timer = hw[c].timer
             /\ hw'[c].heard = hw[c].heard /\ hw'[c].buf = <<>> /\ hw'[c].sending = hw[c].sending
  <2>1. c \in Channels
    BY DEF received, flagged
  <2>2. c \notin feeding /\ info[c].state = "RECEIVE"
    BY <1>4, <2>1
  <2>3. c \in bdshot /\ hw[c].mode = "in" /\ hw[c].buf \in Heard /\ hw[c].buf # <<>>
    BY <1>4, <1>5, <2>1 DEF IInv, ListenInv
  <2>4. info[c] \in Driver /\ hw[c] \in Unit
    BY <2>1, Fields DEF IInv
  <2>5. /\ info'[c] = [info[c] EXCEPT !.state = "RECEIVE_COMPLETE", !.raw = hw[c].buf]
        /\ hw'[c] = [hw[c] EXCEPT !.buf = <<>>]
    BY <1>2, <2>1, <2>2
  <2>6. /\ info'[c] \in Driver /\ info'[c].state = "RECEIVE_COMPLETE" /\ info'[c].raw = hw[c].buf
    BY <2>3, <2>4, <2>5 DEF Driver, States
  <2>7. /\ hw'[c] \in Unit /\ hw'[c].mode = "in" /\ hw'[c].timer = hw[c].timer
        /\ hw'[c].heard = hw[c].heard /\ hw'[c].buf = <<>> /\ hw'[c].sending = hw[c].sending
    BY <2>3, <2>4, <2>5 DEF Unit
  <2> QED
    BY <2>2, <2>3, <2>6, <2>7
<1>8. \A c \in Channels : c \notin feeding /\ c \notin received => info'[c] = info[c] /\ hw'[c] = hw[c]
  BY <1>2
<1>9. KindsInv'
  <2>1. \A c \in Channels : info'[c] \in Driver /\ hw'[c] \in Unit
    BY <1>6, <1>7, <1>8, Fields DEF IInv
  <2>2. info' \in [Channels -> Driver] /\ hw' \in [Channels -> Unit]
    BY <1>2, <2>1
  <2>3. received \subseteq bdshot
    BY <1>7
  <2>4. isr' \in 0 .. ChannelCount
    BY <1>1, ChannelFacts
  <2> QED
    BY <1>1, <2>2, <2>3, <2>4 DEF IInv, KindsInv
<1>10. ListenInv'
  <2> SUFFICES ASSUME NEW c \in Channels, hw'[c].mode = "in"
               PROVE  /\ c \in bdshot /\ hw'[c].sending = <<>> /\ hw'[c].buf \in Heard \cup {<<>>}
                      /\ hw'[c].buf # <<>> => hw'[c].heard
                      /\ info'[c].state \in {"RECEIVE", "RECEIVE_COMPLETE"} \/ (at = "turn" /\ c = channel)
                      /\ line[c] = <<>> => at \in {"set", "turn"} /\ channel <= c
    BY <1>1 DEF ListenInv
  <2>1. CASE c \in feeding
    BY <1>4, <1>6, <2>1 DEF IInv, ListenInv
  <2>2. CASE c \in received
    BY <1>7, <2>2 DEF IInv, ListenInv
  <2>3. CASE c \notin feeding /\ c \notin received
    BY <1>8, <2>3 DEF IInv, ListenInv
  <2> QED
    BY <2>1, <2>2, <2>3
<1>11. SendInv'
  <2> SUFFICES ASSUME NEW c \in Channels, hw'[c].mode = "out"
               PROVE  /\ hw'[c].buf \in Thirds \cup {<<>>}
                      /\ hw'[c].sending = <<>> => hw'[c].buf = <<>>
                      /\ hw'[c].timer => line[c] # <<>>
                      /\ info'[c].state \notin {"RECEIVE", "RECEIVE_COMPLETE"}
    BY <1>1 DEF SendInv
  <2>1. CASE c \in feeding
    BY <1>6, <2>1 DEF IInv, SendInv
  <2>2. CASE c \notin feeding
    <3>1. info'[c] = info[c] /\ hw'[c] = hw[c]
      BY <1>7, <1>8, <2>2
    <3> QED
      BY <3>1 DEF IInv, SendInv
  <2> QED
    BY <2>1, <2>2
<1>12. TurnInv'
  <2> SUFFICES ASSUME at = "turn" PROVE TurnInv'
    BY <1>1 DEF TurnInv
  <2>1. channel \in Channels /\ channel \notin received
    <3>1. channel \in Channels /\ info[channel].state # "RECEIVE"
      BY Fields DEF IInv, KindsInv, TurnInv
    <3> QED
      BY <1>4, <3>1
  <2>2. CASE channel \in feeding
    <3>1. hw[channel].mode = "in" => hw[channel].heard
      BY <1>6, <2>1, <2>2 DEF IInv, ListenInv
    <3>2. info[channel].state = "START"
      BY <1>4, <2>1, <2>2
    <3>3. hw[channel].mode = "out" => hw[channel].sending = <<>> /\ ~hw[channel].timer
      BY <3>2 DEF IInv, TurnInv
    <3> QED
      BY <1>1, <1>6, <2>2, <3>1, <3>3 DEF IInv, TurnInv
  <2>3. CASE channel \notin feeding
    <3>1. info'[channel] = info[channel] /\ hw'[channel] = hw[channel]
      BY <1>8, <2>1, <2>3
    <3> QED
      BY <1>1, <3>1 DEF IInv, TurnInv
  <2> QED
    BY <2>2, <2>3
<1>13. AheadInv' /\ BootInv'
  <2> SUFFICES ASSUME NEW c \in Channels, hw'[c].mode = "out", Ahead(c)
               PROVE  /\ hw'[c].sending = <<>> /\ hw'[c].buf = <<>> /\ ~hw'[c].timer
                      /\ info'[c].state # "START"
    BY <1>1, <1>3 DEF AheadInv, Ahead, BootInv
  <2>1. c \notin received /\ hw[c].mode = "out"
    BY <1>6, <1>7, <1>8
  <2>2. c \notin feeding
    BY <1>3, <1>4, <2>1 DEF IInv, AheadInv
  <2>3. info'[c] = info[c] /\ hw'[c] = hw[c]
    BY <1>8, <2>1, <2>2
  <2> QED
    BY <1>3, <2>1, <2>3 DEF IInv, AheadInv
<1>14. ArmedInv'
  <2> SUFFICES ASSUME at = "idle", timerIrq = Channels, NEW c \in Channels, hw'[c].mode = "out",
                      info'[c].state = "START"
               PROVE  c \in shifterIrq'
    BY <1>1 DEF ArmedInv
  <2>1. c \notin feeding /\ c \notin received
    BY <1>6, <1>7
  <2>2. info'[c] = info[c] /\ hw'[c] = hw[c]
    BY <1>8, <2>1
  <2>3. c \notin flagged
    BY <1>4, <2>1, <2>2
  <2> QED
    BY <1>1, <2>2, <2>3 DEF IInv, ArmedInv
<1>15. passes \in Int /\ seen \in Int /\ seen <= passes /\ (at # "idle" => seen <= passes - 1)
  BY DEF IInv, KindsInv, FetchInv
<1>16. ASSUME NEW c \in received
       PROVE  /\ at = "idle" => Among(answers, c, info'[c].raw, passes, passes)
              /\ Among(answers, c, info'[c].raw, seen, passes)
              /\ at # "idle" => Among(answers, c, info'[c].raw, passes - 1, passes)
  <2>1. c \in Channels
    BY DEF received, flagged
  <2>2. /\ line[c] = <<>> => at # "idle" /\ Among(answers, c, hw[c].buf, passes - 1, passes - 1)
        /\ line[c] # <<>> => Among(answers, c, hw[c].buf, passes, passes)
    BY <1>7, <2>1 DEF IInv, ListenInv, AnswerInv
  <2> QED
    BY <1>7, <1>15, <2>2, AmongMore
<1>17. AnswerInv'
  <2>1. \A c \in Channels : hw'[c].mode = "in" /\ hw'[c].buf # <<>> => hw'[c] = hw[c]
    BY <1>6, <1>7, <1>8
  <2>2. \A c \in recvMask : c \notin received => info'[c].raw = info[c].raw
    BY <1>6, <1>8 DEF IInv, KindsInv
  <2>3. \A c \in Channels : hw'[c].mode = "in" /\ hw'[c].buf # <<>> =>
          /\ line'[c] = <<>> => Among(answers', c, hw'[c].buf, passes' - 1, passes' - 1)
          /\ line'[c] # <<>> => Among(answers', c, hw'[c].buf, passes', passes')
    BY <1>1, <2>1 DEF IInv, AnswerInv
  <2>4. \A c \in recvMask' :
          /\ at' = "idle" => Among(answers', c, info'[c].raw, passes', passes')
          /\ at' # "idle" => Among(answers', c, info'[c].raw, passes' - 1, passes')
    BY <1>1, <1>16, <2>2 DEF IInv, AnswerInv
  <2> QED
    BY <2>3, <2>4 DEF AnswerInv
<1>18. FetchInv'
  <2>1. seen # 0 => fetch \in bdshot /\ fetch \in Channels
    BY DEF IInv, KindsInv, FetchInv
  <2>2. seen # 0 => Among(answers, fetch, info'[fetch].raw, seen, passes)
    <3>1. fetch \in received => Among(answers, fetch, info'[fetch].raw, seen, passes)
      BY <1>16
    <3>2. seen # 0 /\ fetch \notin received => info'[fetch].raw = info[fetch].raw
      BY <1>6, <1>8, <2>1
    <3> QED
      BY <3>1, <3>2 DEF IInv, FetchInv
  <2> QED
    BY <1>1, <2>1, <2>2 DEF IInv, FetchInv
<1> QED
  BY <1>9, <1>10, <1>11, <1>12, <1>13, <1>14, <1>17, <1>18 DEF IInv

\* A line is turned around once its packet is out.
LEMMA ServeTimerInv == ASSUME IInv, ServeTimer PROVE IInv'
<1>1. /\ isr # 0
      /\ isr' = IF {d \in Channels : hw[d].timer} = {} THEN 0 ELSE NextServed(isr)
      /\ UNCHANGED <<bdshot, parsedMask, fetch, seen, recvMask, timerIrq, at, channel, passes, line,
                     answers>>
  BY DEF ServeTimer, fixed, loop, history
<1>2. isr \in Channels /\ isr' \in 0 .. ChannelCount
  <2>1. isr \in 1 .. ChannelCount
    BY <1>1 DEF IInv, KindsInv
  <2>2. NextServed(isr) \in 1 .. ChannelCount
    BY <2>1, ChannelFacts DEF NextServed
  <2> QED
    BY <1>1, <2>1, <2>2, ChannelFacts DEF Channels
<1>3. timerIrq # {}
  BY <1>1 DEF IInv, BootInv
<1> DEFINE turned == info[isr].state = "12BIT_TRANSFERRED" /\ isr \in bdshot
<1>4. ~hw[isr].timer => UNCHANGED <<info, hw, shifterIrq>>
  BY <1>2 DEF ServeTimer
<1>5. ASSUME hw[isr].timer
      PROVE  /\ info' = [info EXCEPT ![isr].state = AfterTimer(isr)]
             /\ turned => hw' = [hw EXCEPT ![isr] = Configured("in")]
                          /\ shifterIrq' = shifterIrq \cup {isr}
             /\ ~turned => hw' = [hw EXCEPT ![isr].timer = FALSE] /\ shifterIrq' = shifterIrq
  <2>1. turned <=> AfterTimer(isr) = "RECEIVE" /\ info[isr].state # "RECEIVE"
    BY <1>2, Fields DEF AfterTimer, States, IInv
  <2> QED
    BY <1>2, <1>5, <2>1 DEF ServeTimer, TurnAround
<1>6. /\ info' \in [Channels -> Driver]
      /\ \A d \in Channels : /\ info'[d].raw = info[d].raw
                             /\ d # isr \/ ~hw[isr].timer => info'[d] = info[d]
      /\ hw[isr].timer => info'[isr].state = AfterTimer(isr)
  <2>1. info \in [Channels -> Driver] /\ AfterTimer(isr) \in States /\ hw[isr].timer \in BOOLEAN
    BY <1>2, Fields DEF IInv, KindsInv, AfterTimer, States
  <2> DEFINE u == [info[isr] EXCEPT !.state = AfterTimer(isr)]
  <2>2. u \in Driver /\ u.state = AfterTimer(isr) /\ u.raw = info[isr].raw
    BY <1>2, <2>1 DEF Driver
  <2>3. hw[isr].timer => info' = [info EXCEPT ![isr] = u]
    BY <1>2, <1>5, <2>1
  <2> HIDE DEF u
  <2>4. ~hw[isr].timer => info' = info
    BY <1>4
  <2> QED
    BY <1>2, <2>1, <2>2, <2>3, <2>4
<1>7. /\ AfterTimer(isr) \in {"RECEIVE", "RECEIVE_COMPLETE"} =>
           turned \/ info[isr].state \in {"RECEIVE", "RECEIVE_COMPLETE"}
      /\ info[isr].state \in {"RECEIVE", "RECEIVE_COMPLETE"} => AfterTimer(isr) = info[isr].state
      /\ turned => AfterTimer(isr) = "RECEIVE"
      /\ info[isr].state = "12BIT_FIFO" => AfterTimer(isr) = "12BIT_TRANSFERRED"
      /\ info[isr].state = "START" => AfterTimer(isr) = "START"
      /\ AfterTimer(isr) = "START" => info[isr].state = "START"
  BY DEF AfterTimer
<1>8. hw[isr].timer /\ turned => hw[isr].mode = "out" /\ line[isr] # <<>> /\ ~(at = "turn" /\ isr = channel)
  <2>1. hw[isr].mode \in {"in", "out"} /\ hw[isr].timer \in BOOLEAN
    BY <1>2, Fields DEF IInv
  <2>2. hw[isr].timer /\ turned => ~(at = "turn" /\ isr = channel)
    BY <2>1 DEF IInv, TurnInv
  <2> QED
    BY <1>2, <2>1, <2>2 DEF IInv, ListenInv, SendInv
<1> HIDE DEF turned
<1>9. /\ hw' \in [Channels -> Unit]
      /\ \A d \in Channels : d # isr => hw'[d] = hw[d]
      /\ ~hw[isr].timer => hw'[isr] = hw[isr]
      /\ hw[isr].timer /\ ~turned =>
           /\ hw'[isr].mode = hw[isr].mode /\ hw'[isr].sending = hw[isr].sending
           /\ hw'[isr].buf = hw[isr].buf /\ hw'[isr].heard = hw[isr].heard /\ ~hw'[isr].timer
      /\ hw[isr].timer /\ turned =>
           hw'[isr].mode = "in" /\ hw'[isr].sending = <<>> /\ hw'[isr].buf = <<>> /\ ~hw'[isr].timer
  <2>1. hw \in [Channels -> Unit]
    BY DEF IInv, KindsInv
  <2>2. /\ Configured("in") \in Unit /\ Configured("in").mode = "in"
        /\ Configured("in").sending = <<>> /\ Configured("in").buf = <<>> /\ ~Configured("in").timer
    BY DEF Configured, Unit
  <2>3. CASE ~hw[isr].timer
    BY <1>2, <1>4, <2>1, <2>3
  <2>4. CASE hw[isr].timer /\ turned
    BY <1>2, <1>5, <2>1, <2>2, <2>4
  <2>5. CASE hw[isr].timer /\ ~turned
    <3> DEFINE u == [hw[isr] EXCEPT !.timer = FALSE]
    <3>1. /\ u \in Unit /\ u.mode = hw[isr].mode /\ u.sending = hw[isr].sending
          /\ u.buf = hw[isr].buf /\ u.heard = hw[isr].heard /\ ~u.timer
      BY <1>2, <2>1 DEF Unit
    <3>2. hw' = [hw EXCEPT ![isr] = u]
      BY <1>2, <1>5, <2>1, <2>5
    <3> HIDE DEF u
    <3> QED
      BY <1>2, <2>1, <2>5, <3>1, <3>2
  <2> QED
    BY <1>2, <2>3, <2>4, <2>5, Fields DEF IInv
<1>10. shifterIrq \subseteq shifterIrq' /\ shifterIrq' \subseteq Channels
  BY <1>2, <1>4, <1>5, Fields DEF IInv, KindsInv
<1>11. hw[isr].timer \in BOOLEAN /\ hw[isr].mode \in {"in", "out"}
  BY <1>2, Fields DEF IInv
<1>12. KindsInv'
  BY <1>1, <1>2, <1>6, <1>9, <1>10 DEF IInv, KindsInv
<1>13. ListenInv'
  <2> SUFFICES ASSUME NEW c \in Channels, hw'[c].mode = "in"
               PROVE  /\ c \in bdshot /\ hw'[c].sending = <<>> /\ hw'[c].buf \in Heard \cup {<<>>}
                      /\ hw'[c].buf # <<>> => hw'[c].heard
                      /\ info'[c].state \in {"RECEIVE", "RECEIVE_COMPLETE"} \/ (at = "turn" /\ c = channel)
                      /\ line[c] = <<>> => at \in {"set", "turn"} /\ channel <= c
    BY <1>1 DEF ListenInv
  <2>1. CASE c # isr \/ ~hw[isr].timer
    BY <1>6, <1>9, <1>11, <2>1 DEF IInv, ListenInv
  <2>2. CASE c = isr /\ hw[isr].timer /\ turned
    BY <1>6, <1>7, <1>8, <1>9, <2>2 DEF turned
  <2>3. CASE c = isr /\ hw[isr].timer /\ ~turned
    BY <1>6, <1>7, <1>9, <2>3 DEF IInv, ListenInv
  <2> QED
    BY <2>1, <2>2, <2>3
<1>14. SendInv'
  <2> SUFFICES ASSUME NEW c \in Channels, hw'[c].mode = "out"
               PROVE  /\ hw'[c].buf \in Thirds \cup {<<>>}
                      /\ hw'[c].sending = <<>> => hw'[c].buf = <<>>
                      /\ hw'[c].timer => line[c] # <<>>
                      /\ info'[c].state \notin {"RECEIVE", "RECEIVE_COMPLETE"}
    BY <1>1 DEF SendInv
  <2>1. CASE c # isr \/ ~hw[isr].timer
    BY <1>6, <1>9, <1>11, <2>1 DEF IInv, SendInv
  <2>2. CASE c = isr /\ hw[isr].timer
    BY <1>6, <1>7, <1>9, <2>2 DEF IInv, SendInv
  <2> QED
    BY <2>1, <2>2
<1>15. TurnInv'
  <2> SUFFICES ASSUME at = "turn" PROVE TurnInv'
    BY <1>1 DEF TurnInv
  <2>1. channel \in Channels
    BY DEF IInv, KindsInv
  <2>2. CASE channel # isr \/ ~hw[isr].timer
    <3>1. info'[channel] = info[channel] /\ hw'[channel] = hw[channel]
      BY <1>6, <1>9, <2>1, <2>2
    <3> QED
      BY <1>1, <3>1 DEF IInv, TurnInv
  <2>3. CASE channel = isr /\ hw[isr].timer
    <3>1. ~turned
      BY <1>8, <2>3
    <3> QED
      BY <1>1, <1>6, <1>7, <1>9, <2>3, <3>1 DEF IInv, TurnInv
  <2> QED
    BY <2>2, <2>3
<1>16. AheadInv' /\ BootInv'
  <2> SUFFICES ASSUME NEW c \in Channels, hw'[c].mode = "out", Ahead(c)
               PROVE  /\ hw'[c].sending = <<>> /\ hw'[c].buf = <<>> /\ ~hw'[c].timer
                      /\ info'[c].state # "START"
    BY <1>1, <1>3 DEF AheadInv, Ahead, BootInv
  <2>1. hw[c].mode = "out"
    BY <1>8, <1>9
  <2>2. c # isr \/ ~hw[isr].timer
    BY <2>1 DEF IInv, AheadInv
  <2>3. info'[c] = info[c] /\ hw'[c] = hw[c]
    BY <1>6, <1>9, <2>2
  <2> QED
    BY <1>3, <2>1, <2>3 DEF IInv, AheadInv
<1>17. ArmedInv'
  <2>1. \A c \in Channels : hw'[c].mode = "out" /\ info'[c].state = "START" =>
          hw[c].mode = "out" /\ info[c].state = "START"
    BY <1>6, <1>7, <1>8, <1>9
  <2> QED
    BY <1>1, <1>10, <2>1 DEF IInv, ArmedInv
<1>18. AnswerInv'
  <2>1. \A c \in Channels : hw'[c].mode = "in" /\ hw'[c].buf # <<>> =>
          hw[c].mode = "in" /\ hw[c].buf = hw'[c].buf
    BY <1>9, <1>11
  <2> QED
    BY <1>1, <1>6, <2>1 DEF IInv, KindsInv, AnswerInv
<1>19. FetchInv'
  BY <1>1, <1>6 DEF IInv, KindsInv, FetchInv
<1> QED
  BY <1>12, <1>13, <1>14, <1>15, <1>16, <1>17, <1>18, <1>19 DEF IInv

-----------------------------------------------------------------------------
(* The fetch                                                               *)

\* A speed has a period it can be computed from, and comes out nearest to it.
LEMMA ErpmFacts ==
  ASSUME NEW word \in Words
  PROVE  Erpm(word) \in Int /\ Nearest(Erpm(word), word) /\ word # OutOfStep /\ word # BadCheck
<1>1. word # OutOfStep /\ word # BadCheck
  <2>1. word \in 0 .. 4095
    BY WordsAssumption DEF WordsAssumption
  <2>2. word <= 4095
    BY <2>1
  <2> QED
    BY <2>2 DEF OutOfStep, BadCheck
<1>2. CASE word = StopWord
  BY <1>1, <1>2 DEF Erpm, Nearest
<1>3. CASE word # StopWord
  <2> DEFINE p == Period(word)
  <2>1. p \in Nat /\ p >= 10
    BY <1>3, WordsAssumption DEF WordsAssumption
  <2>2. Erpm(word) = ((600000 + p \div 2) \div p) % 65536
    BY <1>3 DEF Erpm
  <2>3. Nearest(Erpm(word), word) <=>
          2 * (600000 - Erpm(word) * p) <= p /\ 2 * (600000 - Erpm(word) * p) >= 0 - p
    BY <1>3 DEF Nearest
  <2> HIDE DEF p
  <2>4. p \div 2 \in Nat /\ 2 * (p \div 2) <= p /\ p - 2 * (p \div 2) <= 1
    BY <2>1
  <2> DEFINE a == 600000 + p \div 2
             q == a \div p
  <2>5. a \in Nat /\ a = 600000 + p \div 2
    BY <2>4
  <2> HIDE DEF a
  <2>6. q \in Nat /\ a % p = a - p * q /\ a % p \in Nat /\ a % p < p
    BY <2>1, <2>5
  <2> HIDE DEF q
  <2>7. p * q = q * p
    BY <2>1, <2>6
  <2>8. 2 * (600000 - q * p) <= p /\ 2 * (600000 - q * p) >= 0 - p
    BY <2>1, <2>4, <2>5, <2>6, <2>7
  <2>9. q < 65536
    BY <2>1, <2>6, <2>8
  <2>10. Erpm(word) = q
    <3>1. Erpm(word) = q % 65536
      BY <2>2 DEF a, q
    <3> QED
      BY <2>6, <2>9, <3>1
  <2> QED
    BY <1>1, <2>3, <2>6, <2>8, <2>10
<1> QED
  BY <1>2, <1>3

\* What stays when the fetch takes a step.
LEMMA FetchKeeps ==
  ASSUME IInv, at = "idle",
         UNCHANGED <<bdshot, recvMask, isr, shifterIrq, timerIrq, at, channel, passes, hw, line, answers>>,
         info' \in [Channels -> Driver], parsedMask' \subseteq bdshot, fetch' \in 0 .. ChannelCount,
         \A c \in Channels : info'[c].state = info[c].state /\ info'[c].raw = info[c].raw,
         seen' \in Nat, seen' <= passes,
         seen' # 0 => fetch' \in bdshot /\ Among(answers, fetch', info[fetch'].raw, seen', passes)
  PROVE  IInv'
<1>1. KindsInv'
  BY DEF IInv, KindsInv
<1>2. ListenInv' /\ SendInv' /\ TurnInv' /\ AheadInv' /\ ArmedInv' /\ BootInv'
  BY DEF IInv, ListenInv, SendInv, TurnInv, AheadInv, Ahead, ArmedInv, BootInv
<1>3. AnswerInv'
  BY DEF IInv, KindsInv, AnswerInv
<1>4. FetchInv'
  BY DEF IInv, KindsInv, FetchInv
<1> QED
  BY <1>1, <1>2, <1>3, <1>4 DEF IInv

\* A fetch begins with the first channel, and what was decoded before is gone.
LEMMA FetchBeginInv == ASSUME IInv, FetchBegin PROVE IInv'
<1>1. /\ at = "idle" /\ fetch = 0 /\ parsedMask' = {} /\ fetch' = 1
      /\ UNCHANGED <<bdshot, info, recvMask, seen, isr, shifterIrq, timerIrq, at, channel, passes,
                     hw, line, answers>>
  BY DEF FetchBegin, FetchMayRun, handler, loop, history
<1>2. seen = 0 /\ passes \in Nat
  BY <1>1, ChannelFacts DEF IInv, KindsInv, FetchInv
<1>3. fetch' \in 0 .. ChannelCount
  BY <1>1, ChannelFacts
<1>4. info' \in [Channels -> Driver]
  BY <1>1 DEF IInv, KindsInv
<1> QED
  BY <1>1, <1>2, <1>3, <1>4, FetchKeeps

\* The next channel of a fetch, or none.
LEMMA NextFetchedFacts ==
  ASSUME IInv, NextFetched
  PROVE  fetch' \in 0 .. ChannelCount /\ seen' = 0
BY ChannelFacts DEF NextFetched, IInv, KindsInv

\* What a fetch finds received answers the packet of this pass.
LEMMA FetchCheckInv == ASSUME IInv, FetchCheck PROVE IInv'
<1>1. /\ at = "idle" /\ fetch # 0
      /\ IF fetch \in recvMask THEN seen' = passes /\ UNCHANGED fetch ELSE NextFetched
      /\ UNCHANGED <<bdshot, info, recvMask, parsedMask, isr, shifterIrq, timerIrq, at, channel,
                     passes, hw, line, answers>>
  BY DEF FetchCheck, FetchMayRun, handler, loop, history
<1>2. /\ info' \in [Channels -> Driver] /\ passes \in Nat /\ parsedMask' \subseteq bdshot
      /\ fetch \in 0 .. ChannelCount /\ recvMask \subseteq bdshot
  BY <1>1 DEF IInv, KindsInv
<1>3. CASE fetch \in recvMask
  <2>1. Among(answers, fetch, info[fetch].raw, passes, passes)
    BY <1>1, <1>3 DEF IInv, AnswerInv
  <2> QED
    BY <1>1, <1>2, <1>3, <2>1, FetchKeeps
<1>4. CASE fetch \notin recvMask
  <2>1. fetch' \in 0 .. ChannelCount /\ seen' = 0
    BY <1>1, <1>4, NextFetchedFacts
  <2> QED
    BY <1>1, <1>2, <2>1, FetchKeeps
<1> QED
  BY <1>3, <1>4

\* What a fetch decodes was answered on its channel since it looked.
LEMMA DecodeFacts ==
  ASSUME IInv, FetchDecode
  PROVE  /\ fetch \in bdshot /\ fetch \in Channels
         /\ \E a \in answers : /\ a.channel = fetch /\ a.pass \in seen .. passes
                               /\ a.answer = info[fetch].raw[1]
         /\ info[fetch].raw[1] \in Answers
<1>1. seen # 0 /\ seen \in Nat /\ passes \in Nat
  BY DEF FetchDecode, IInv, KindsInv, FetchInv
<1>2. fetch \in bdshot /\ fetch \in Channels
  BY <1>1 DEF IInv, KindsInv, FetchInv
<1>3. PICK a \in answers : /\ a.channel = fetch /\ info[fetch].raw = <<a.answer>>
                           /\ a.pass \in Int /\ seen <= a.pass /\ a.pass <= passes
  BY <1>1 DEF IInv, FetchInv, Among
<1>4. info[fetch].raw[1] = a.answer
  BY <1>3
<1>5. info[fetch].raw[1] \in Answers
  <2>1. info[fetch].raw \in Heard \cup {<<>>}
    BY <1>2, Fields DEF IInv
  <2>2. <<a.answer>> # <<>>
    OBVIOUS
  <2>3. info[fetch].raw \in Heard
    BY <1>3, <2>1, <2>2
  <2> QED
    BY <2>3 DEF Heard
<1> QED
  BY <1>1, <1>2, <1>3, <1>4, <1>5

\* A fetch decodes what it saw, or what came in over it since.
LEMMA FetchDecodeInv == ASSUME IInv, FetchDecode PROVE IInv'
<1> DEFINE answer == info[fetch].raw[1]
<1>1. /\ at = "idle" /\ NextFetched
      /\ info' = [info EXCEPT ![fetch] = Decoded(@, answer)]
      /\ parsedMask' = IF answer \in Words THEN parsedMask \cup {fetch} ELSE parsedMask
      /\ UNCHANGED <<bdshot, recvMask, isr, shifterIrq, timerIrq, at, channel, passes, hw, line,
                     answers>>
  BY DEF FetchDecode, FetchMayRun, handler, loop, history
<1>2. fetch \in Channels /\ fetch \in bdshot /\ answer \in Answers
  BY DecodeFacts
<1> HIDE DEF answer
<1>3. /\ info \in [Channels -> Driver] /\ info[fetch] \in Driver /\ passes \in Nat
      /\ parsedMask \subseteq bdshot
  BY <1>2 DEF IInv, KindsInv
<1>4. /\ Decoded(info[fetch], answer) \in Driver
      /\ Decoded(info[fetch], answer).state = info[fetch].state
      /\ Decoded(info[fetch], answer).raw = info[fetch].raw
  <2>1. CASE answer = OutOfStep
    <3>1. Decoded(info[fetch], answer) = [info[fetch] EXCEPT !.frameErrors = @ + 1]
      BY <2>1 DEF Decoded
    <3>2. info[fetch].frameErrors + 1 \in Nat
      BY <1>3 DEF Driver
    <3> QED
      BY <1>3, <3>1, <3>2 DEF Driver
  <2>2. CASE answer = BadCheck
    <3>1. Decoded(info[fetch], answer) = [info[fetch] EXCEPT !.crcErrors = @ + 1]
      BY <2>2 DEF Decoded, OutOfStep, BadCheck
    <3>2. info[fetch].crcErrors + 1 \in Nat
      BY <1>3 DEF Driver
    <3> QED
      BY <1>3, <3>1, <3>2 DEF Driver
  <2>3. CASE answer # BadCheck /\ answer # OutOfStep
    <3>1. Erpm(answer) \in Int
      BY <1>2, <2>3, ErpmFacts DEF Answers
    <3> QED
      BY <1>3, <2>3, <3>1 DEF Decoded, Driver
  <2> QED
    BY <2>1, <2>2, <2>3
<1>5. /\ info' \in [Channels -> Driver]
      /\ \A c \in Channels : info'[c].state = info[c].state /\ info'[c].raw = info[c].raw
  BY <1>1, <1>2, <1>3, <1>4
<1>6. parsedMask' \subseteq bdshot
  BY <1>1, <1>2, <1>3
<1>7. fetch' \in 0 .. ChannelCount /\ seen' = 0
  BY <1>1, NextFetchedFacts
<1> QED
  BY <1>1, <1>3, <1>5, <1>6, <1>7, FetchKeeps

-----------------------------------------------------------------------------
(* Theorems                                                                *)

\* Before the first pass nothing is sent, heard or enabled.
LEMMA InitInv == ASSUME Init PROVE IInv
<1>1. /\ bdshot \subseteq Channels
      /\ recvMask = {} /\ parsedMask = {} /\ fetch = 0 /\ seen = 0
      /\ at = "idle" /\ channel = 1 /\ isr = 0 /\ shifterIrq = {} /\ timerIrq = {}
      /\ hw = [c \in Channels |-> Configured("out")] /\ line = [c \in Channels |-> <<>>]
      /\ passes = 0
  BY DEF Init
<1>2. info \in [Channels -> Driver] /\ \A c \in Channels : info[c].state = "START"
  <2>1. Zeros \in Thirds
    BY DEF Thirds
  <2> QED
    BY <2>1 DEF Init, Driver, States
<1>3. /\ hw \in [Channels -> Unit]
      /\ \A c \in Channels : /\ hw[c].mode = "out" /\ hw[c].sending = <<>> /\ hw[c].buf = <<>>
                             /\ ~hw[c].timer
  BY <1>1 DEF Configured, Unit
<1>4. MaxPasses \in Nat
  BY BoundsAssumption DEF BoundsAssumption
<1>5. line \in [Channels -> Seq(Third)]
  <2>1. <<>> \in Seq(Third)
    BY EmptySeq
  <2> QED
    BY <1>1, <2>1
<1>6. KindsInv
  BY <1>1, <1>2, <1>3, <1>4, <1>5, ChannelFacts DEF KindsInv
<1>7. ListenInv /\ SendInv /\ TurnInv /\ AheadInv /\ BootInv
  BY <1>1, <1>2, <1>3 DEF ListenInv, SendInv, TurnInv, AheadInv, Ahead, BootInv
<1>8. ArmedInv
  BY <1>1, ChannelFacts DEF ArmedInv
<1>9. AnswerInv /\ FetchInv
  BY <1>1, <1>3 DEF AnswerInv, FetchInv
<1> QED
  BY <1>6, <1>7, <1>8, <1>9 DEF IInv

\* No step of loop, interrupt, fetch or hardware breaks the invariant.
LEMMA NextInv == ASSUME IInv, [Next]_vars PROVE IInv'
<1>1. CASE UNCHANGED vars
  BY <1>1 DEF vars, IInv, KindsInv, ListenInv, SendInv, TurnInv, AheadInv, Ahead, ArmedInv, BootInv,
              AnswerInv, FetchInv
<1>2. CASE Begin
  BY <1>2, BeginInv
<1>3. CASE Loop
  BY <1>3, SetPacketInv, TurnBackInv, TriggerPutInv, TriggerArmInv DEF Loop
<1>4. CASE Interrupt
  BY <1>4, ServeShiftersInv, ServeTimerInv DEF Interrupt
<1>5. CASE SampleFetch
  BY <1>5, FetchBeginInv, FetchCheckInv, FetchDecodeInv DEF SampleFetch
<1>6. CASE \E c \in Channels : HalfSent(c) \/ \E answer \in Answers : Response(c, answer)
  BY <1>6, HalfSentInv, ResponseInv
<1> QED
  BY <1>1, <1>2, <1>3, <1>4, <1>5, <1>6 DEF Next

\* The strengthened invariant: which lines listen, which hardware holds what,
\* and whose answer is where, at every step of loop, interrupt and hardware.
THEOREM Inductive == Spec => []IInv
<1>1. Init => IInv
  BY InitInv
<1>2. IInv /\ [Next]_vars => IInv'
  BY NextInv
<1> QED
  BY <1>1, <1>2, PTL DEF Spec

\* Only a bidirectional channel listens or has an answer, what is on its way
\* is a half of a packet the driver made, and the handler looks at a channel
\* there is.
THEOREM TypeCorrect == Spec => []TypeOK
<1>1. IInv => TypeOK
  <2> SUFFICES ASSUME IInv PROVE TypeOK
    OBVIOUS
  <2>1. seen \in 0 .. passes
    BY DEF IInv, KindsInv, FetchInv
  <2>2. ASSUME NEW c \in Channels
        PROVE  /\ info[c].state \in States
               /\ info[c].state \in {"RECEIVE", "RECEIVE_COMPLETE"} \/ hw[c].mode = "in" => c \in bdshot
               /\ {info[c].seg1, info[c].irqData} \subseteq Halves \cup {Zeros}
               /\ hw[c].sending \in Halves \cup {Zeros, <<>>}
               /\ c \in recvMask => info[c].raw # <<>>
    <3>1. info[c].state \in {"RECEIVE", "RECEIVE_COMPLETE"} \/ hw[c].mode = "in" => c \in bdshot
      BY Fields DEF IInv, SendInv, ListenInv
    <3>2. c \in recvMask => info[c].raw # <<>>
      BY SMTT(30) DEF IInv, AnswerInv, Among
    <3> QED
      BY <3>1, <3>2, Fields DEF IInv, Thirds
  <2>3. shifterIrq \subseteq Channels /\ timerIrq \subseteq Channels
    BY DEF IInv, KindsInv
  <2> QED
    BY <2>1, <2>2, <2>3 DEF IInv, KindsInv, TypeOK
<1> QED
  BY <1>1, Inductive, PTL

\* A speed decoded is the nearest to a period the channel's motor controller
\* answered since the fetch saw its answer: never one of an earlier pass, of
\* another channel, or broken, whatever comes in between.
THEOREM SpeedOfThisPass == Spec => ErpmOfThisPass
<1>1. ASSUME IInv, [Next]_vars, NEW c \in parsedMask' \ parsedMask
      PROVE  \E a \in answers : /\ a.channel = c /\ a.pass \in seen .. passes /\ a.answer \in Words
                                /\ Nearest(info'[c].erpm, a.answer)
  <2>1. FetchDecode
    <3>1. ~(UNCHANGED parsedMask) /\ parsedMask' # {}
      BY <1>1
    <3>2. ~(UNCHANGED vars) /\ ~Begin /\ ~Loop /\ ~Interrupt
      BY <3>1 DEF vars, Begin, Loop, SetPacket, TurnBack, TriggerPut, TriggerArm, Interrupt,
                  ServeShifters, ServeTimer, fixed
    <3>3. ~FetchBegin /\ ~FetchCheck
      BY <3>1 DEF FetchBegin, FetchCheck
    <3>4. ~(\E d \in Channels : HalfSent(d) \/ \E answer \in Answers : Response(d, answer))
      BY <3>1 DEF HalfSent, Response, fixed
    <3> QED
      BY <1>1, <3>2, <3>3, <3>4 DEF Next, SampleFetch
  <2> DEFINE answer == info[fetch].raw[1]
  <2>2. /\ info' = [info EXCEPT ![fetch] = Decoded(@, answer)]
        /\ parsedMask' = IF answer \in Words THEN parsedMask \cup {fetch} ELSE parsedMask
    BY <2>1 DEF FetchDecode
  <2>3. PICK a \in answers : a.channel = fetch /\ a.pass \in seen .. passes /\ a.answer = answer
    BY <1>1, <2>1, DecodeFacts
  <2>4. fetch \in Channels /\ info \in [Channels -> Driver] /\ info[fetch] \in Driver
    BY <1>1, <2>1, DecodeFacts DEF IInv, KindsInv
  <2> HIDE DEF answer
  <2>5. c = fetch /\ answer \in Words
    BY <1>1, <2>2
  <2>6. info'[fetch] = Decoded(info[fetch], answer)
    BY <2>2, <2>4
  <2>7. info'[fetch].erpm = Erpm(answer)
    BY <2>4, <2>5, <2>6, ErpmFacts DEF Decoded, Driver
  <2> QED
    BY <2>3, <2>5, <2>7, ErpmFacts
<1>2. IInv /\ [Next]_vars =>
        [\A c \in parsedMask' \ parsedMask :
           \E a \in answers :
             /\ a.channel = c /\ a.pass \in seen .. passes /\ a.answer \in Words
             /\ Nearest(info'[c].erpm, a.answer)]_vars
  BY <1>1
<1> QED
  BY <1>2, Inductive, PTL DEF Spec, ErpmOfThisPass

-----------------------------------------------------------------------------
(* Packets on the lines                                                    *)

First(c) == FirstHalf(Packet(wanted[c], 0, Bidirectional(c)))
Second(c) == SecondHalf(Packet(wanted[c], 0, Bidirectional(c)))
Written(c) ==
  info[c].seg1 = First(c) /\ info[c].irqData = Second(c) /\ wanted[c] \in Throttles
Holds(c, sending, buf, timer) ==
  hw[c].mode = "out" /\ hw[c].sending = sending /\ hw[c].buf = buf /\ hw[c].timer = timer

\* while the loop sets up a pass nothing moves: what it has written and put
\* is there, and no line carries anything yet
Passed(c) == at \in {"put", "arm"} \/ c < channel
Filled(c) == IF at = "arm" \/ (at = "put" /\ c < channel) THEN First(c) ELSE <<>>
SetUp(c) ==
  /\ line[c] = <<>> /\ ~hw[c].timer
  /\ Passed(c) => hw[c].mode = "out"
  /\ Passed(c) \/ (at = "turn" /\ c = channel) => Written(c) /\ info[c].state = "START"
  /\ hw[c].mode = "out" => Holds(c, Filled(c), <<>>, FALSE)
SetUpInv ==
  at # "idle" /\ passes \notin disturbed => Undisturbed /\ \A c \in Channels : SetUp(c)

\* then a line has what its shifter and the driver no longer have
Stage(c) ==
  \/ info[c].state = "START" /\ line[c] = <<>> /\ Holds(c, First(c), <<>>, FALSE)
  \/ info[c].state = "12BIT_FIFO" /\ line[c] = <<>> /\ Holds(c, First(c), Second(c), FALSE)
  \/ info[c].state = "12BIT_FIFO" /\ line[c] = First(c) /\ Holds(c, Second(c), <<>>, TRUE)
  \/ info[c].state = "12BIT_TRANSFERRED" /\ line[c] = First(c) /\ Holds(c, Second(c), <<>>, FALSE)
  \/ /\ info[c].state = "12BIT_TRANSFERRED" /\ line[c] = First(c) \o Second(c)
     /\ Holds(c, <<>>, <<>>, TRUE)
  \/ /\ info[c].state \in {"TRANSMIT_COMPLETE", "RECEIVE", "RECEIVE_COMPLETE"}
     /\ line[c] = First(c) \o Second(c)
     /\ hw[c].mode = "out" => Holds(c, <<>>, <<>>, FALSE)
SentInv ==
  at = "idle" /\ passes > 0 =>
    /\ timerIrq = Channels
    /\ passes \notin disturbed => \A c \in Channels : Written(c) /\ Stage(c)

WholeInv == wanted \in [Channels -> Throttles \cup {0}] /\ SetUpInv /\ SentInv

\* A half is no word of nothing, and the first no word of zeros.
LEMMA HalfFacts ==
  ASSUME KindsInv, NEW c \in Channels, wanted[c] \in Throttles
  PROVE  /\ First(c) \in Seq(Digit) /\ Second(c) \in Seq(Digit)
         /\ First(c) # <<>> /\ Second(c) # <<>> /\ First(c) # Zeros
         /\ Taken(First(c) \o Second(c), Bidirectional(c)) = <<wanted[c]>>
<1>1. wanted[c] \in Speeds /\ Bidirectional(c) \in {0, 1}
  <2>1. Throttles \subseteq Speeds
    BY ThrottlesAssumption DEF ThrottlesAssumption, Speeds
  <2>2. Bidirectional(c) \in {0, 1}
    BY DEF Bidirectional
  <2> QED
    BY <2>1, <2>2
<1>2. /\ First(c) \in Seq(Digit) /\ Second(c) \in Seq(Digit)
      /\ Len(First(c)) = 24 /\ Len(Second(c)) = 24 /\ First(c)[1] = 1
  BY <1>1, WholeFacts, Zenon DEF First, Second
<1>3. Taken(First(c) \o Second(c), Bidirectional(c)) = <<wanted[c]>>
  BY <1>1, WholeFacts, TakenFacts, Zenon DEF First, Second
<1>4. First(c) # <<>> /\ Second(c) # <<>>
  <2>1. Len(<<>>) = 0 /\ 24 # 0
    OBVIOUS
  <2> QED
    BY <1>2, <2>1, Zenon
<1>5. First(c) # Zeros
  BY <1>2 DEF Zeros
<1> QED
  BY <1>2, <1>3, <1>4, <1>5

\* What a channel's stage rests on.
LEMMA StageKept ==
  ASSUME NEW c \in Channels, wanted'[c] = wanted[c], UNCHANGED bdshot,
         info'[c].seg1 = info[c].seg1, info'[c].irqData = info[c].irqData
  PROVE  /\ First(c)' = First(c) /\ Second(c)' = Second(c)
         /\ Written(c) => Written(c)'
         /\ Stage(c) /\ info'[c].state = info[c].state /\ hw'[c] = hw[c] /\ line'[c] = line[c]
              => Stage(c)'
<1>1. First(c)' = First(c) /\ Second(c)' = Second(c)
  BY DEF First, Second, Bidirectional
<1>2. Written(c) => Written(c)'
  BY <1>1 DEF Written
<1>3. Stage(c) /\ info'[c].state = info[c].state /\ hw'[c] = hw[c] /\ line'[c] = line[c] => Stage(c)'
  BY <1>1, Zenon DEF Stage, Holds
<1> QED
  BY <1>1, <1>2, <1>3

\* A half goes out in its turn, or the pass is disturbed.
LEMMA HalfSentWhole == ASSUME IInv, WholeInv, NEW c \in Channels, HalfSent(c) PROVE WholeInv'
<1>1. /\ UNCHANGED <<bdshot, info, isr, shifterIrq, timerIrq, at, channel, passes, wanted>>
      /\ hw[c].sending # <<>>
      /\ hw' = [hw EXCEPT ![c].sending = hw[c].buf, ![c].buf = <<>>, ![c].timer = TRUE]
      /\ line' = [line EXCEPT ![c] = @ \o hw[c].sending]
      /\ Disturb(at # "idle" \/ hw[c].timer \/ (c \in shifterIrq /\ ShifterFlag(c)))
  BY DEF HalfSent, fixed, handler, loop
<1>2. SetUpInv'
  BY <1>1 DEF SetUpInv, Disturb
<1>3. SentInv'
  <2> SUFFICES ASSUME at = "idle", passes > 0, passes \notin disturbed'
               PROVE  \A d \in Channels : Written(d)' /\ Stage(d)'
    BY <1>1 DEF WholeInv, SentInv
  <2>1. ~hw[c].timer /\ ~(c \in shifterIrq /\ ShifterFlag(c)) /\ passes \notin disturbed
    BY <1>1 DEF Disturb
  <2>2. timerIrq = Channels /\ \A d \in Channels : Written(d) /\ Stage(d)
    BY <2>1 DEF WholeInv, SentInv
  <2>3. hw[c].mode = "out"
    BY <1>1, Fields DEF IInv, ListenInv
  <2>4. ASSUME NEW d \in Channels, d # c PROVE Written(d)' /\ Stage(d)'
    <3>1. hw'[d] = hw[d] /\ line'[d] = line[d]
      BY <1>1, <2>4 DEF IInv, KindsInv
    <3> QED
      BY <1>1, <2>2, <3>1, StageKept
  <2>5. /\ hw'[c].mode = "out" /\ hw'[c].sending = hw[c].buf /\ hw'[c].buf = <<>> /\ hw'[c].timer = TRUE
        /\ line'[c] = line[c] \o hw[c].sending
    BY <1>1, <2>3 DEF IInv, KindsInv, Unit
  <2>6. /\ First(c)' = First(c) /\ Second(c)' = Second(c) /\ Written(c)'
        /\ First(c) \in Seq(Digit) /\ info'[c].state = info[c].state
    BY <1>1, <2>2, StageKept, HalfFacts DEF Written, IInv
  <2>7. info[c].state # "START"
    <3>1. info[c].state = "START" => c \in shifterIrq /\ hw[c].buf = <<>>
      BY <2>2, <2>3 DEF IInv, ArmedInv, Stage, Holds
    <3> QED
      BY <2>1, <2>3, <3>1 DEF ShifterFlag
  <2>8. \/ info[c].state = "12BIT_FIFO" /\ line[c] = <<>> /\ Holds(c, First(c), Second(c), FALSE)
        \/ info[c].state = "12BIT_TRANSFERRED" /\ line[c] = First(c) /\ Holds(c, Second(c), <<>>, FALSE)
    BY <1>1, <2>1, <2>2, <2>3, <2>7 DEF Stage, Holds
  <2>9. Stage(c)'
    <3>1. CASE info[c].state = "12BIT_FIFO" /\ line[c] = <<>> /\ Holds(c, First(c), Second(c), FALSE)
      <4>1. line'[c] = First(c)
        BY <2>5, <2>6, <3>1, ConcatEmptySeq DEF Holds
      <4> QED
        BY <2>5, <2>6, <3>1, <4>1 DEF Stage, Holds
    <3>2. CASE info[c].state = "12BIT_TRANSFERRED" /\ line[c] = First(c) /\ Holds(c, Second(c), <<>>, FALSE)
      BY <2>5, <2>6, <3>2 DEF Stage, Holds
    <3> QED
      BY <2>8, <3>1, <3>2
  <2> QED
    BY <2>4, <2>6, <2>9
<1> QED
  BY <1>1, <1>2, <1>3 DEF WholeInv

\* An answer comes after its packet, or the pass is disturbed.
LEMMA ResponseWhole ==
  ASSUME IInv, WholeInv, NEW c \in Channels, NEW answer \in Answers, Response(c, answer)
  PROVE  WholeInv'
<1>1. /\ UNCHANGED <<bdshot, info, isr, shifterIrq, timerIrq, at, channel, passes, wanted, line>>
      /\ hw[c].mode = "in"
      /\ hw' = [hw EXCEPT ![c].buf = <<answer>>, ![c].timer = TRUE, ![c].heard = TRUE]
      /\ Disturb(line[c] = <<>>)
  BY DEF Response, fixed, handler, loop
<1>2. SetUpInv'
  <2>1. at # "idle" /\ passes \notin disturbed => line[c] = <<>>
    BY DEF WholeInv, SetUpInv, SetUp
  <2> QED
    BY <1>1, <2>1 DEF SetUpInv, Disturb
<1>3. SentInv'
  <2> SUFFICES ASSUME at = "idle", passes > 0, passes \notin disturbed'
               PROVE  \A d \in Channels : Written(d)' /\ Stage(d)'
    BY <1>1 DEF WholeInv, SentInv
  <2>1. \A d \in Channels : Written(d) /\ Stage(d)
    BY <1>1 DEF WholeInv, SentInv, Disturb
  <2>2. ASSUME NEW d \in Channels, d # c PROVE Written(d)' /\ Stage(d)'
    <3>1. hw'[d] = hw[d]
      BY <1>1, <2>2 DEF IInv, KindsInv
    <3> QED
      BY <1>1, <2>1, <3>1, StageKept
  <2>3. hw'[c].mode = "in"
    BY <1>1 DEF IInv, KindsInv, Unit
  <2>4. /\ info[c].state \in {"TRANSMIT_COMPLETE", "RECEIVE", "RECEIVE_COMPLETE"}
        /\ line[c] = First(c) \o Second(c)
    BY <1>1, <2>1 DEF Stage, Holds
  <2>5. First(c)' = First(c) /\ Second(c)' = Second(c) /\ Written(c)'
    BY <1>1, <2>1, StageKept
  <2>6. Stage(c)'
    BY <1>1, <2>3, <2>4, <2>5 DEF Stage
  <2> QED
    BY <2>2, <2>5, <2>6
<1> QED
  BY <1>1, <1>2, <1>3 DEF WholeInv

\* A pass begins with every line silent.
LEMMA BeginWhole == ASSUME IInv, WholeInv, Begin PROVE WholeInv'
<1>1. /\ at = "idle" /\ Quiet /\ at' = "set" /\ channel' = 1
      /\ line' = [c \in Channels |-> <<>>]
      /\ UNCHANGED <<bdshot, info, isr, shifterIrq, timerIrq, hw, wanted>>
  BY DEF Begin, fixed, handler
<1>2. Undisturbed'
  BY <1>1 DEF Quiet, Undisturbed, Pending, ShifterFlag
<1>3. ASSUME NEW c \in Channels PROVE SetUp(c)'
  <2>1. ~hw[c].timer /\ (hw[c].mode = "out" => hw[c].sending = <<>> /\ hw[c].buf = <<>>)
    BY <1>1, QuietFacts
  <2>2. ~Passed(c)' /\ Filled(c)' = <<>> /\ hw[c].timer \in BOOLEAN
    BY <1>1, ChannelFacts, Fields DEF Passed, Filled, IInv
  <2> QED
    BY <1>1, <2>1, <2>2 DEF SetUp, Holds
<1> QED
  BY <1>1, <1>2, <1>3 DEF WholeInv, SetUpInv, SentInv

\* The loop writes a packet beside those it has written.
LEMMA SetPacketWhole ==
  ASSUME IInv, WholeInv, NEW throttle \in Throttles, SetPacket(throttle)
  PROVE  WholeInv'
<1> DEFINE first == FirstHalf(Packet(throttle, 0, Bidirectional(channel)))
           second == SecondHalf(Packet(throttle, 0, Bidirectional(channel)))
<1>1. /\ at = "set" /\ Undisturbed
      /\ UNCHANGED <<bdshot, isr, shifterIrq, timerIrq, hw, line, passes, disturbed>>
      /\ info' = [info EXCEPT ![channel].seg1 = first, ![channel].irqData = second,
                              ![channel].state = "START"]
      /\ wanted' = [wanted EXCEPT ![channel] = throttle]
      /\ \/ channel \in bdshot /\ at' = "turn" /\ channel' = channel
         \/ channel \notin bdshot /\ NextChannel
  BY DEF SetPacket, InStep, DataSet, fixed, handler, history
<1>2. channel \in Channels /\ info \in [Channels -> Driver] /\ wanted \in [Channels -> Throttles \cup {0}]
  BY DEF IInv, KindsInv, WholeInv
<1> HIDE DEF first, second
<1>3. /\ info'[channel].seg1 = first /\ info'[channel].irqData = second /\ info'[channel].state = "START"
      /\ wanted'[channel] = throttle
      /\ \A c \in Channels : c # channel => info'[c] = info[c] /\ wanted'[c] = wanted[c]
  <2>1. info[channel] \in Driver
    BY <1>2
  <2> DEFINE u == [info[channel] EXCEPT !.seg1 = first, !.irqData = second, !.state = "START"]
  <2>2. u.seg1 = first /\ u.irqData = second /\ u.state = "START"
    BY <2>1 DEF Driver
  <2>3. info' = [info EXCEPT ![channel] = u]
    BY <1>1, <1>2
  <2> HIDE DEF u
  <2> QED
    BY <1>1, <1>2, <2>2, <2>3
<1>4. Undisturbed'
  BY <1>1 DEF Undisturbed, Pending, ShifterFlag
<1>5. /\ at' \in {"set", "turn", "put"}
      /\ at' = "turn" => channel \in bdshot /\ channel' = channel
      /\ at' = "set" => channel \notin bdshot /\ channel' = channel + 1
      /\ at' = "put" => channel \notin bdshot /\ channel' = 1 /\ \A c \in Channels : c <= channel
  <2>1. channel \notin bdshot => at' \in {"set", "put"} /\ (at' = "put" => channel' = 1)
    BY <1>1 DEF NextChannel
  <2> QED
    BY <1>1, <2>1, NextChannelFacts
<1>6. ASSUME passes \notin disturbed, NEW c \in Channels PROVE SetUp(c)'
  <2>1. SetUp(c)
    BY <1>1, <1>6 DEF WholeInv, SetUpInv
  <2>2. /\ line'[c] = <<>> /\ ~hw'[c].timer
        /\ hw[c].mode = "out" => Holds(c, <<>>, <<>>, FALSE)
    BY <1>1, <2>1 DEF SetUp, Filled
  <2>3. Filled(c)' = <<>>
    BY <1>5, ChannelFacts DEF Filled
  <2>4. hw[c].mode = "out" => Holds(c, <<>>, <<>>, FALSE)'
    BY <1>1, <2>2 DEF Holds
  <2>5. Passed(c)' => (c = channel /\ c \notin bdshot) \/ Passed(c)
    BY <1>1, <1>2, <1>5, ChannelFacts DEF Passed
  <2>6. Passed(c)' => hw'[c].mode = "out"
    <3>1. c \notin bdshot => hw[c].mode = "out"
      BY Fields DEF IInv, ListenInv
    <3> QED
      BY <1>1, <2>1, <2>5, <3>1 DEF SetUp
  <2>7. Passed(c)' \/ (at' = "turn" /\ c = channel') => Written(c)' /\ info'[c].state = "START"
    <3>1. CASE c = channel
      <4>1. First(c)' = first /\ Second(c)' = second
        BY <1>1, <1>3, <3>1 DEF First, Second, Bidirectional, first, second
      <4> QED
        BY <1>3, <3>1, <4>1 DEF Written
    <3>2. CASE c # channel
      <4>1. info'[c] = info[c] /\ wanted'[c] = wanted[c]
        BY <1>3, <3>2
      <4>2. Written(c) => Written(c)'
        BY <1>1, <4>1, StageKept
      <4> QED
        BY <1>5, <2>1, <2>5, <3>2, <4>1, <4>2 DEF SetUp
    <3> QED
      BY <3>1, <3>2
  <2> QED
    BY <1>1, <2>2, <2>3, <2>4, <2>6, <2>7 DEF SetUp
<1>7. wanted' \in [Channels -> Throttles \cup {0}]
  BY <1>1, <1>2
<1> QED
  BY <1>1, <1>4, <1>5, <1>6, <1>7 DEF WholeInv, SetUpInv, SentInv

\* Turned around again, a line that listened is as silent as the others.
LEMMA TurnBackWhole == ASSUME IInv, WholeInv, TurnBack PROVE WholeInv'
<1>1. /\ at = "turn" /\ Undisturbed /\ NextChannel /\ shifterIrq' = {}
      /\ hw' = [TimersCleared EXCEPT ![channel] = Configured("out")]
      /\ UNCHANGED <<bdshot, info, isr, timerIrq, line, passes, wanted, disturbed>>
  BY DEF TurnBack, InStep, fixed, history
<1>2. channel \in Channels
  BY DEF IInv, KindsInv
<1>3. /\ \A d \in Channels : /\ hw'[d].timer = FALSE
                             /\ d # channel => /\ hw'[d].mode = hw[d].mode
                                               /\ hw'[d].sending = hw[d].sending
                                               /\ hw'[d].buf = hw[d].buf
      /\ hw'[channel].mode = "out" /\ hw'[channel].sending = <<>> /\ hw'[channel].buf = <<>>
  <2>1. /\ TimersCleared \in [Channels -> Unit]
        /\ \A d \in Channels : TimersCleared[d].timer = FALSE
    BY ClearedFacts DEF IInv, Unit
  <2>2. /\ Configured("out").mode = "out" /\ Configured("out").timer = FALSE
        /\ Configured("out").sending = <<>> /\ Configured("out").buf = <<>>
    BY DEF Configured
  <2>3. \A d \in Channels : d # channel => hw'[d] = TimersCleared[d]
    BY <1>1, <1>2, <2>1
  <2>4. hw'[channel] = Configured("out")
    BY <1>1, <1>2, <2>1
  <2> QED
    BY <2>1, <2>2, <2>3, <2>4, ClearedFacts DEF IInv
<1>4. Undisturbed'
  BY <1>1, <1>3, Fields DEF Undisturbed, Pending, IInv, KindsInv
<1>5. /\ at' \in {"set", "put"}
      /\ at' = "set" => channel' = channel + 1
      /\ at' = "put" => channel' = 1 /\ \A c \in Channels : c <= channel
  <2>1. at' = "put" => channel' = 1
    BY <1>1 DEF NextChannel
  <2> QED
    BY <1>1, <2>1, NextChannelFacts
<1>6. ASSUME passes \notin disturbed, NEW c \in Channels PROVE SetUp(c)'
  <2>1. SetUp(c)
    BY <1>1, <1>6 DEF WholeInv, SetUpInv
  <2>2. Passed(c)' => c = channel \/ Passed(c)
    BY <1>1, <1>2, <1>5, ChannelFacts DEF Passed
  <2>3. Filled(c)' = <<>>
    BY <1>5, ChannelFacts DEF Filled
  <2>4. hw[c].mode = "out" => hw[c].sending = <<>> /\ hw[c].buf = <<>>
    BY <1>1, <2>1 DEF SetUp, Holds, Filled
  <2>5. hw'[c].mode = "out" => Holds(c, <<>>, <<>>, FALSE)'
    BY <1>2, <1>3, <2>4 DEF Holds
  <2>6. Passed(c)' => hw'[c].mode = "out"
    BY <1>3, <2>1, <2>2 DEF SetUp
  <2>7. Passed(c)' => Written(c)' /\ info'[c].state = "START"
    BY <1>1, <2>1, <2>2, StageKept DEF SetUp
  <2> QED
    BY <1>1, <1>3, <1>5, <2>1, <2>3, <2>5, <2>6, <2>7 DEF SetUp
<1> QED
  BY <1>1, <1>4, <1>5, <1>6 DEF WholeInv, SetUpInv, SentInv

\* The first half of a channel goes where it is sent from.
LEMMA TriggerPutWhole == ASSUME IInv, WholeInv, TriggerPut PROVE WholeInv'
<1> DEFINE former == IF channel = 1 THEN TimersCleared ELSE hw
           unit == IF info[channel].seg1 = Zeros THEN former[channel]
                   ELSE Put(former[channel], info[channel].seg1)
           n == info[channel].noResponse + IF Silent(channel) THEN 1 ELSE 0
<1>1. /\ at = "put" /\ Undisturbed
      /\ info' = [info EXCEPT ![channel].noResponse = n]
      /\ hw' = [former EXCEPT ![channel] = unit]
      /\ \/ channel < ChannelCount /\ channel' = channel + 1 /\ at' = "put"
         \/ channel >= ChannelCount /\ at' = "arm" /\ channel' = channel
      /\ UNCHANGED <<bdshot, isr, shifterIrq, timerIrq, passes, wanted, line, disturbed>>
  BY ChannelFacts DEF TriggerPut, InStep, fixed, handler, history, IInv, KindsInv
<1>2. channel \in Channels
  BY DEF IInv, KindsInv
<1>3. \A d \in Channels : /\ info'[d].state = info[d].state
                          /\ info'[d].seg1 = info[d].seg1 /\ info'[d].irqData = info[d].irqData
  <2>1. info \in [Channels -> Driver]
    BY DEF IInv, KindsInv
  <2> HIDE DEF n
  <2> QED
    BY <1>1, <1>2, <2>1 DEF Driver
<1>4. SetUpInv'
  <2> SUFFICES ASSUME passes \notin disturbed PROVE Undisturbed' /\ \A c \in Channels : SetUp(c)'
    BY <1>1 DEF SetUpInv
  <2>1. \A c \in Channels : SetUp(c)
    BY <1>1 DEF WholeInv, SetUpInv
  <2>2. \A c \in Channels : /\ Holds(c, Filled(c), <<>>, FALSE) /\ Written(c)
                            /\ info[c].state = "START" /\ line[c] = <<>>
    BY <1>1, <2>1 DEF SetUp, Passed
  <2>3. /\ former \in [Channels -> Unit]
        /\ \A d \in Channels : /\ former[d].mode = "out" /\ former[d].sending = Filled(d)
                               /\ former[d].buf = <<>> /\ former[d].timer = FALSE
    <3>1. CASE channel = 1
      <4>1. former = TimersCleared
        BY <3>1
      <4> QED
        BY <2>2, <4>1, ClearedFacts DEF Holds, IInv, Unit
    <3>2. CASE channel # 1
      BY <2>2, <3>2 DEF Holds, IInv, KindsInv
    <3> QED
      BY <3>1, <3>2
  <2> HIDE DEF former
  <2>4. Filled(channel) = <<>>
    BY <1>1, <1>2, ChannelFacts DEF Filled
  <2>5. First(channel) \in Thirds /\ First(channel) # Zeros /\ First(channel) = info[channel].seg1
    <3>1. First(channel) = info[channel].seg1 /\ wanted[channel] \in Throttles
      BY <1>2, <2>2 DEF Written
    <3> QED
      BY <1>2, <3>1, HalfFacts, Fields DEF IInv
  <2>6. /\ unit.mode = "out" /\ unit.sending = First(channel) /\ unit.buf = <<>> /\ unit.timer = FALSE
        /\ unit \in Unit
    <3>1. unit = Put(former[channel], First(channel))
      BY <2>5
    <3> HIDE DEF unit
    <3> QED
      BY <1>2, <2>3, <2>4, <2>5, <3>1, PutFacts
  <2> HIDE DEF unit
  <2>7. hw'[channel] = unit /\ \A d \in Channels : d # channel => hw'[d] = former[d]
    BY <1>1, <1>2, <2>3
  <2>8. \A d \in Channels : hw'[d].mode = "out" /\ hw'[d].buf = <<>> /\ hw'[d].timer = FALSE
    BY <2>3, <2>6, <2>7
  <2>9. Undisturbed'
    <3>1. \A d \in Channels : ShifterFlag(d) /\ d \notin shifterIrq
      BY <1>1, <2>2 DEF Holds, ShifterFlag, Undisturbed, Pending
    <3> QED
      BY <1>1, <2>8, <3>1, Fields DEF Undisturbed, Pending, IInv, KindsInv
  <2>10. ASSUME NEW c \in Channels PROVE SetUp(c)'
    <3>1. First(c)' = First(c) /\ Written(c)'
      BY <1>1, <1>3, <2>2, StageKept
    <3>2. Filled(c)' = IF c = channel THEN First(c) ELSE Filled(c)
      BY <1>1, <1>2, <3>1, ChannelFacts DEF Filled
    <3>3. hw'[c].sending = Filled(c)'
      BY <2>3, <2>6, <2>7, <3>2
    <3> QED
      BY <1>1, <1>3, <2>2, <2>8, <3>1, <3>3 DEF SetUp, Holds
  <2> QED
    BY <2>9, <2>10
<1> QED
  BY <1>1, <1>4 DEF WholeInv, SentInv

\* Armed, every channel's packet is at its start.
LEMMA TriggerArmWhole == ASSUME IInv, WholeInv, TriggerArm PROVE WholeInv'
<1>1. /\ at = "arm" /\ at' = "idle" /\ hw' = TimersCleared /\ timerIrq' = Channels
      /\ UNCHANGED <<bdshot, info, passes, wanted, line, disturbed>>
  BY DEF TriggerArm, InStep, fixed, history
<1>2. ASSUME passes \notin disturbed, NEW c \in Channels PROVE Written(c)' /\ Stage(c)'
  <2>1. SetUp(c)
    BY <1>1, <1>2 DEF WholeInv, SetUpInv
  <2>2. /\ Holds(c, First(c), <<>>, FALSE) /\ Written(c)
        /\ info[c].state = "START" /\ line[c] = <<>>
    BY <1>1, <2>1 DEF SetUp, Passed, Filled
  <2>3. Written(c)' /\ First(c)' = First(c)
    BY <1>1, <2>2, StageKept
  <2>4. /\ hw'[c].mode = hw[c].mode /\ hw'[c].sending = hw[c].sending
        /\ hw'[c].buf = hw[c].buf /\ hw'[c].timer = FALSE
    BY <1>1, ClearedFacts DEF IInv, Unit
  <2> QED
    BY <1>1, <2>2, <2>3, <2>4 DEF Stage, Holds
<1> QED
  BY <1>1, <1>2 DEF WholeInv, SetUpInv, SentInv

\* A half begun is followed by the other.
LEMMA ServeShiftersWhole == ASSUME IInv, WholeInv, ServeShifters PROVE WholeInv'
<1> DEFINE flagged == {c \in Channels : ShifterFlag(c)}
           feeding == {c \in flagged : FeedsSecondHalf(c)}
           received == {c \in flagged : info[c].state = "RECEIVE"}
<1>1. /\ isr = 0 /\ Pending
      /\ info' = [c \in Channels |->
           IF c \in feeding THEN [info[c] EXCEPT !.state = "12BIT_FIFO"]
           ELSE IF c \in received THEN [info[c] EXCEPT !.state = "RECEIVE_COMPLETE", !.raw = hw[c].buf]
           ELSE info[c]]
      /\ hw' = [c \in Channels |->
           IF c \in feeding THEN Put(hw[c], info[c].irqData)
           ELSE IF c \in received THEN [hw[c] EXCEPT !.buf = <<>>] ELSE hw[c]]
      /\ UNCHANGED <<bdshot, timerIrq, at, channel, passes, wanted, line, disturbed>>
  BY DEF ServeShifters, fixed, loop, history
<1>2. ASSUME NEW c \in Channels
      PROVE  /\ c \in feeding <=> ShifterFlag(c) /\ info[c].state = "START"
             /\ c \in received <=> ShifterFlag(c) /\ info[c].state = "RECEIVE"
  BY DEF FeedsSecondHalf
<1> HIDE DEF flagged, feeding, received
<1>3. ASSUME at = "idle", passes > 0, passes \notin disturbed, NEW c \in Channels
      PROVE  Written(c)' /\ Stage(c)'
  <2>1. Written(c) /\ Stage(c)
    BY <1>3 DEF WholeInv, SentInv
  <2>2. hw[c] \in Unit /\ info[c] \in Driver
    BY Fields DEF IInv
  <2>3. info'[c].seg1 = info[c].seg1 /\ info'[c].irqData = info[c].irqData
    BY <1>1, <2>2 DEF Driver
  <2>4. Written(c)' /\ First(c)' = First(c) /\ Second(c)' = Second(c)
    BY <1>1, <2>1, <2>3, StageKept
  <2>5. First(c) # <<>> /\ info[c].irqData = Second(c)
    BY <2>1, HalfFacts DEF Written, IInv
  <2>6. CASE c \in feeding
    <3>1. info[c].state = "START" /\ line[c] = <<>> /\ Holds(c, First(c), <<>>, FALSE)
      BY <1>2, <2>1, <2>6 DEF Stage
    <3>2. info'[c].state = "12BIT_FIFO" /\ hw'[c] = Put(hw[c], Second(c))
      BY <1>1, <2>2, <2>5, <2>6 DEF Driver
    <3>3. /\ hw'[c].mode = "out" /\ hw'[c].sending = First(c) /\ hw'[c].buf = Second(c)
          /\ hw'[c].timer = FALSE
      BY <2>2, <2>5, <3>1, <3>2 DEF Holds, Put, Unit
    <3> QED
      BY <1>1, <2>4, <3>1, <3>2, <3>3 DEF Stage, Holds
  <2>7. CASE c \notin feeding /\ c \in received
    <3>1. info[c].state = "RECEIVE" /\ hw[c].mode = "in"
      BY <1>2, <2>7, Fields DEF IInv, SendInv
    <3>2. line[c] = First(c) \o Second(c)
      BY <2>1, <3>1 DEF Stage
    <3>3. info'[c].state = "RECEIVE_COMPLETE" /\ hw'[c].mode = "in"
      BY <1>1, <2>2, <2>7, <3>1 DEF Driver, Unit
    <3> QED
      BY <1>1, <2>4, <3>2, <3>3 DEF Stage
  <2>8. CASE c \notin feeding /\ c \notin received
    <3>1. info'[c] = info[c] /\ hw'[c] = hw[c]
      BY <1>1, <2>8
    <3> QED
      BY <1>1, <2>1, <3>1, StageKept
  <2> QED
    BY <2>4, <2>6, <2>7, <2>8
<1>4. at = "idle" \/ passes \in disturbed
  BY <1>1 DEF WholeInv, SetUpInv, Undisturbed
<1> QED
  BY <1>1, <1>3, <1>4 DEF WholeInv, SetUpInv, SentInv

\* A half out takes its channel a step further.
LEMMA ServeTimerWhole == ASSUME IInv, WholeInv, ServeTimer PROVE WholeInv'
<1>1. /\ isr # 0
      /\ UNCHANGED <<bdshot, timerIrq, at, channel, passes, wanted, line, disturbed>>
  BY DEF ServeTimer, fixed, loop, history
<1>2. isr \in Channels
  BY <1>1 DEF IInv, KindsInv, Channels
<1>3. at = "idle" \/ passes \in disturbed
  BY <1>1 DEF WholeInv, SetUpInv, Undisturbed
<1>4. \/ ~hw[isr].timer /\ UNCHANGED <<info, hw>>
      \/ /\ hw[isr].timer /\ info' = [info EXCEPT ![isr].state = AfterTimer(isr)]
         /\ hw' = [hw EXCEPT ![isr] = Configured("in")]
         /\ AfterTimer(isr) = "RECEIVE" /\ info[isr].state # "RECEIVE"
      \/ /\ hw[isr].timer /\ info' = [info EXCEPT ![isr].state = AfterTimer(isr)]
         /\ hw' = [hw EXCEPT ![isr].timer = FALSE]
         /\ ~(AfterTimer(isr) = "RECEIVE" /\ info[isr].state # "RECEIVE")
  BY <1>2 DEF ServeTimer, TurnAround
<1>5. info \in [Channels -> Driver] /\ hw \in [Channels -> Unit]
  BY DEF IInv, KindsInv
<1>6. /\ \A d \in Channels : d # isr => info'[d] = info[d] /\ hw'[d] = hw[d]
      /\ info'[isr].seg1 = info[isr].seg1 /\ info'[isr].irqData = info[isr].irqData
      /\ hw[isr].timer => info'[isr].state = AfterTimer(isr)
  BY <1>2, <1>4, <1>5 DEF Driver
<1>7. hw[isr].timer =>
        \/ hw'[isr].mode = "in" /\ AfterTimer(isr) = "RECEIVE" /\ info[isr].state # "RECEIVE"
        \/ /\ hw'[isr].mode = hw[isr].mode /\ hw'[isr].sending = hw[isr].sending
           /\ hw'[isr].buf = hw[isr].buf /\ hw'[isr].timer = FALSE
           /\ ~(AfterTimer(isr) = "RECEIVE" /\ info[isr].state # "RECEIVE")
  BY <1>2, <1>4, <1>5 DEF Unit, Configured
<1>8. ASSUME at = "idle", passes > 0, passes \notin disturbed, NEW c \in Channels
      PROVE  Written(c)' /\ Stage(c)'
  <2>1. Written(c) /\ Stage(c)
    BY <1>8 DEF WholeInv, SentInv
  <2>2. CASE c # isr \/ ~hw[isr].timer
    <3>1. info'[c] = info[c] /\ hw'[c] = hw[c]
      BY <1>4, <1>6, <2>2
    <3> QED
      BY <1>1, <2>1, <3>1, StageKept
  <2>3. CASE c = isr /\ hw[isr].timer
    <3>1. Written(c)' /\ First(c)' = First(c) /\ Second(c)' = Second(c)
      BY <1>1, <1>6, <2>1, <2>3, StageKept
    <3>2. CASE /\ info[c].state = "12BIT_FIFO" /\ line[c] = First(c)
               /\ Holds(c, Second(c), <<>>, TRUE)
      <4>1. AfterTimer(c) = "12BIT_TRANSFERRED"
        BY <3>2 DEF AfterTimer
      <4> QED
        BY <1>1, <1>6, <1>7, <2>3, <3>1, <3>2, <4>1 DEF Stage, Holds
    <3>3. CASE /\ info[c].state = "12BIT_TRANSFERRED" /\ line[c] = First(c) \o Second(c)
               /\ Holds(c, <<>>, <<>>, TRUE)
      <4>1. AfterTimer(c) \in {"TRANSMIT_COMPLETE", "RECEIVE"}
        BY <3>3 DEF AfterTimer
      <4> QED
        BY <1>1, <1>6, <1>7, <2>3, <3>1, <3>3, <4>1 DEF Stage, Holds
    <3>4. CASE /\ info[c].state \in {"TRANSMIT_COMPLETE", "RECEIVE", "RECEIVE_COMPLETE"}
               /\ line[c] = First(c) \o Second(c)
               /\ hw[c].mode = "out" => Holds(c, <<>>, <<>>, FALSE)
      <4>1. AfterTimer(c) = info[c].state
        BY <3>4 DEF AfterTimer
      <4>2. hw'[c].mode # "out"
        BY <1>7, <2>3, <3>4, <4>1 DEF Holds
      <4> QED
        BY <1>1, <1>6, <2>3, <3>1, <3>4, <4>1, <4>2 DEF Stage
    <3> QED
      BY <2>1, <2>3, <3>1, <3>2, <3>3, <3>4 DEF Stage, Holds
  <2> QED
    BY <2>2, <2>3
<1> QED
  BY <1>1, <1>3, <1>8 DEF WholeInv, SetUpInv, SentInv

\* The fetch leaves packets and lines alone.
LEMMA FetchWhole == ASSUME IInv, WholeInv, SampleFetch PROVE WholeInv'
<1>1. /\ at = "idle"
      /\ UNCHANGED <<bdshot, timerIrq, at, channel, passes, wanted, line, disturbed, hw>>
      /\ info' = info \/ (FetchDecode /\ info' = [info EXCEPT ![fetch] = Decoded(@, info[fetch].raw[1])])
  BY DEF SampleFetch, FetchBegin, FetchCheck, FetchDecode, FetchMayRun, handler, loop, history
<1>2. ASSUME NEW c \in Channels
      PROVE  /\ info'[c].seg1 = info[c].seg1 /\ info'[c].irqData = info[c].irqData
             /\ info'[c].state = info[c].state
  <2>1. info[c] \in Driver /\ info \in [Channels -> Driver]
    BY Fields DEF IInv, KindsInv
  <2>2. CASE info' = info
    BY <2>2
  <2>3. CASE info' = [info EXCEPT ![fetch] = Decoded(@, info[fetch].raw[1])]
    <3> DEFINE answer == info[fetch].raw[1]
    <3> HIDE DEF answer
    <3>1. /\ Decoded(info[c], answer).seg1 = info[c].seg1
          /\ Decoded(info[c], answer).irqData = info[c].irqData
          /\ Decoded(info[c], answer).state = info[c].state
      BY <2>1 DEF Decoded, Driver
    <3>2. info'[c] = info[c] \/ info'[c] = Decoded(info[c], answer)
      BY <2>1, <2>3 DEF answer
    <3> QED
      BY <3>1, <3>2
  <2> QED
    BY <1>1, <2>2, <2>3
<1>3. ASSUME passes > 0, passes \notin disturbed, NEW c \in Channels
      PROVE  Written(c)' /\ Stage(c)'
  <2>1. Written(c) /\ Stage(c)
    BY <1>1, <1>3 DEF WholeInv, SentInv
  <2> QED
    BY <1>1, <1>2, <2>1, StageKept
<1> QED
  BY <1>1, <1>3 DEF WholeInv, SetUpInv, SentInv

\* No step takes a packet apart.
LEMMA NextWhole == ASSUME IInv, WholeInv, [Next]_vars PROVE WholeInv'
<1>1. CASE UNCHANGED vars
  BY <1>1 DEF vars, WholeInv, SetUpInv, SentInv, SetUp, Passed, Filled, Written, Stage, Holds,
              First, Second, Bidirectional, Undisturbed, Pending, ShifterFlag
<1>2. CASE Loop
  BY <1>2, SetPacketWhole, TurnBackWhole, TriggerPutWhole, TriggerArmWhole DEF Loop
<1>3. CASE Interrupt
  BY <1>3, ServeShiftersWhole, ServeTimerWhole DEF Interrupt
<1>4. CASE \E c \in Channels : HalfSent(c) \/ \E answer \in Answers : Response(c, answer)
  BY <1>4, HalfSentWhole, ResponseWhole
<1> QED
  BY <1>1, <1>2, <1>3, <1>4, BeginWhole, FetchWhole DEF Next

\* What each line has carried, its shifter holds and the driver still keeps
\* is together the packet the loop asked for, in every undisturbed pass.
THEOREM LinesInductive == Spec => []WholeInv
<1>1. Init => WholeInv
  BY DEF Init, WholeInv, SetUpInv, SentInv
<1>2. IInv /\ WholeInv /\ [Next]_vars => WholeInv'
  BY NextWhole
<1> QED
  BY <1>1, <1>2, Inductive, PTL DEF Spec

\* Between passes, the lines silent, each has carried exactly the packet the
\* loop asked for in this pass, and a motor controller takes its throttle from
\* it: for every throttle and any number of channels, whatever was disturbed
\* in the passes before.
THEOREM PacketsAreWhole == Spec => []PacketsWhole
<1>1. IInv /\ WholeInv => PacketsWhole
  <2> SUFFICES ASSUME IInv, WholeInv, at = "idle", Quiet, passes > 0, passes \notin disturbed,
                      NEW c \in Channels
               PROVE  Taken(line[c], Bidirectional(c)) = <<wanted[c]>>
    BY DEF PacketsWhole
  <2>1. Written(c) /\ Stage(c) /\ timerIrq = Channels
    BY DEF WholeInv, SentInv
  <2>2. ~hw[c].timer /\ (hw[c].mode = "out" => hw[c].sending = <<>> /\ info[c].state # "START")
    BY <2>1, QuietFacts, ChannelFacts
  <2>3. First(c) # <<>> /\ Second(c) # <<>>
        /\ Taken(First(c) \o Second(c), Bidirectional(c)) = <<wanted[c]>>
    BY <2>1, HalfFacts DEF Written, IInv
  <2>4. line[c] = First(c) \o Second(c)
    BY <2>1, <2>2, <2>3 DEF Stage, Holds
  <2> QED
    BY <2>3, <2>4
<1> QED
  BY <1>1, Inductive, LinesInductive, PTL
-----------------------------------------------------------------------------
(* Missing answers                                                         *)

\* a line that has heard nothing yet can still be heard
HeardInv ==
  \A c \in Channels : hw[c].mode = "in" /\ ~hw[c].heard =>
    info[c].state # "RECEIVE_COMPLETE" /\ (at = "idle" => c \in shifterIrq)

\* until a channel's packet is put it gets no further than its second half,
\* and no answer to this pass's packet can be heard
Waiting(c) == at \in {"set", "turn"} \/ (at = "put" /\ channel <= c)
Turned(c) == at = "put" \/ c < channel
Slow(c) ==
  /\ hw[c].mode = "out" /\ hw[c].buf = <<>>
  /\ info[c].state \in {"START", "12BIT_FIFO", "12BIT_TRANSFERRED"}
  /\ hw[c].timer => hw[c].sending = <<>> /\ info[c].state = "12BIT_FIFO"
  /\ hw[c].sending # <<>> => info[c].state = "12BIT_FIFO"
WaitInv ==
  \A c \in bdshot : Waiting(c) =>
    /\ Turned(c) => Slow(c)
    /\ ~Turned(c) => (hw[c].mode = "in" => line[c] = <<>>)

\* a packet is answered once
AnswersInv ==
  /\ IsFiniteSet(answers)
  /\ \A a \in answers :
       /\ a.channel \in bdshot /\ a.pass \in Int /\ a.pass <= passes
       /\ a.pass = passes =>
            hw[a.channel].mode = "in" /\ hw[a.channel].heard /\ line[a.channel] # <<>>
       /\ a.pass = passes - 1 /\ hw[a.channel].mode = "in" /\ line[a.channel] = <<>> =>
            hw[a.channel].heard
  /\ \A a, b \in answers : a.channel = b.channel /\ a.pass = b.pass => a = b

\* what is answered is received before the next pass, unless one is disturbed
Coming(c) ==
  hw[c].mode = "in" /\ hw[c].buf # <<>> /\ info[c].state = "RECEIVE" /\ c \in shifterIrq
ReceivedInv ==
  \A a \in answers :
    /\ at = "idle" /\ a.pass = passes /\ passes \notin disturbed =>
         a.channel \in recvMask \/ Coming(a.channel)
    /\ at # "idle" /\ a.pass = passes - 1 /\ passes - 1 \notin disturbed /\ passes \notin disturbed =>
         a.channel \in recvMask

\* the count after the packets put so far
Puts(c) == IF Waiting(c) THEN passes - 1 ELSE passes
HeardOf(c) == {a \in answers : a.channel = c /\ a.pass < Puts(c)}
LostOf(c) == {a \in HeardOf(c) : {a.pass, a.pass + 1} \cap disturbed # {}}
Counted(c) ==
  /\ Puts(c) - Cardinality(HeardOf(c)) <= info[c].noResponse
  /\ info[c].noResponse <= (Puts(c) - Cardinality(HeardOf(c))) + Cardinality(LostOf(c))
CountInv == \A c \in bdshot : Counted(c)

SilenceInv == HeardInv /\ WaitInv /\ AnswersInv /\ ReceivedInv /\ CountInv

\* The sets counted are finite, and their sizes numbers.
LEMMA CountFacts ==
  ASSUME IInv, SilenceInv, NEW c \in bdshot
  PROVE  /\ c \in Channels /\ info[c].noResponse \in Nat /\ Puts(c) \in Int
         /\ HeardOf(c) \subseteq answers /\ LostOf(c) \subseteq HeardOf(c)
         /\ IsFiniteSet(HeardOf(c)) /\ IsFiniteSet(LostOf(c))
         /\ Cardinality(HeardOf(c)) \in Nat /\ Cardinality(LostOf(c)) \in Nat
<1>1. c \in Channels /\ info[c].noResponse \in Nat /\ Puts(c) \in Int
  BY Fields DEF IInv, KindsInv, Driver, Puts
<1>2. HeardOf(c) \subseteq answers /\ LostOf(c) \subseteq HeardOf(c)
  BY DEF HeardOf, LostOf
<1>3. IsFiniteSet(HeardOf(c)) /\ IsFiniteSet(LostOf(c))
  BY <1>2, FS_Subset DEF SilenceInv, AnswersInv
<1> QED
  BY <1>1, <1>2, <1>3, FS_CardinalityType

\* More disturbance only lets more be lost.
LEMMA CountKept ==
  ASSUME IInv, SilenceInv, IInv', NEW c \in bdshot, UNCHANGED bdshot,
         Puts(c)' = Puts(c), HeardOf(c)' = HeardOf(c), disturbed \subseteq disturbed',
         info'[c].noResponse = info[c].noResponse
  PROVE  Counted(c)'
<1>1. /\ info[c].noResponse \in Nat /\ Puts(c) \in Int /\ IsFiniteSet(HeardOf(c))
      /\ IsFiniteSet(LostOf(c))
      /\ Cardinality(HeardOf(c)) \in Nat /\ Cardinality(LostOf(c)) \in Nat
  BY CountFacts
<1>2. LostOf(c)' = {a \in HeardOf(c) : {a.pass, a.pass + 1} \cap disturbed' # {}}
  BY DEF LostOf
<1>3. LostOf(c) \subseteq LostOf(c)' /\ LostOf(c)' \subseteq HeardOf(c)
  BY <1>2 DEF LostOf
<1>4. IsFiniteSet(LostOf(c)') /\ Cardinality(LostOf(c)') \in Nat
      /\ Cardinality(LostOf(c)) <= Cardinality(LostOf(c)')
  BY <1>1, <1>3, FS_Subset, FS_CardinalityType
<1>5. Counted(c)
  BY DEF SilenceInv, CountInv
<1>6. /\ Cardinality(HeardOf(c))' = Cardinality(HeardOf(c))
      /\ Cardinality(LostOf(c))' = Cardinality(LostOf(c)')
  OBVIOUS
<1>7. /\ Puts(c) - Cardinality(HeardOf(c)) <= info'[c].noResponse
      /\ info'[c].noResponse <= (Puts(c) - Cardinality(HeardOf(c))) + Cardinality(LostOf(c)')
  BY <1>1, <1>4, <1>5 DEF Counted
<1> QED
  BY <1>6, <1>7 DEF Counted

\* A count is what it was while no answer comes and no packet is put.
LEMMA SameCount ==
  ASSUME IInv, SilenceInv, IInv', UNCHANGED <<bdshot, answers>>, disturbed \subseteq disturbed',
         \A c \in Channels : Puts(c)' = Puts(c) /\ info'[c].noResponse = info[c].noResponse
  PROVE  CountInv'
<1>1. ASSUME NEW c \in bdshot PROVE Counted(c)'
  <2>1. c \in Channels
    BY CountFacts
  <2>2. HeardOf(c)' = HeardOf(c)
    BY <2>1 DEF HeardOf
  <2> QED
    BY <2>1, <2>2, CountKept
<1> QED
  BY <1>1 DEF CountInv

\* A half on its way out answers nobody.
LEMMA HalfSentSilence ==
  ASSUME IInv, SilenceInv, IInv', NEW c \in Channels, HalfSent(c) PROVE SilenceInv'
<1>1. /\ UNCHANGED <<bdshot, info, recvMask, isr, shifterIrq, timerIrq, at, channel, passes, answers>>
      /\ hw[c].sending # <<>>
      /\ hw' = [hw EXCEPT ![c].sending = hw[c].buf, ![c].buf = <<>>, ![c].timer = TRUE]
      /\ line' = [line EXCEPT ![c] = @ \o hw[c].sending]
      /\ disturbed \subseteq disturbed'
  BY DEF HalfSent, Disturb, fixed, handler, loop
<1>2. hw[c].mode = "out"
  BY <1>1, Fields DEF IInv, ListenInv
<1>3. /\ \A d \in Channels : d # c => hw'[d] = hw[d] /\ line'[d] = line[d]
      /\ hw'[c].mode = "out" /\ hw'[c].sending = hw[c].buf /\ hw'[c].buf = <<>>
  BY <1>1, <1>2 DEF IInv, KindsInv, Unit
<1>4. HeardInv'
  BY <1>1, <1>3 DEF SilenceInv, HeardInv
<1>5. WaitInv'
  <2> SUFFICES ASSUME NEW d \in bdshot, Waiting(d)
               PROVE  /\ Turned(d) => Slow(d)'
                      /\ ~Turned(d) => (hw'[d].mode = "in" => line'[d] = <<>>)
    BY <1>1 DEF WaitInv, Waiting, Turned
  <2>1. d \in Channels
    BY DEF IInv, KindsInv
  <2>2. CASE d # c
    BY <1>1, <1>3, <2>1, <2>2, ZenonT(40) DEF SilenceInv, WaitInv, Slow
  <2>3. CASE d = c
    BY <1>1, <1>3, <2>3 DEF SilenceInv, WaitInv, Slow
  <2> QED
    BY <2>2, <2>3
<1>6. AnswersInv'
  <2>1. \A a \in answers : a.channel \in Channels
    BY DEF SilenceInv, AnswersInv, IInv, KindsInv
  <2> QED
    BY <1>1, <1>2, <1>3, <2>1, ZenonT(40) DEF SilenceInv, AnswersInv
<1>7. ReceivedInv'
  <2>1. \A a \in answers : a.channel \in Channels /\ (Coming(a.channel) => Coming(a.channel)')
    BY <1>1, <1>2, <1>3 DEF SilenceInv, AnswersInv, IInv, KindsInv, Coming
  <2> QED
    BY <1>1, <2>1 DEF SilenceInv, ReceivedInv
<1>8. CountInv'
  BY <1>1, SameCount DEF Puts, Waiting
<1> QED
  BY <1>4, <1>5, <1>6, <1>7, <1>8 DEF SilenceInv

\* A packet not answered yet is answered once.
LEMMA ResponseSilence ==
  ASSUME IInv, SilenceInv, IInv', NEW c \in Channels, NEW answer \in Answers, Response(c, answer)
  PROVE  SilenceInv'
<1> DEFINE new == [channel |-> c, pass |-> IF line[c] = <<>> THEN passes - 1 ELSE passes,
                   answer |-> answer]
<1>1. /\ UNCHANGED <<bdshot, info, recvMask, isr, shifterIrq, timerIrq, at, channel, passes, line>>
      /\ hw[c].mode = "in" /\ ~hw[c].heard
      /\ hw' = [hw EXCEPT ![c].buf = <<answer>>, ![c].timer = TRUE, ![c].heard = TRUE]
      /\ answers' = answers \cup {new}
      /\ disturbed \subseteq disturbed' /\ (line[c] = <<>> => passes \in disturbed')
  BY DEF Response, Disturb, fixed, handler, loop
<1>2. /\ \A d \in Channels : d # c => hw'[d] = hw[d]
      /\ hw'[c].mode = "in" /\ hw'[c].buf # <<>> /\ hw'[c].heard
  BY <1>1 DEF IInv, KindsInv, Unit
<1>3. /\ new.channel = c /\ (line[c] = <<>> => new.pass = passes - 1)
      /\ (line[c] # <<>> => new.pass = passes) /\ new.pass \in Int /\ passes \in Int
  BY DEF IInv, KindsInv
<1>4. c \in bdshot /\ (line[c] = <<>> => at \in {"set", "turn"} /\ channel <= c)
  BY <1>1 DEF IInv, ListenInv
<1> HIDE DEF new
<1>5. HeardInv'
  BY <1>1, <1>2 DEF SilenceInv, HeardInv
<1>6. WaitInv'
  <2> SUFFICES ASSUME NEW d \in bdshot, Waiting(d)
               PROVE  /\ Turned(d) => Slow(d)'
                      /\ ~Turned(d) => (hw'[d].mode = "in" => line[d] = <<>>)
    BY <1>1 DEF WaitInv, Waiting, Turned
  <2>1. d \in Channels
    BY DEF IInv, KindsInv
  <2>2. CASE d # c
    BY <1>1, <1>2, <2>1, <2>2, ZenonT(40) DEF SilenceInv, WaitInv, Slow
  <2>3. CASE d = c
    BY <1>1, <1>2, <2>3 DEF SilenceInv, WaitInv, Slow
  <2> QED
    BY <2>2, <2>3
<1>7. ASSUME NEW a \in answers, a.channel = c PROVE a.pass # new.pass
  BY <1>1, <1>3, <1>7 DEF SilenceInv, AnswersInv
<1>8. AnswersInv'
  <2>1. IsFiniteSet(answers')
    BY <1>1, FS_AddElement DEF SilenceInv, AnswersInv
  <2>2. ASSUME NEW a \in answers'
        PROVE /\ a.channel \in bdshot /\ a.pass \in Int /\ a.pass <= passes
              /\ a.pass = passes =>
                   hw'[a.channel].mode = "in" /\ hw'[a.channel].heard /\ line[a.channel] # <<>>
              /\ a.pass = passes - 1 /\ hw'[a.channel].mode = "in" /\ line[a.channel] = <<>> =>
                   hw'[a.channel].heard
    <3>1. CASE a = new
      BY <1>2, <1>3, <1>4, <3>1
    <3>2. CASE a \in answers
      <4>1. a.channel \in Channels
        BY <3>2 DEF SilenceInv, AnswersInv, IInv, KindsInv
      <4>2. CASE a.channel = c
        BY <1>1, <1>2, <3>2, <4>2 DEF SilenceInv, AnswersInv
      <4>3. CASE a.channel # c
        BY <1>2, <3>2, <4>1, <4>3 DEF SilenceInv, AnswersInv
      <4> QED
        BY <4>2, <4>3
    <3> QED
      BY <1>1, <3>1, <3>2
  <2>3. \A a, b \in answers' : a.channel = b.channel /\ a.pass = b.pass => a = b
    BY <1>1, <1>3, <1>7 DEF SilenceInv, AnswersInv
  <2> QED
    BY <1>1, <2>1, <2>2, <2>3 DEF AnswersInv
<1>9. ReceivedInv'
  <2> SUFFICES ASSUME NEW a \in answers'
               PROVE  /\ at = "idle" /\ a.pass = passes /\ passes \notin disturbed' =>
                           a.channel \in recvMask \/ Coming(a.channel)'
                      /\ at # "idle" /\ a.pass = passes - 1 /\ passes - 1 \notin disturbed'
                           /\ passes \notin disturbed' => a.channel \in recvMask
    BY <1>1 DEF ReceivedInv
  <2>1. CASE a = new
    <3>1. at = "idle" => line[c] # <<>> /\ c \in shifterIrq /\ info[c].state = "RECEIVE"
      BY <1>1, <1>4 DEF IInv, ListenInv, SilenceInv, HeardInv
    <3>2. at = "idle" => Coming(c)'
      BY <1>1, <1>2, <3>1 DEF Coming
    <3> QED
      BY <1>1, <1>3, <2>1, <3>2
  <2>2. CASE a \in answers
    <3>1. a.channel \in Channels
      BY <2>2 DEF SilenceInv, AnswersInv, IInv, KindsInv
    <3>2. Coming(a.channel) => Coming(a.channel)'
      BY <1>1, <1>2, <3>1 DEF Coming
    <3> QED
      BY <1>1, <2>2, <3>2 DEF SilenceInv, ReceivedInv
  <2> QED
    BY <1>1, <2>1, <2>2
<1>10. CountInv'
  <2> SUFFICES ASSUME NEW d \in bdshot PROVE Counted(d)'
    BY <1>1 DEF CountInv
  <2>1. Puts(d)' = Puts(d)
    BY <1>1 DEF Puts, Waiting
  <2>2. new.channel = d => ~(new.pass < Puts(d))
    BY <1>3, <1>4 DEF Puts, Waiting
  <2>3. HeardOf(d)' = HeardOf(d)
    BY <1>1, <2>1, <2>2 DEF HeardOf
  <2> QED
    BY <1>1, <2>1, <2>3, CountKept
<1> QED
  BY <1>5, <1>6, <1>8, <1>9, <1>10 DEF SilenceInv

\* What was answered has been received when a pass begins.
LEMMA BeginSilence == ASSUME IInv, SilenceInv, IInv', Begin PROVE SilenceInv'
<1>1. /\ at = "idle" /\ Quiet /\ at' = "set" /\ channel' = 1 /\ passes' = passes + 1
      /\ line' = [c \in Channels |-> <<>>]
      /\ UNCHANGED <<bdshot, info, recvMask, isr, shifterIrq, timerIrq, hw, answers, disturbed>>
  BY DEF Begin, fixed, handler, history
<1>2. /\ passes \in Int /\ passes' - 1 = passes
      /\ \A a \in answers : a.channel \in bdshot /\ a.channel \in Channels /\ a.pass \in Int
  <2>1. passes \in Int /\ passes' - 1 = passes /\ bdshot \subseteq Channels
    BY <1>1 DEF IInv, KindsInv
  <2> QED
    BY <2>1 DEF SilenceInv, AnswersInv
<1>3. HeardInv'
  BY <1>1 DEF SilenceInv, HeardInv
<1>4. WaitInv'
  <2>1. \A c \in bdshot : c \in Channels /\ ~Turned(c)'
    BY <1>1, ChannelFacts DEF Turned, IInv, KindsInv
  <2> QED
    BY <1>1, <2>1 DEF WaitInv
<1>5. AnswersInv'
  BY <1>1, <1>2 DEF SilenceInv, AnswersInv
<1>6. ReceivedInv'
  <2>1. ASSUME NEW a \in answers PROVE ~Coming(a.channel)
    BY <1>1 DEF Coming, Quiet, Undisturbed, Pending, ShifterFlag
  <2> QED
    BY <1>1, <1>2, <2>1 DEF SilenceInv, ReceivedInv
<1>7. CountInv'
  <2>1. \A c \in Channels : Puts(c)' = Puts(c)
    BY <1>1, <1>2 DEF Puts, Waiting
  <2> QED
    BY <1>1, <2>1, SameCount
<1> QED
  BY <1>3, <1>4, <1>5, <1>6, <1>7 DEF SilenceInv

\* A channel whose packet was written has still to get it.
LEMMA SetPacketSilence ==
  ASSUME IInv, SilenceInv, IInv', NEW throttle \in Throttles, SetPacket(throttle)
  PROVE  SilenceInv'
<1> DEFINE first == FirstHalf(Packet(throttle, 0, Bidirectional(channel)))
           second == SecondHalf(Packet(throttle, 0, Bidirectional(channel)))
<1>1. /\ at = "set"
      /\ UNCHANGED <<bdshot, recvMask, shifterIrq, hw, line, passes, answers, disturbed>>
      /\ info' = [info EXCEPT ![channel].seg1 = first, ![channel].irqData = second,
                              ![channel].state = "START"]
      /\ \/ channel \in bdshot /\ at' = "turn" /\ channel' = channel
         \/ channel \notin bdshot /\ NextChannel
  BY DEF SetPacket, InStep, DataSet, fixed, handler, history
<1>2. channel \in Channels /\ info \in [Channels -> Driver] /\ bdshot \subseteq Channels
  BY DEF IInv, KindsInv
<1> HIDE DEF first, second
<1>3. /\ \A c \in Channels : info'[c].noResponse = info[c].noResponse
      /\ info'[channel].state = "START"
      /\ \A c \in Channels : c # channel => info'[c] = info[c]
  <2>1. info[channel] \in Driver
    BY <1>2
  <2> DEFINE u == [info[channel] EXCEPT !.seg1 = first, !.irqData = second, !.state = "START"]
  <2>2. u.state = "START" /\ u.noResponse = info[channel].noResponse
    BY <2>1 DEF Driver
  <2>3. info' = [info EXCEPT ![channel] = u]
    BY <1>1, <1>2
  <2> HIDE DEF u
  <2> QED
    BY <1>2, <2>2, <2>3
<1>4. /\ at' \in {"set", "turn", "put"}
      /\ at' = "turn" => channel \in bdshot /\ channel' = channel
      /\ at' = "set" => channel \notin bdshot /\ channel' = channel + 1
      /\ at' = "put" => channel \notin bdshot /\ channel' = 1 /\ \A c \in Channels : c <= channel
  <2>1. channel \notin bdshot => at' \in {"set", "put"} /\ (at' = "put" => channel' = 1)
    BY <1>1 DEF NextChannel
  <2> QED
    BY <1>1, <2>1, NextChannelFacts
<1>5. HeardInv'
  BY <1>1, <1>3, <1>4 DEF SilenceInv, HeardInv
<1>6. WaitInv'
  <2> SUFFICES ASSUME NEW c \in bdshot
               PROVE  /\ Turned(c)' => Slow(c)'
                      /\ ~Turned(c)' => (hw[c].mode = "in" => line[c] = <<>>)
    BY <1>1 DEF WaitInv
  <2>1. c \in Channels /\ Waiting(c)
    BY <1>1, <1>2 DEF Waiting
  <2>2. Turned(c)' => Turned(c) /\ c # channel
    BY <1>1, <1>2, <1>4, <2>1, ChannelFacts DEF Turned
  <2>3. Turned(c) => Turned(c)'
    BY <1>1, <1>2, <1>4, <2>1, ChannelFacts DEF Turned
  <2>4. Turned(c)' => Slow(c)'
    BY <1>1, <1>3, <2>1, <2>2 DEF SilenceInv, WaitInv, Slow
  <2> QED
    BY <2>1, <2>3, <2>4 DEF SilenceInv, WaitInv
<1>7. AnswersInv' /\ ReceivedInv'
  BY <1>1, <1>4 DEF SilenceInv, AnswersInv, ReceivedInv
<1>8. CountInv'
  <2>1. \A c \in Channels : Waiting(c) /\ Waiting(c)'
    BY <1>1, <1>4, ChannelFacts DEF Waiting
  <2> QED
    BY <1>1, <1>3, <2>1, SameCount DEF Puts
<1> QED
  BY <1>5, <1>6, <1>7, <1>8 DEF SilenceInv

\* Turned around again, a line no longer listens.
LEMMA TurnBackSilence == ASSUME IInv, SilenceInv, IInv', TurnBack PROVE SilenceInv'
<1>1. /\ at = "turn" /\ NextChannel
      /\ hw' = [TimersCleared EXCEPT ![channel] = Configured("out")]
      /\ UNCHANGED <<bdshot, info, recvMask, line, passes, answers, disturbed>>
  BY DEF TurnBack, InStep, fixed, history
<1>2. channel \in Channels /\ bdshot \subseteq Channels
  BY DEF IInv, KindsInv
<1>3. /\ \A d \in Channels : d # channel => /\ hw'[d].mode = hw[d].mode
                                            /\ hw'[d].sending = hw[d].sending
                                            /\ hw'[d].buf = hw[d].buf
                                            /\ hw'[d].heard = hw[d].heard /\ ~hw'[d].timer
      /\ hw'[channel].mode = "out" /\ hw'[channel].sending = <<>> /\ hw'[channel].buf = <<>>
      /\ ~hw'[channel].timer
  <2>1. TimersCleared \in [Channels -> Unit]
    BY ClearedFacts DEF IInv
  <2>2. /\ Configured("out").mode = "out" /\ ~Configured("out").timer
        /\ Configured("out").sending = <<>> /\ Configured("out").buf = <<>>
    BY DEF Configured
  <2>3. \A d \in Channels : d # channel => hw'[d] = TimersCleared[d]
    BY <1>1, <1>2, <2>1
  <2>4. hw'[channel] = Configured("out")
    BY <1>1, <1>2, <2>1
  <2> QED
    BY <2>1, <2>2, <2>3, <2>4, ClearedFacts DEF IInv
<1>4. /\ at' \in {"set", "put"}
      /\ at' = "set" => channel' = channel + 1
      /\ at' = "put" => channel' = 1 /\ \A c \in Channels : c <= channel
  <2>1. at' = "put" => channel' = 1
    BY <1>1 DEF NextChannel
  <2> QED
    BY <1>1, <2>1, NextChannelFacts
<1>5. HeardInv'
  BY <1>1, <1>2, <1>3, <1>4 DEF SilenceInv, HeardInv
<1>6. channel \in bdshot /\ (hw[channel].mode = "in" => line[channel] = <<>>)
  <2>1. channel \in bdshot
    BY <1>1 DEF IInv, TurnInv
  <2>2. Waiting(channel) /\ ~Turned(channel)
    BY <1>1, <1>2, ChannelFacts DEF Waiting, Turned
  <2> QED
    BY <2>1, <2>2 DEF SilenceInv, WaitInv
<1>7. WaitInv'
  <2> SUFFICES ASSUME NEW c \in bdshot
               PROVE  /\ Turned(c)' => Slow(c)'
                      /\ ~Turned(c)' => (hw'[c].mode = "in" => line[c] = <<>>)
    BY <1>1 DEF WaitInv
  <2>1. c \in Channels /\ Waiting(c)
    BY <1>1, <1>2 DEF Waiting
  <2>2. Turned(c)' <=> Turned(c) \/ c = channel
    BY <1>1, <1>2, <1>4, <2>1, ChannelFacts DEF Turned
  <2>3. CASE c = channel
    <3>1. info[c].state \in {"START", "12BIT_FIFO", "12BIT_TRANSFERRED"}
      BY <1>1, <1>2, <2>3, Fields DEF IInv, TurnInv
    <3> QED
      BY <1>1, <1>3, <2>2, <2>3, <3>1 DEF Slow
  <2>4. CASE c # channel
    BY <1>1, <1>3, <2>1, <2>2, <2>4 DEF SilenceInv, WaitInv, Slow
  <2> QED
    BY <2>3, <2>4
<1>8. AnswersInv'
  <2>1. \A a \in answers : a.channel \in Channels
    BY <1>2 DEF SilenceInv, AnswersInv
  <2> QED
    BY <1>1, <1>3, <1>6, <2>1 DEF SilenceInv, AnswersInv
<1>9. ReceivedInv'
  BY <1>1, <1>4 DEF SilenceInv, ReceivedInv
<1>10. CountInv'
  <2>1. \A c \in Channels : Waiting(c) /\ Waiting(c)'
    BY <1>1, <1>4, ChannelFacts DEF Waiting
  <2> QED
    BY <1>1, <2>1, SameCount DEF Puts
<1> QED
  BY <1>5, <1>7, <1>8, <1>9, <1>10 DEF SilenceInv

\* Before a channel's packet is put nobody can have answered it, and the
\* packet before was answered or not.
LEMMA PutHeard ==
  ASSUME IInv, SilenceInv, at = "put", channel \in bdshot
  PROVE  /\ channel \in Channels /\ Puts(channel) = passes - 1 /\ passes \in Int
         /\ \A a \in answers : a.channel = channel => a.pass \in Int /\ a.pass < passes
<1>1. channel \in Channels /\ passes \in Int
  BY DEF IInv, KindsInv
<1>2. Waiting(channel) /\ Turned(channel)
  BY <1>1, ChannelFacts DEF Waiting, Turned
<1>3. hw[channel].mode = "out"
  BY <1>2 DEF SilenceInv, WaitInv, Slow
<1> QED
  BY <1>1, <1>2, <1>3 DEF Puts, SilenceInv, AnswersInv

\* A packet put, the one before is counted as answered or missing.
LEMMA PutCounted ==
  ASSUME IInv, SilenceInv, at = "put", channel \in bdshot,
         UNCHANGED <<answers, passes, disturbed>>, NEW after, after = passes,
         NEW count, count = info[channel].noResponse + IF Silent(channel) THEN 1 ELSE 0,
         NEW heard, heard = {a \in answers : a.channel = channel /\ a.pass < after},
         NEW lost, lost = {a \in heard : {a.pass, a.pass + 1} \cap disturbed # {}}
  PROVE  /\ after - Cardinality(heard) <= count
         /\ count <= (after - Cardinality(heard)) + Cardinality(lost)
<1>1. /\ channel \in Channels /\ info[channel].noResponse \in Nat /\ Puts(channel) = passes - 1
      /\ passes \in Int /\ IsFiniteSet(HeardOf(channel)) /\ IsFiniteSet(LostOf(channel))
      /\ Cardinality(HeardOf(channel)) \in Nat /\ Cardinality(LostOf(channel)) \in Nat
  BY CountFacts, PutHeard
<1>2. /\ Puts(channel) - Cardinality(HeardOf(channel)) <= info[channel].noResponse
      /\ info[channel].noResponse
           <= (Puts(channel) - Cardinality(HeardOf(channel))) + Cardinality(LostOf(channel))
  BY DEF SilenceInv, CountInv, Counted
<1>3. Silent(channel) <=> channel \notin recvMask
  BY DEF Silent
<1>4. \A a \in answers : a.channel = channel => a.pass \in Int /\ a.pass < passes
  BY PutHeard
<1>5. CASE \A a \in answers : a.channel = channel => a.pass # passes - 1
  <2>1. heard = HeardOf(channel)
    BY <1>1, <1>4, <1>5 DEF HeardOf
  <2>2. lost = LostOf(channel)
    BY <2>1 DEF LostOf
  <2>3. channel \notin recvMask
    <3>1. channel \in recvMask => \E a \in answers : a.channel = channel /\ a.pass \in Int
                                                     /\ passes - 1 <= a.pass
      BY DEF IInv, AnswerInv, Among
    <3>2. \A n \in Int : passes - 1 <= n /\ n < passes => n = passes - 1
      BY <1>1
    <3> QED
      BY <1>4, <1>5, <3>1, <3>2
  <2>4. count = info[channel].noResponse + 1
    BY <1>3, <2>3
  <2> DEFINE h == Cardinality(HeardOf(channel))
             l == Cardinality(LostOf(channel))
  <2>5. Cardinality(heard) = h /\ Cardinality(lost) = l
    BY <2>1, <2>2
  <2>6. /\ h \in Nat /\ l \in Nat /\ (passes - 1) - h <= info[channel].noResponse
        /\ info[channel].noResponse <= ((passes - 1) - h) + l
    BY <1>1, <1>2
  <2> HIDE DEF h, l
  <2> QED
    BY <1>1, <2>4, <2>5, <2>6
<1>6. CASE \E a \in answers : a.channel = channel /\ a.pass = passes - 1
  <2>1. PICK a \in answers : a.channel = channel /\ a.pass = passes - 1
    BY <1>6
  <2>2. \A b \in answers : b.channel = channel /\ b.pass = passes - 1 => b = a
    BY <2>1 DEF SilenceInv, AnswersInv
  <2>3. heard = HeardOf(channel) \cup {a} /\ a \notin HeardOf(channel)
    BY <1>1, <1>4, <2>1, <2>2 DEF HeardOf
  <2>4. Cardinality(heard) = Cardinality(HeardOf(channel)) + 1
    BY <1>1, <2>3, FS_AddElement
  <2>5. a \notin LostOf(channel) /\ LostOf(channel) \subseteq lost
        /\ lost \subseteq LostOf(channel) \cup {a}
    BY <2>3 DEF LostOf
  <2>6. CASE channel \in recvMask
    <3>1. IsFiniteSet(LostOf(channel) \cup {a})
      BY <1>1, FS_AddElement
    <3>2. IsFiniteSet(lost) /\ Cardinality(lost) \in Nat
          /\ Cardinality(LostOf(channel)) <= Cardinality(lost)
      BY <1>1, <2>5, <3>1, FS_Subset, FS_CardinalityType
    <3> QED
      BY <1>1, <1>2, <1>3, <2>4, <2>6, <3>2
  <2>7. CASE channel \notin recvMask
    <3>1. a.pass + 1 = passes
      BY <1>1, <2>1
    <3>2. {a.pass, a.pass + 1} \cap disturbed # {}
      BY <2>1, <2>7, <3>1 DEF SilenceInv, ReceivedInv
    <3>3. lost = LostOf(channel) \cup {a}
      BY <2>3, <2>5, <3>2
    <3>4. Cardinality(lost) = Cardinality(LostOf(channel)) + 1
      BY <1>1, <2>5, <3>3, FS_AddElement
    <3> QED
      BY <1>1, <1>2, <1>3, <2>4, <2>7, <3>4
  <2> QED
    BY <2>6, <2>7
<1> QED
  BY <1>5, <1>6

\* A packet put, its channel's count moves on to it.
LEMMA TriggerPutSilence == ASSUME IInv, SilenceInv, IInv', TriggerPut PROVE SilenceInv'
<1> DEFINE former == IF channel = 1 THEN TimersCleared ELSE hw
           unit == IF info[channel].seg1 = Zeros THEN former[channel]
                   ELSE Put(former[channel], info[channel].seg1)
           n == info[channel].noResponse + IF Silent(channel) THEN 1 ELSE 0
<1>1. /\ at = "put"
      /\ info' = [info EXCEPT ![channel].noResponse = n]
      /\ hw' = [former EXCEPT ![channel] = unit]
      /\ IF channel < ChannelCount THEN channel' = channel + 1 /\ at' = "put"
         ELSE at' = "arm" /\ channel' = channel
      /\ UNCHANGED <<bdshot, recvMask, shifterIrq, line, passes, answers, disturbed>>
  BY DEF TriggerPut, InStep, fixed, handler, history
<1>2. channel \in Channels /\ bdshot \subseteq Channels /\ info \in [Channels -> Driver]
  BY DEF IInv, KindsInv
<1>3. /\ former \in [Channels -> Unit]
      /\ \A d \in Channels : /\ former[d].mode = hw[d].mode /\ former[d].sending = hw[d].sending
                             /\ former[d].buf = hw[d].buf /\ former[d].heard = hw[d].heard
                             /\ former[d].timer => hw[d].timer
  BY ClearedFacts DEF IInv, KindsInv
<1> HIDE DEF former
<1>4. unit.mode = hw[channel].mode /\ unit.heard = hw[channel].heard
  <2>1. former[channel] \in Unit /\ info[channel].seg1 \in Thirds
    BY <1>2, <1>3, Fields DEF IInv
  <2> QED
    BY <1>2, <1>3, <2>1, PutFacts
<1> HIDE DEF unit
<1>5. /\ \A d \in Channels : hw'[d].mode = hw[d].mode /\ hw'[d].heard = hw[d].heard
      /\ \A d \in Channels : d # channel => hw'[d] = former[d]
  BY <1>1, <1>2, <1>3, <1>4
<1>6. /\ \A d \in Channels : info'[d].state = info[d].state
      /\ \A d \in Channels : d # channel => info'[d] = info[d]
      /\ info'[channel].noResponse = n
  <2>1. info[channel] \in Driver
    BY <1>2
  <2> HIDE DEF n
  <2> DEFINE u == [info[channel] EXCEPT !.noResponse = n]
  <2>2. u.noResponse = n /\ u.state = info[channel].state
    BY <2>1 DEF Driver
  <2>3. info' = [info EXCEPT ![channel] = u]
    BY <1>1, <1>2
  <2> HIDE DEF u
  <2> QED
    BY <1>2, <2>2, <2>3
<1>7. /\ at' \in {"put", "arm"}
      /\ \A d \in Channels : Waiting(d)' <=> Waiting(d) /\ d # channel
  <2>1. \A d \in Channels : d \in Int /\ d <= ChannelCount
    BY ChannelFacts
  <2> QED
    BY <1>1, <1>2, <2>1, ChannelFacts DEF Waiting
<1> HIDE DEF n
<1>8. HeardInv'
  BY <1>1, <1>5, <1>6, <1>7 DEF SilenceInv, HeardInv
<1>9. WaitInv'
  <2> SUFFICES ASSUME NEW d \in bdshot, Waiting(d)'
               PROVE  Slow(d)' /\ Turned(d)'
    BY <1>1 DEF WaitInv
  <2>1. d \in Channels /\ Waiting(d) /\ d # channel
    BY <1>2, <1>7
  <2>2. Turned(d) /\ Turned(d)'
    BY <1>1, <1>7, <2>1 DEF Turned, Waiting
  <2>3. Slow(d)
    BY <2>1, <2>2 DEF SilenceInv, WaitInv
  <2> QED
    BY <1>3, <1>5, <1>6, <2>1, <2>2, <2>3 DEF Slow
<1>10. AnswersInv' /\ ReceivedInv'
  <2>1. \A a \in answers : a.channel \in Channels
    BY <1>2 DEF SilenceInv, AnswersInv
  <2> QED
    BY <1>1, <1>5, <1>7, <2>1 DEF SilenceInv, AnswersInv, ReceivedInv
<1>11. CountInv'
  <2> SUFFICES ASSUME NEW d \in bdshot PROVE Counted(d)'
    BY <1>1 DEF CountInv
  <2>1. d \in Channels
    BY <1>2
  <2>2. CASE d # channel
    <3>1. Puts(d)' = Puts(d)
      BY <1>1, <1>7, <2>1, <2>2 DEF Puts
    <3>2. HeardOf(d)' = HeardOf(d)
      BY <1>1, <3>1 DEF HeardOf
    <3> QED
      BY <1>1, <1>6, <2>1, <2>2, <3>1, <3>2, CountKept
  <2>3. CASE d = channel
    <3>1. Puts(d)' = passes
      BY <1>1, <1>7, <2>1, <2>3 DEF Puts
    <3> DEFINE heard == HeardOf(d)'
               lost == LostOf(d)'
    <3>2. heard = {a \in answers : a.channel = channel /\ a.pass < passes}
      BY <1>1, <2>3, <3>1 DEF HeardOf
    <3>3. lost = {a \in heard : {a.pass, a.pass + 1} \cap disturbed # {}}
      BY <1>1 DEF LostOf
    <3> HIDE DEF heard, lost
    <3>4. /\ passes - Cardinality(heard) <= n
          /\ n <= (passes - Cardinality(heard)) + Cardinality(lost)
      BY <1>1, <2>3, <3>2, <3>3, PutCounted DEF n
    <3>5. Cardinality(HeardOf(d))' = Cardinality(heard) /\ Cardinality(LostOf(d))' = Cardinality(lost)
      BY DEF heard, lost
    <3> QED
      BY <1>6, <2>3, <3>1, <3>4, <3>5 DEF Counted
  <2> QED
    BY <2>2, <2>3
<1> QED
  BY <1>8, <1>9, <1>10, <1>11 DEF SilenceInv

\* An answer that comes as the pass is set up disturbs it.
LEMMA TriggerArmSilence == ASSUME IInv, WholeInv, SilenceInv, IInv', TriggerArm PROVE SilenceInv'
<1>1. /\ at = "arm" /\ at' = "idle" /\ hw' = TimersCleared /\ shifterIrq' = Channels
      /\ UNCHANGED <<bdshot, info, line, passes, answers, disturbed>>
  BY DEF TriggerArm, InStep, fixed, history
<1>2. bdshot \subseteq Channels
  BY DEF IInv, KindsInv
<1>3. \A d \in Channels : hw'[d].mode = hw[d].mode /\ hw'[d].buf = hw[d].buf
                          /\ hw'[d].heard = hw[d].heard
  BY <1>1, ClearedFacts DEF IInv
<1>4. HeardInv'
  BY <1>1, <1>3 DEF SilenceInv, HeardInv
<1>5. WaitInv'
  BY <1>1 DEF WaitInv, Waiting
<1>6. \A a \in answers : a.channel \in Channels
  BY <1>2 DEF SilenceInv, AnswersInv
<1>7. AnswersInv'
  BY <1>1, <1>3, <1>6 DEF SilenceInv, AnswersInv
<1>8. ReceivedInv'
  <2>1. passes \notin disturbed => \A a \in answers : a.pass # passes
    BY <1>1, <1>6 DEF SilenceInv, AnswersInv, WholeInv, SetUpInv, SetUp
  <2> QED
    BY <1>1, <2>1 DEF ReceivedInv
<1>9. CountInv'
  <2>1. \A c \in Channels : ~Waiting(c) /\ ~Waiting(c)'
    BY <1>1 DEF Waiting
  <2> QED
    BY <1>1, <2>1, SameCount DEF Puts
<1> QED
  BY <1>4, <1>5, <1>7, <1>8, <1>9 DEF SilenceInv

\* What has come in is received, and a packet put and not fed is fed.
LEMMA ServeShiftersSilence ==
  ASSUME IInv, SilenceInv, IInv', ServeShifters PROVE SilenceInv'
<1> DEFINE flagged == {c \in Channels : ShifterFlag(c)}
           feeding == {c \in flagged : FeedsSecondHalf(c)}
           received == {c \in flagged : info[c].state = "RECEIVE"}
<1>1. /\ shifterIrq' = shifterIrq \ flagged /\ recvMask' = recvMask \cup received
      /\ info' = [c \in Channels |->
           IF c \in feeding THEN [info[c] EXCEPT !.state = "12BIT_FIFO"]
           ELSE IF c \in received THEN [info[c] EXCEPT !.state = "RECEIVE_COMPLETE", !.raw = hw[c].buf]
           ELSE info[c]]
      /\ hw' = [c \in Channels |->
           IF c \in feeding THEN Put(hw[c], info[c].irqData)
           ELSE IF c \in received THEN [hw[c] EXCEPT !.buf = <<>>] ELSE hw[c]]
      /\ UNCHANGED <<bdshot, at, channel, passes, line, answers, disturbed>>
  BY DEF ServeShifters, fixed, loop, history
<1>2. ASSUME NEW c \in Channels
      PROVE  /\ c \in feeding <=> ShifterFlag(c) /\ info[c].state = "START"
             /\ c \in received <=> ShifterFlag(c) /\ info[c].state = "RECEIVE"
             /\ c \in flagged <=> ShifterFlag(c)
  BY DEF FeedsSecondHalf
<1> HIDE DEF flagged, feeding, received
<1>3. ASSUME NEW c \in Channels
      PROVE  /\ hw'[c].mode = hw[c].mode /\ hw'[c].timer = hw[c].timer
             /\ hw'[c].heard = hw[c].heard
             /\ info'[c].noResponse = info[c].noResponse
             /\ c \notin feeding /\ c \notin received => hw'[c] = hw[c] /\ info'[c] = info[c]
             /\ c \in feeding => info'[c].state = "12BIT_FIFO" /\ hw'[c] = Put(hw[c], info[c].irqData)
  <2>1. hw[c] \in Unit /\ info[c] \in Driver /\ info[c].irqData \in Thirds
    BY Fields DEF IInv
  <2>2. CASE c \in feeding
    <3>1. hw'[c] = Put(hw[c], info[c].irqData) /\ info'[c] = [info[c] EXCEPT !.state = "12BIT_FIFO"]
      BY <1>1, <2>2
    <3>2. info'[c].noResponse = info[c].noResponse /\ info'[c].state = "12BIT_FIFO"
      BY <2>1, <3>1 DEF Driver
    <3> QED
      BY <2>1, <2>2, <3>1, <3>2, PutFacts
  <2>3. CASE c \notin feeding /\ c \in received
    BY <1>1, <2>1, <2>3 DEF Unit, Driver
  <2>4. CASE c \notin feeding /\ c \notin received
    BY <1>1, <2>4
  <2> QED
    BY <2>2, <2>3, <2>4
<1>4. bdshot \subseteq Channels
  BY DEF IInv, KindsInv
<1>5. HeardInv'
  <2> SUFFICES ASSUME NEW c \in Channels, hw'[c].mode = "in", ~hw'[c].heard
               PROVE  info'[c].state # "RECEIVE_COMPLETE" /\ (at = "idle" => c \in shifterIrq')
    BY <1>1 DEF HeardInv
  <2>1. hw[c].mode = "in" /\ ~hw[c].heard
    BY <1>3
  <2>2. ~ShifterFlag(c)
    BY <2>1 DEF IInv, ListenInv, ShifterFlag
  <2>3. c \notin flagged /\ info'[c] = info[c]
    BY <1>2, <1>3, <2>2
  <2> QED
    BY <1>1, <2>1, <2>3 DEF SilenceInv, HeardInv
<1>6. WaitInv'
  <2> SUFFICES ASSUME NEW c \in bdshot, Waiting(c)
               PROVE  /\ Turned(c) => Slow(c)'
                      /\ ~Turned(c) => (hw'[c].mode = "in" => line[c] = <<>>)
    BY <1>1 DEF WaitInv, Waiting, Turned
  <2>1. c \in Channels
    BY <1>4
  <2>2. ~Turned(c) => (hw'[c].mode = "in" => line[c] = <<>>)
    BY <1>3, <2>1 DEF SilenceInv, WaitInv
  <2>3. ASSUME Turned(c) PROVE Slow(c)'
    <3>1. Slow(c)
      BY <2>3 DEF SilenceInv, WaitInv
    <3>2. CASE info[c].state = "START"
      <4>1. c \in feeding
        BY <1>2, <2>1, <3>1, <3>2 DEF Slow, ShifterFlag
      <4>2. hw[c].sending = <<>> /\ ~hw[c].timer /\ hw[c].mode = "out" /\ hw[c].buf = <<>>
        BY <3>1, <3>2 DEF Slow
      <4>3. hw[c] \in Unit /\ info[c].irqData \in Thirds
        BY <2>1, Fields DEF IInv
      <4>4. hw'[c].buf = <<>>
        BY <1>3, <2>1, <4>1, <4>2, <4>3, PutFacts
      <4> QED
        BY <1>3, <2>1, <4>1, <4>2, <4>4 DEF Slow
    <3>3. CASE info[c].state # "START"
      <4>1. c \notin feeding /\ c \notin received
        BY <1>2, <2>1, <3>1, <3>3 DEF Slow
      <4> QED
        BY <1>3, <2>1, <3>1, <4>1 DEF Slow
    <3> QED
      BY <3>2, <3>3
  <2> QED
    BY <2>2, <2>3
<1>7. \A a \in answers : a.channel \in Channels
  BY <1>4, SMTT(30) DEF SilenceInv, AnswersInv
<1>8. AnswersInv'
  <2>1. \A a \in answers : hw'[a.channel].mode = hw[a.channel].mode
                           /\ hw'[a.channel].heard = hw[a.channel].heard
    BY <1>3, <1>7
  <2> QED
    BY <1>1, <2>1, ZenonT(40) DEF SilenceInv, AnswersInv
<1>9. ReceivedInv'
  <2>1. \A c \in Channels : Coming(c) => c \in received
    BY <1>2 DEF Coming, ShifterFlag
  <2> QED
    BY <1>1, <1>7, <2>1 DEF SilenceInv, ReceivedInv
<1>10. CountInv'
  <2>1. \A c \in Channels : Puts(c)' = Puts(c) /\ info'[c].noResponse = info[c].noResponse
    BY <1>1, <1>3 DEF Puts, Waiting
  <2> QED
    BY <1>1, <2>1, SameCount
<1> QED
  BY <1>5, <1>6, <1>8, <1>9, <1>10 DEF SilenceInv

\* A line just turned around has heard nothing yet.
LEMMA ServeTimerSilence == ASSUME IInv, SilenceInv, IInv', ServeTimer PROVE SilenceInv'
<1>1. /\ isr # 0
      /\ UNCHANGED <<bdshot, recvMask, at, channel, passes, line, answers, disturbed>>
  BY DEF ServeTimer, fixed, loop, history
<1>2. isr \in Channels /\ bdshot \subseteq Channels
  BY <1>1 DEF IInv, KindsInv, Channels
<1>3. timerIrq # {}
  BY <1>1 DEF IInv, BootInv
<1>4. \/ ~hw[isr].timer /\ UNCHANGED <<info, hw, shifterIrq>>
      \/ /\ hw[isr].timer /\ info' = [info EXCEPT ![isr].state = AfterTimer(isr)]
         /\ hw' = [hw EXCEPT ![isr] = Configured("in")] /\ shifterIrq' = shifterIrq \cup {isr}
         /\ AfterTimer(isr) = "RECEIVE" /\ info[isr].state # "RECEIVE"
      \/ /\ hw[isr].timer /\ info' = [info EXCEPT ![isr].state = AfterTimer(isr)]
         /\ hw' = [hw EXCEPT ![isr].timer = FALSE] /\ shifterIrq' = shifterIrq
         /\ ~(AfterTimer(isr) = "RECEIVE" /\ info[isr].state # "RECEIVE")
  BY <1>2 DEF ServeTimer, TurnAround
<1>5. info \in [Channels -> Driver] /\ hw \in [Channels -> Unit]
  BY DEF IInv, KindsInv
<1>6. /\ \A d \in Channels : d # isr \/ ~hw[isr].timer => info'[d] = info[d] /\ hw'[d] = hw[d]
      /\ \A d \in Channels : info'[d].noResponse = info[d].noResponse
      /\ hw[isr].timer => info'[isr].state = AfterTimer(isr)
      /\ shifterIrq \subseteq shifterIrq'
  <2>1. CASE ~hw[isr].timer
    BY <1>4, <2>1
  <2>2. CASE hw[isr].timer
    <3>1. info' = [info EXCEPT ![isr].state = AfterTimer(isr)] /\ shifterIrq \subseteq shifterIrq'
      BY <1>4, <2>2
    <3>2. \A d \in Channels : d # isr => hw'[d] = hw[d]
      BY <1>2, <1>4, <1>5, <2>2
    <3> DEFINE u == [info[isr] EXCEPT !.state = AfterTimer(isr)]
    <3>3. u.state = AfterTimer(isr) /\ u.noResponse = info[isr].noResponse
      BY <1>2, <1>5 DEF Driver
    <3>4. info' = [info EXCEPT ![isr] = u]
      BY <1>2, <1>5, <3>1
    <3> HIDE DEF u
    <3> QED
      BY <1>2, <1>5, <2>2, <3>1, <3>2, <3>3, <3>4
  <2> QED
    BY <2>1, <2>2
<1> DEFINE Turning ==
             /\ hw[isr].timer /\ hw'[isr].mode = "in" /\ AfterTimer(isr) = "RECEIVE"
             /\ info[isr].state # "RECEIVE" /\ isr \in shifterIrq'
           Staying ==
             /\ hw[isr].timer /\ hw'[isr].mode = hw[isr].mode /\ hw'[isr].sending = hw[isr].sending
             /\ hw'[isr].buf = hw[isr].buf /\ hw'[isr].heard = hw[isr].heard /\ ~hw'[isr].timer
             /\ ~(AfterTimer(isr) = "RECEIVE" /\ info[isr].state # "RECEIVE")
<1>7. ~hw[isr].timer \/ Turning \/ Staying
  BY <1>2, <1>4, <1>5 DEF Unit, Configured
<1>8. Turning => /\ hw[isr].mode = "out" /\ line[isr] # <<>> /\ ~(Waiting(isr) /\ ~Turned(isr))
                 /\ ~(Waiting(isr) /\ Turned(isr))
  <2> SUFFICES ASSUME Turning
               PROVE  /\ hw[isr].mode = "out" /\ line[isr] # <<>> /\ ~(Waiting(isr) /\ ~Turned(isr))
                      /\ ~(Waiting(isr) /\ Turned(isr))
    OBVIOUS
  <2>1. info[isr].state = "12BIT_TRANSFERRED" /\ isr \in bdshot
    BY DEF AfterTimer
  <2>2. hw[isr].mode \in {"in", "out"} /\ hw[isr].timer \in BOOLEAN
    BY <1>2, Fields DEF IInv
  <2>3. ~(at = "turn" /\ isr = channel)
    BY <2>1, <2>2 DEF IInv, TurnInv
  <2>4. hw[isr].mode = "out"
    BY <1>2, <2>1, <2>2, <2>3 DEF IInv, ListenInv
  <2>5. line[isr] # <<>> /\ ~Ahead(isr)
    BY <1>2, <2>4 DEF IInv, SendInv, AheadInv
  <2>6. ~(Waiting(isr) /\ ~Turned(isr))
    <3>1. channel \in Int /\ isr \in Int
      BY <1>2, ChannelFacts DEF IInv, KindsInv
    <3> QED
      BY <2>3, <2>5, <3>1 DEF Waiting, Turned, Ahead
  <2>7. ~(Waiting(isr) /\ Turned(isr))
    BY <2>1 DEF SilenceInv, WaitInv, Slow
  <2> QED
    BY <2>4, <2>5, <2>6, <2>7
<1>9. /\ AfterTimer(isr) = "RECEIVE_COMPLETE" => info[isr].state = "RECEIVE_COMPLETE"
      /\ info[isr].state = "RECEIVE" => AfterTimer(isr) = "RECEIVE"
      /\ info[isr].state = "12BIT_FIFO" => AfterTimer(isr) = "12BIT_TRANSFERRED"
  BY DEF AfterTimer
<1> HIDE DEF Turning
<1>10. \A a \in answers : a.channel \in Channels
  BY <1>2 DEF SilenceInv, AnswersInv
<1>11. HeardInv'
  <2> SUFFICES ASSUME NEW c \in Channels, hw'[c].mode = "in", ~hw'[c].heard
               PROVE  info'[c].state # "RECEIVE_COMPLETE" /\ (at = "idle" => c \in shifterIrq')
    BY <1>1 DEF HeardInv
  <2>1. CASE c # isr \/ ~hw[isr].timer
    BY <1>6, <2>1 DEF SilenceInv, HeardInv
  <2>2. CASE c = isr /\ Turning
    BY <1>6, <2>2 DEF Turning
  <2>3. CASE c = isr /\ Staying
    BY <1>6, <1>9, <2>3 DEF SilenceInv, HeardInv
  <2> QED
    BY <1>7, <2>1, <2>2, <2>3
<1>12. WaitInv'
  <2> SUFFICES ASSUME NEW c \in bdshot, Waiting(c)
               PROVE  /\ Turned(c) => Slow(c)'
                      /\ ~Turned(c) => (hw'[c].mode = "in" => line[c] = <<>>)
    BY <1>1 DEF WaitInv, Waiting, Turned
  <2>1. c \in Channels
    BY <1>2
  <2>2. CASE c # isr \/ ~hw[isr].timer
    BY <1>6, <2>1, <2>2 DEF SilenceInv, WaitInv, Slow
  <2>3. CASE c = isr /\ Staying
    BY <1>6, <1>9, <2>3 DEF SilenceInv, WaitInv, Slow
  <2> QED
    BY <1>7, <1>8, <2>2, <2>3
<1>13. AnswersInv'
  <2>1. ASSUME NEW a \in answers
        PROVE  /\ a.pass = passes =>
                    hw'[a.channel].mode = "in" /\ hw'[a.channel].heard /\ line[a.channel] # <<>>
               /\ a.pass = passes - 1 /\ hw'[a.channel].mode = "in" /\ line[a.channel] = <<>> =>
                    hw'[a.channel].heard
    <3>1. a.channel \in Channels
      BY <1>10
    <3>2. CASE a.channel # isr \/ ~hw[isr].timer
      BY <1>6, <3>1, <3>2 DEF SilenceInv, AnswersInv
    <3>3. CASE a.channel = isr /\ Turning
      BY <1>8, <3>3 DEF SilenceInv, AnswersInv
    <3>4. CASE a.channel = isr /\ Staying
      BY <3>4 DEF SilenceInv, AnswersInv
    <3> QED
      BY <1>7, <3>2, <3>3, <3>4
  <2> QED
    BY <1>1, <2>1 DEF SilenceInv, AnswersInv
<1>14. ReceivedInv'
  <2>1. ASSUME NEW c \in Channels, Coming(c) PROVE Coming(c)'
    <3>1. CASE c # isr \/ ~hw[isr].timer
      BY <1>6, <2>1, <3>1 DEF Coming
    <3>2. CASE c = isr /\ Turning
      BY <1>8, <2>1, <3>2 DEF Coming
    <3>3. CASE c = isr /\ Staying
      BY <1>6, <1>9, <2>1, <3>3 DEF Coming
    <3> QED
      BY <1>7, <3>1, <3>2, <3>3
  <2> QED
    BY <1>1, <1>10, <2>1 DEF SilenceInv, ReceivedInv
<1>15. CountInv'
  <2>1. \A c \in Channels : Puts(c)' = Puts(c)
    BY <1>1 DEF Puts, Waiting
  <2> QED
    BY <1>1, <1>6, <2>1, SameCount
<1> QED
  BY <1>11, <1>12, <1>13, <1>14, <1>15 DEF SilenceInv

\* The fetch counts only what it decodes.
LEMMA FetchSilence == ASSUME IInv, SilenceInv, IInv', SampleFetch PROVE SilenceInv'
<1>1. /\ at = "idle"
      /\ UNCHANGED <<bdshot, recvMask, shifterIrq, at, channel, passes, hw, line, answers, disturbed>>
      /\ info' = info \/ (FetchDecode /\ info' = [info EXCEPT ![fetch] = Decoded(@, info[fetch].raw[1])])
  BY DEF SampleFetch, FetchBegin, FetchCheck, FetchDecode, FetchMayRun, handler, loop, history
<1>2. ASSUME NEW c \in Channels
      PROVE  info'[c].state = info[c].state /\ info'[c].noResponse = info[c].noResponse
  <2>1. info[c] \in Driver /\ info \in [Channels -> Driver]
    BY Fields DEF IInv, KindsInv
  <2>2. CASE info' = info
    BY <2>2
  <2>3. CASE info' = [info EXCEPT ![fetch] = Decoded(@, info[fetch].raw[1])]
    <3> DEFINE answer == info[fetch].raw[1]
    <3> HIDE DEF answer
    <3>1. /\ Decoded(info[c], answer).state = info[c].state
          /\ Decoded(info[c], answer).noResponse = info[c].noResponse
      BY <2>1 DEF Decoded, Driver
    <3>2. info'[c] = info[c] \/ info'[c] = Decoded(info[c], answer)
      BY <2>1, <2>3 DEF answer
    <3> QED
      BY <3>1, <3>2
  <2> QED
    BY <1>1, <2>2, <2>3
<1>3. bdshot \subseteq Channels /\ \A a \in answers : a.channel \in Channels
  BY DEF IInv, KindsInv, SilenceInv, AnswersInv
<1>4. HeardInv' /\ WaitInv' /\ AnswersInv'
  BY <1>1, <1>2, <1>3 DEF SilenceInv, HeardInv, WaitInv, Waiting, AnswersInv
<1>5. ReceivedInv'
  BY <1>1, <1>2, <1>3 DEF SilenceInv, ReceivedInv, Coming
<1>6. CountInv'
  <2>1. \A c \in Channels : Puts(c)' = Puts(c)
    BY <1>1 DEF Puts, Waiting
  <2> QED
    BY <1>1, <1>2, <2>1, SameCount
<1> QED
  BY <1>4, <1>5, <1>6 DEF SilenceInv

\* No step miscounts.
LEMMA NextSilence ==
  ASSUME IInv, WholeInv, SilenceInv, IInv', [Next]_vars PROVE SilenceInv'
<1>1. CASE UNCHANGED vars
  <2>1. HeardInv' /\ WaitInv' /\ AnswersInv' /\ ReceivedInv'
    BY <1>1 DEF vars, SilenceInv, HeardInv, WaitInv, Waiting, Turned, Slow, AnswersInv, ReceivedInv,
                Coming
  <2>2. \A c \in Channels : Puts(c)' = Puts(c)
    BY <1>1 DEF vars, Puts, Waiting
  <2>3. CountInv'
    BY <1>1, <2>2, SameCount DEF vars
  <2> QED
    BY <2>1, <2>3 DEF SilenceInv
<1>2. CASE Loop
  BY <1>2, SetPacketSilence, TurnBackSilence, TriggerPutSilence, TriggerArmSilence DEF Loop
<1>3. CASE Begin \/ Interrupt \/ SampleFetch
  BY <1>3, BeginSilence, ServeShiftersSilence, ServeTimerSilence, FetchSilence DEF Interrupt
<1>4. CASE \E c \in Channels : HalfSent(c) \/ \E answer \in Answers : Response(c, answer)
  BY <1>4, HalfSentSilence, ResponseSilence
<1> QED
  BY <1>1, <1>2, <1>3, <1>4 DEF Next

\* Whom each listening line has heard, what of it the driver has received, and
\* how far the count has come, at every step of loop, interrupt and hardware.
THEOREM SilenceInductive == Spec => []SilenceInv
<1>1. Init => SilenceInv
  <2> SUFFICES ASSUME Init PROVE SilenceInv
    OBVIOUS
  <2>1. /\ at = "idle" /\ answers = {} /\ passes = 0 /\ bdshot \subseteq Channels
        /\ hw = [c \in Channels |-> Configured("out")]
        /\ \A c \in Channels : info[c].noResponse = 0
    BY DEF Init
  <2>2. HeardInv /\ WaitInv
    BY <2>1 DEF Configured, HeardInv, WaitInv, Waiting
  <2>3. AnswersInv /\ ReceivedInv
    BY <2>1, FS_EmptySet DEF AnswersInv, ReceivedInv
  <2>4. ASSUME NEW c \in bdshot PROVE Counted(c)
    <3>1. Puts(c) = 0 /\ HeardOf(c) = {} /\ LostOf(c) = {} /\ info[c].noResponse = 0
      BY <2>1 DEF Puts, Waiting, HeardOf, LostOf
    <3>2. Cardinality(HeardOf(c)) = 0 /\ Cardinality(LostOf(c)) = 0
      BY <3>1, FS_EmptySet
    <3> QED
      BY <3>1, <3>2 DEF Counted
  <2> QED
    BY <2>2, <2>3, <2>4 DEF SilenceInv, CountInv
<1>2. IInv /\ WholeInv /\ SilenceInv /\ IInv' /\ [Next]_vars => SilenceInv'
  BY NextSilence
<1> QED
  BY <1>1, <1>2, Inductive, LinesInductive, PTL DEF Spec

\* A bidirectional channel's count of missing answers is the number of its
\* packets before this pass's that nobody answered, however often the loop
\* and its motor controller crossed: only an answer in a disturbed pass may
\* count as missing.
THEOREM SilenceIsCounted == Spec => []NoResponseIsSilence
<1>1. IInv /\ SilenceInv => NoResponseIsSilence
  <2> SUFFICES ASSUME IInv, SilenceInv, at = "idle", NEW c \in bdshot
               PROVE  LET heard == {a \in answers : a.channel = c /\ a.pass < passes}
                          silent == passes - Cardinality(heard)
                          lost == {a \in heard : {a.pass, a.pass + 1} \cap disturbed # {}}
                      IN info[c].noResponse \in silent .. silent + Cardinality(lost)
    BY DEF NoResponseIsSilence
  <2> DEFINE heard == {a \in answers : a.channel = c /\ a.pass < passes}
             lost == {a \in heard : {a.pass, a.pass + 1} \cap disturbed # {}}
  <2>1. Puts(c) = passes
    BY DEF Puts, Waiting
  <2>2. heard = HeardOf(c) /\ lost = LostOf(c)
    BY <2>1 DEF HeardOf, LostOf
  <2> HIDE DEF heard, lost
  <2>3. /\ info[c].noResponse \in Nat /\ passes \in Int
        /\ Cardinality(heard) \in Nat /\ Cardinality(lost) \in Nat
    BY <2>1, <2>2, CountFacts
  <2>4. /\ passes - Cardinality(heard) <= info[c].noResponse
        /\ info[c].noResponse <= (passes - Cardinality(heard)) + Cardinality(lost)
    BY <2>1, <2>2 DEF SilenceInv, CountInv, Counted
  <2>5. info[c].noResponse
          \in (passes - Cardinality(heard)) .. (passes - Cardinality(heard)) + Cardinality(lost)
    BY <2>3, <2>4
  <2> QED
    BY <2>5 DEF heard, lost
<1> QED
  BY <1>1, Inductive, SilenceInductive, PTL

=============================================================================
