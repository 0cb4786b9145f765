-------------------------- MODULE SerialRx_proofs --------------------------
(***************************************************************************)
(* The parser with its rescan, for every line, damage, payload and size.   *)
(*                                                                         *)
(* What a parser makes of a stream is an account, Follows: it holds the    *)
(* end of the stream, and each frame it accepted is in it whole.  One unit *)
(* keeps the account, whether it is scanned for the first time or again;   *)
(* so a replay keeps it of the rejected candidate, whose units are an end  *)
(* of the stream themselves; so a drain keeps it of all that arrived.      *)
(*                                                                         *)
(* That nothing is invented follows from the account.  That a frame not    *)
(* hurt is found needs more: where the parser stands against the frames'   *)
(* boundaries.  That it finds what the ground side's decoder finds is that *)
(* it keeps up with that decoder's steps, put in the parser's direction.   *)
(***************************************************************************)
EXTENDS SerialRx, SequenceTheorems, FiniteSetTheorems, NaturalsInduction, WellFoundedInduction, TLAPS

-----------------------------------------------------------------------------
(* The parser and what it has seen                                         *)

Members(s) == {s[i] : i \in DOMAIN s}

Parser ==
  [state : {"sync0", "sync1", "frame"}, units : Seq(Nat), last : Seq(Nat), gaps : Nat,
   accepted : Seq(Nat), published : Seq(Nat)]

\* a candidate fits the buffers, and is no whole frame
Shape(p) ==
  /\ p.state # "frame" => p.units = <<>>
  /\ Len(p.units) < HeaderUnits + MaxPayload + 1
  /\ Len(p.units) >= HeaderUnits => LengthOk(p.units[1]) /\ Len(p.units) < HeaderUnits + p.units[1] + 1

\* s ends with t, or has it somewhere
Suffix(t, s) == \E k \in Nat : Len(s) = k + Len(t) /\ \A i \in 1 .. Len(t) : s[k + i] = t[i]
Contains(s, t) == \E k \in Nat : k + Len(t) <= Len(s) /\ \A i \in 1 .. Len(t) : s[k + i] = t[i]

\* what the parser holds of the stream, the sync word included
Candidate(p) ==
  IF p.state = "sync0" THEN <<>> ELSE IF p.state = "sync1" THEN <<Sync0>>
  ELSE <<Sync0, Sync1>> \o p.units

\* a unit taken without a decision on the candidate, or after which it is dropped
Moved(p, q, unit) ==
  /\ q \in Parser /\ Shape(q)
  /\ q.last = p.last /\ q.gaps = p.gaps /\ q.accepted = p.accepted /\ q.published = p.published
  /\ q.units = <<>> \/ q.units = Append(p.units, unit)
  /\ Suffix(Candidate(q), Append(Candidate(p), unit))
Accepting(p, q, unit) ==
  /\ p.state = "frame" /\ CrcOk(Append(p.units, unit))
  /\ Len(p.units) >= HeaderUnits
  /\ q = Scanning(Accept(p, Append(p.units, unit), unit - MaxField))

\* frame n in a stream
Carried(frames, s, n) == n \in DOMAIN frames /\ Contains(s, Line(n, frames[n]))

Ascending(s) == \A i, j \in DOMAIN s : i < j => s[i] < s[j]
Holes(s) == {i \in 1 .. Len(s) - 1 : (s[i + 1] - s[i]) % SeqWrap # 1 % SeqWrap}

\* trailers in the candidate are in order, and of frames later than those accepted
Sound(frames, p) ==
  /\ p \in Parser /\ Shape(p)
  /\ Ascending(p.accepted) /\ Ascending(p.published)
  /\ Members(p.accepted) \subseteq DOMAIN frames
  /\ \A n \in Members(p.published) :
       n \in Members(p.accepted) /\ Wanted(frames[n].topic, Len(frames[n].payload))
  /\ p.last = IF p.accepted = <<>> THEN <<>> ELSE <<p.accepted[Len(p.accepted)] % SeqWrap>>
  /\ p.gaps = Cardinality(Holes(p.accepted))
  /\ \A i, j \in DOMAIN p.units : i < j /\ p.units[j] > MaxField => p.units[i] < p.units[j]
  /\ \A i \in DOMAIN p.units : p.units[i] > MaxField =>
       \A n \in Members(p.accepted) : Trailer(n) < p.units[i]

\* a unit that is no trailer, or the trailer of a frame later than all there is
Later(p, unit) ==
  unit > MaxField => /\ \A n \in Members(p.accepted) : Trailer(n) < unit
                     /\ \A i \in DOMAIN p.units : p.units[i] < unit
Above(unit, old, s) ==
  unit > MaxField => (\A n \in old : Trailer(n) < unit) /\ \A i \in DOMAIN s : s[i] < unit

\* what a parser that had accepted old makes of stream s
Follows(frames, p, s, old) ==
  /\ Sound(frames, p)
  /\ Suffix(Candidate(p), s)
  /\ \A n \in Members(p.accepted) : n \in old \/ Carried(frames, s, n)
  /\ \A unit \in Nat : Above(unit, old, s) => Later(p, unit)


\* a unit scanned for the first time, or again
Stepped(again, p, unit) == IF again THEN ReplayByte(p, unit) ELSE RxByte(p, unit)
\* the parser after each of the units of a sequence
Fed(again, p, units, f) ==
  f = [i \in 0 .. Len(units) |-> IF i = 0 THEN p ELSE Stepped(again, f[i - 1], units[i])]

\* the first k units of a stream
First(s, k) == [i \in 1 .. k |-> s[i]]
\* trailers that come after the first k units are above what came before them
Rising(s, k, old) == \A j \in DOMAIN s : j > k => Above(s[j], old, First(s, j - 1))

\* a trailer can only end what arrives of a frame, and is that frame's
Ended(units, n) ==
  \A i \in DOMAIN units : units[i] <= MaxField \/ (i = Len(units) /\ units[i] = Trailer(n))

-----------------------------------------------------------------------------
(* The invariant                                                           *)

\* no trailer arrived before its frame was sent
StreamInv == \A i \in DOMAIN arrived : arrived[i] <= MaxField + Len(sent)

IInv ==
  /\ sent \in Seq(Frames) /\ arrived \in Seq(Nat)
  /\ hurt \subseteq Numbers /\ faults \in 0 .. MaxFaults
  /\ StreamInv
  /\ Follows(sent, rx, arrived, {})

\* before the first fault the stream ends where a frame does; what was hurt is
\* nowhere in the stream as it was sent
HurtInv ==
  /\ faults = 0 => hurt = {} /\ (arrived # <<>> => arrived[Len(arrived)] > MaxField)
  /\ \A n \in hurt : ~Carried(sent, arrived, n)

-----------------------------------------------------------------------------
(* Lemmas                                                                  *)

\* The least of a set of numbers.
LEMMA LeastNumber ==
  ASSUME NEW T \in SUBSET Nat, T # {}
  PROVE  \E n \in T : \A m \in T : n <= m
<1> DEFINE Less == {ss \in Nat \X Nat : ss[1] < ss[2]}
<1>1. IsWellFoundedOn(Less, Nat)
  BY NatLessThanWellFounded, Zenon DEF OpToRel
<1> HIDE DEF Less
<1>2. PICK n \in T : \A m \in T : ~(<<m, n>> \in Less)
  BY <1>1, WFMin
<1>3. \A m \in T : ~(m < n)
  BY <1>2 DEF Less
<1> QED
  BY <1>3

\* A sequence and the unit after it.
LEMMA AppendFacts ==
  ASSUME NEW s \in Seq(Nat), NEW unit \in Nat
  PROVE  /\ Append(s, unit) \in Seq(Nat) /\ Len(Append(s, unit)) = Len(s) + 1 /\ Len(s) \in Nat
         /\ Append(s, unit)[Len(s) + 1] = unit
         /\ \A i \in 1 .. Len(s) : Append(s, unit)[i] = s[i] /\ s[i] \in Nat
BY AppendProperties, LenProperties

\* The end of a sequence's end ends the sequence.
LEMMA SuffixTransitive ==
  ASSUME NEW r \in Seq(Nat), NEW s \in Seq(Nat), NEW t \in Seq(Nat), Suffix(r, s), Suffix(s, t)
  PROVE  Suffix(r, t)
<1>1. Len(r) \in Nat /\ Len(s) \in Nat /\ Len(t) \in Nat
  BY LenProperties
<1>2. PICK j \in Nat : Len(s) = j + Len(r) /\ \A i \in 1 .. Len(r) : s[j + i] = r[i]
  BY DEF Suffix
<1>3. PICK k \in Nat : Len(t) = k + Len(s) /\ \A i \in 1 .. Len(s) : t[k + i] = s[i]
  BY DEF Suffix
<1> DEFINE n == k + j
<1>4. n \in Nat /\ Len(t) = n + Len(r)
  BY <1>1, <1>2, <1>3
<1>5. ASSUME NEW i \in 1 .. Len(r) PROVE t[n + i] = r[i]
  <2>1. j + i \in 1 .. Len(s) /\ k + (j + i) = n + i
    BY <1>1, <1>2
  <2> QED
    BY <1>2, <1>3, <2>1
<1> HIDE DEF n
<1> QED
  BY <1>4, <1>5 DEF Suffix

\* Both go on alike.
LEMMA SuffixAppend ==
  ASSUME NEW s \in Seq(Nat), NEW t \in Seq(Nat), NEW unit \in Nat, Suffix(s, t)
  PROVE  Suffix(Append(s, unit), Append(t, unit))
<1>1. PICK k \in Nat : Len(t) = k + Len(s) /\ \A i \in 1 .. Len(s) : t[k + i] = s[i]
  BY DEF Suffix
<1>2. Len(Append(t, unit)) = k + Len(Append(s, unit))
  BY <1>1, AppendFacts
<1>3. ASSUME NEW i \in 1 .. Len(Append(s, unit)) PROVE Append(t, unit)[k + i] = Append(s, unit)[i]
  <2>1. CASE i = Len(s) + 1
    <3>1. k + i = Len(t) + 1
      BY <1>1, <2>1, AppendFacts
    <3> QED
      BY <2>1, <3>1, AppendFacts
  <2>2. CASE i # Len(s) + 1
    <3>1. Len(s) \in Nat /\ i \in 1 .. Len(s)
      BY <2>2, AppendFacts, SMTT(30)
    <3>2. k + i \in 1 .. Len(t)
      BY <1>1, <3>1
    <3> QED
      BY <1>1, <3>1, <3>2, AppendFacts
  <2> QED
    BY <2>1, <2>2
<1> QED
  BY <1>2, <1>3 DEF Suffix

\* Every sequence ends with itself and with nothing.
LEMMA SuffixSelf == ASSUME NEW s \in Seq(Nat) PROVE Suffix(s, s) /\ Suffix(<<>>, s)
<1>1. Len(s) \in Nat /\ Len(<<>>) = 0
  BY LenProperties
<1>2. Len(s) = 0 + Len(s) /\ \A i \in 1 .. Len(s) : s[0 + i] = s[i]
  BY <1>1
<1>3. Len(s) = Len(s) + Len(<<>>) /\ \A i \in 1 .. Len(<<>>) : s[Len(s) + i] = <<>>[i]
  BY <1>1
<1> QED
  BY <1>1, <1>2, <1>3, Zenon DEF Suffix

\* What an end has, the whole has.
LEMMA SuffixContains ==
  ASSUME NEW s \in Seq(Nat), NEW t \in Seq(Nat), NEW x \in Seq(Nat), Suffix(s, t)
  PROVE  /\ Contains(s, x) => Contains(t, x)
         /\ \A i \in DOMAIN s : \E j \in DOMAIN t : s[i] = t[j]
<1>1. Len(s) \in Nat /\ Len(t) \in Nat /\ Len(x) \in Nat /\ DOMAIN s = 1 .. Len(s)
      /\ DOMAIN t = 1 .. Len(t)
  BY LenProperties
<1>2. PICK k \in Nat : Len(t) = k + Len(s) /\ \A i \in 1 .. Len(s) : t[k + i] = s[i]
  BY DEF Suffix
<1>3. ASSUME Contains(s, x) PROVE Contains(t, x)
  <2>1. PICK j \in Nat : j + Len(x) <= Len(s) /\ \A i \in 1 .. Len(x) : s[j + i] = x[i]
    BY <1>3 DEF Contains
  <2> DEFINE n == k + j
  <2>2. n \in Nat /\ n + Len(x) <= Len(t)
    BY <1>1, <1>2, <2>1
  <2>3. ASSUME NEW i \in 1 .. Len(x) PROVE t[n + i] = x[i]
    <3>1. j + i \in 1 .. Len(s)
      <4>1. i \in Nat /\ 1 <= i /\ i <= Len(x)
        BY <1>1
      <4> QED
        BY <1>1, <2>1, <4>1
    <3>2. k + (j + i) = n + i
      BY <1>1
    <3> QED
      BY <1>2, <2>1, <3>1, <3>2
  <2> HIDE DEF n
  <2> QED
    BY <2>2, <2>3 DEF Contains
<1>4. ASSUME NEW i \in DOMAIN s PROVE \E j \in DOMAIN t : s[i] = t[j]
  <2>1. i \in 1 .. Len(s) /\ k + i \in 1 .. Len(t)
    BY <1>1, <1>2, SMTT(30)
  <2> QED
    BY <1>1, <1>2, <2>1
<1> QED
  BY <1>3, <1>4

\* What a stream has it keeps.
LEMMA ContainsAppend ==
  ASSUME NEW s \in Seq(Nat), NEW x \in Seq(Nat), NEW unit \in Nat, Contains(s, x)
  PROVE  Contains(Append(s, unit), x)
<1>1. Len(s) \in Nat /\ Len(x) \in Nat
  BY LenProperties
<1>2. PICK k \in Nat : k + Len(x) <= Len(s) /\ \A i \in 1 .. Len(x) : s[k + i] = x[i]
  BY DEF Contains
<1>3. ASSUME NEW i \in 1 .. Len(x) PROVE Append(s, unit)[k + i] = x[i]
  <2>1. k + i \in 1 .. Len(s)
    BY <1>1, <1>2, SMTT(30)
  <2> QED
    BY <1>2, <2>1, AppendFacts
<1>4. k + Len(x) <= Len(Append(s, unit))
  BY <1>1, <1>2, AppendFacts
<1> QED
  BY <1>2, <1>3, <1>4 DEF Contains

\* What becomes of a parser's fields when it scans again.
LEMMA ScanningFacts ==
  ASSUME NEW p \in Parser
  PROVE  /\ Scanning(p) \in Parser /\ Shape(Scanning(p)) /\ Candidate(Scanning(p)) = <<>>
         /\ Scanning(p).state = "sync0" /\ Scanning(p).units = <<>>
         /\ Scanning(p).last = p.last /\ Scanning(p).gaps = p.gaps
         /\ Scanning(p).accepted = p.accepted /\ Scanning(p).published = p.published
<1>1. <<>> \in Seq(Nat) /\ Len(<<>>) = 0
  BY EmptySeq
<1>2. /\ Scanning(p) \in Parser /\ Scanning(p).state = "sync0" /\ Scanning(p).units = <<>>
      /\ Scanning(p).last = p.last /\ Scanning(p).gaps = p.gaps
      /\ Scanning(p).accepted = p.accepted /\ Scanning(p).published = p.published
  BY <1>1 DEF Scanning, Parser
<1>3. MaxPayload \in Nat
  BY SizesAssumption DEF SizesAssumption
<1> HIDE DEF Scanning
<1>4. Candidate(Scanning(p)) = <<>> /\ Shape(Scanning(p))
  BY <1>1, <1>2, <1>3 DEF Candidate, Shape, HeaderUnits
<1> QED
  BY <1>2, <1>4

\* The sync word, unit by unit.
LEMMA PairFacts ==
  ASSUME NEW a \in Nat, NEW b \in Nat
  PROVE  Append(<<a>>, b) = <<a, b>> /\ <<a, b>> \in Seq(Nat) /\ <<a>> \in Seq(Nat)
<1>1. <<a>> \in Seq(Nat) /\ <<a, b>> \in Seq(Nat) /\ Len(<<a>>) = 1 /\ Len(<<a, b>>) = 2
  OBVIOUS
<1>2. /\ Append(<<a>>, b) \in Seq(Nat) /\ Len(Append(<<a>>, b)) = 2
      /\ Append(<<a>>, b)[1] = a /\ Append(<<a>>, b)[2] = b
  BY <1>1, AppendFacts
<1>3. <<a, b>>[1] = a /\ <<a, b>>[2] = b
  OBVIOUS
<1>4. \A i \in 1 .. 2 : i = 1 \/ i = 2
  OBVIOUS
<1>5. \A i \in 1 .. 2 : Append(<<a>>, b)[i] = <<a, b>>[i]
  BY <1>2, <1>3, <1>4
<1> QED
  BY <1>1, <1>2, <1>5, SeqEqual

\* A candidate is a sequence of units, and grows as its units do.
LEMMA CandidateFacts ==
  ASSUME NEW p \in Parser, NEW unit \in Nat
  PROVE  /\ Sync0 \in Nat /\ Sync1 \in Nat /\ Candidate(p) \in Seq(Nat)
         /\ p.state = "frame" =>
              Append(Candidate(p), unit) = <<Sync0, Sync1>> \o Append(p.units, unit)
<1>1. Sync0 \in Nat /\ Sync1 \in Nat
  BY SyncAssumption DEF SyncAssumption
<1>2. <<>> \in Seq(Nat) /\ <<Sync0>> \in Seq(Nat) /\ <<Sync0, Sync1>> \in Seq(Nat) /\ p.units \in Seq(Nat)
  BY <1>1 DEF Parser
<1>3. <<Sync0, Sync1>> \o p.units \in Seq(Nat)
  BY <1>2, ConcatProperties
<1>4. Candidate(p) \in Seq(Nat)
  BY <1>2, <1>3 DEF Candidate
<1>5. Append(<<Sync0, Sync1>> \o p.units, unit) = <<Sync0, Sync1>> \o Append(p.units, unit)
  BY <1>2
<1> QED
  BY <1>1, <1>4, <1>5 DEF Candidate

\* Consume, given what a rejected candidate leaves
Outcome(p, unit, rejected) ==
  LET units == Append(p.units, unit)
        long == Len(units)
  IN CASE p.state = "sync0" ->
            IF unit = Sync0 THEN [p EXCEPT !.state = "sync1"] ELSE p
       [] p.state = "sync1" ->
            IF unit = Sync1 THEN [p EXCEPT !.state = "frame"]
            ELSE IF unit = Sync0 THEN p ELSE Scanning(p)
       [] OTHER ->
            IF long < HeaderUnits THEN [p EXCEPT !.units = units]
            ELSE IF ~LengthOk(units[1]) THEN rejected
            ELSE IF long < HeaderUnits + units[1] + 1 THEN [p EXCEPT !.units = units]
            ELSE IF CrcOk(units) THEN Scanning(Accept(p, units, unit - MaxField))
            ELSE rejected

\* A unit moves the candidate on, or decides what becomes of it.
LEMMA ConsumeCases ==
  ASSUME NEW p \in Parser, Shape(p), NEW unit \in Nat, NEW q, NEW rejected,
         q = Outcome(p, unit, rejected)
  PROVE  \/ Moved(p, q, unit) \/ Accepting(p, q, unit)
         \/ p.state = "frame" /\ q = rejected
<1>1. /\ p.state \in {"sync0", "sync1", "frame"} /\ p.units \in Seq(Nat)
      /\ MaxPayload \in Nat /\ HeaderUnits = 3
  BY SizesAssumption DEF Parser, SizesAssumption, HeaderUnits
<1>2. Suffix(<<>>, Append(Candidate(p), unit))
  BY CandidateFacts, SuffixSelf, AppendFacts
<1>3. Moved(p, Scanning(p), unit)
  BY <1>2, ScanningFacts DEF Moved
<1>4. CASE p.state = "sync0"
  <2>1. p.units = <<>> /\ Candidate(p) = <<>>
    BY <1>4 DEF Shape, Candidate
  <2>2. CASE unit = Sync0
    <3>1. q = [p EXCEPT !.state = "sync1"]
      BY <1>4, <2>2 DEF Outcome
    <3>2. /\ q \in Parser /\ q.state = "sync1" /\ q.units = <<>> /\ q.last = p.last
          /\ q.gaps = p.gaps /\ q.accepted = p.accepted /\ q.published = p.published
      BY <2>1, <3>1 DEF Parser
    <3>3. Candidate(q) = <<Sync0>> /\ Append(Candidate(p), unit) = <<Sync0>> /\ <<Sync0>> \in Seq(Nat)
      <4>1. Sync0 \in Nat
        BY CandidateFacts
      <4>2. Candidate(q) = <<Sync0>>
        BY <3>2 DEF Candidate
      <4>3. Append(<<>>, Sync0) = <<Sync0>> /\ <<Sync0>> \in Seq(Nat)
        BY <4>1
      <4> QED
        BY <2>1, <2>2, <4>2, <4>3
    <3>4. Suffix(Candidate(q), Append(Candidate(p), unit))
      BY <3>3, SuffixSelf
    <3> QED
      BY <1>1, <2>1, <3>2, <3>4 DEF Moved, Shape
  <2>3. CASE unit # Sync0
    <3>1. q = p
      BY <1>4, <2>3 DEF Outcome
    <3> QED
      BY <1>2, <2>1, <3>1 DEF Moved
  <2> QED
    BY <2>2, <2>3
<1>5. CASE p.state = "sync1"
  <2>1. p.units = <<>> /\ Candidate(p) = <<Sync0>>
    BY <1>5 DEF Shape, Candidate
  <2>2. CASE unit = Sync1
    <3>1. q = [p EXCEPT !.state = "frame"]
      BY <1>5, <2>2 DEF Outcome
    <3>2. /\ q \in Parser /\ q.state = "frame" /\ q.units = <<>> /\ q.last = p.last
          /\ q.gaps = p.gaps /\ q.accepted = p.accepted /\ q.published = p.published
      BY <2>1, <3>1 DEF Parser
    <3>3. /\ Candidate(q) = <<Sync0, Sync1>> /\ Append(Candidate(p), unit) = <<Sync0, Sync1>>
          /\ <<Sync0, Sync1>> \in Seq(Nat)
      <4>1. Sync0 \in Nat /\ Sync1 \in Nat
        BY CandidateFacts
      <4>2. <<Sync0, Sync1>> \in Seq(Nat) /\ Append(<<Sync0>>, Sync1) = <<Sync0, Sync1>>
        BY <4>1, PairFacts
      <4>3. <<Sync0, Sync1>> \o <<>> = <<Sync0, Sync1>>
        BY <4>2, ConcatEmptySeq
      <4>4. Candidate(q) = <<Sync0, Sync1>> \o <<>>
        BY <3>2 DEF Candidate
      <4> QED
        BY <2>1, <2>2, <4>2, <4>3, <4>4
    <3>4. Suffix(Candidate(q), Append(Candidate(p), unit))
      BY <3>3, SuffixSelf
    <3> QED
      BY <1>1, <2>1, <3>2, <3>4 DEF Moved, Shape
  <2>3. CASE unit # Sync1 /\ unit = Sync0
    <3>1. q = p
      BY <1>5, <2>3 DEF Outcome
    <3>2. Suffix(<<Sync0>>, <<Sync0, Sync0>>) /\ Append(Candidate(p), unit) = <<Sync0, Sync0>>
      <4> DEFINE one == <<Sync0>>
                 two == <<Sync0, Sync0>>
      <4>1. Len(two) = 1 + Len(one) /\ \A i \in 1 .. Len(one) : two[1 + i] = one[i]
        OBVIOUS
      <4>2. Append(<<Sync0>>, Sync0) = <<Sync0, Sync0>>
        BY CandidateFacts, PairFacts
      <4> HIDE DEF one, two
      <4>3. Suffix(one, two)
        BY <4>1 DEF Suffix
      <4> QED
        BY <2>1, <2>3, <4>2, <4>3 DEF one, two
    <3> QED
      BY <2>1, <3>1, <3>2 DEF Moved
  <2>4. CASE unit # Sync1 /\ unit # Sync0
    <3>1. q = Scanning(p)
      BY <1>5, <2>4 DEF Outcome
    <3> QED
      BY <1>3, <3>1
  <2> QED
    BY <2>2, <2>3, <2>4
<1>6. CASE p.state = "frame"
  <2> DEFINE units == Append(p.units, unit)
             long == Len(units)
  <2>1. units \in Seq(Nat) /\ long = Len(p.units) + 1 /\ Len(p.units) \in Nat
        /\ (Len(p.units) # 0 => units[1] = p.units[1]) /\ units[1] \in Nat
    <3>1. /\ units \in Seq(Nat) /\ long = Len(p.units) + 1 /\ Len(p.units) \in Nat
          /\ units[Len(p.units) + 1] = unit
          /\ \A i \in 1 .. Len(p.units) : units[i] = p.units[i] /\ p.units[i] \in Nat
      BY <1>1, AppendFacts
    <3> HIDE DEF units
    <3> QED
      BY <3>1
  <2>2. q = IF long < HeaderUnits THEN [p EXCEPT !.units = units]
            ELSE IF ~LengthOk(units[1]) THEN rejected
            ELSE IF long < HeaderUnits + units[1] + 1 THEN [p EXCEPT !.units = units]
            ELSE IF CrcOk(units) THEN Scanning(Accept(p, units, unit - MaxField))
            ELSE rejected
    BY <1>6 DEF Outcome
  <2>3. Append(Candidate(p), unit) = <<Sync0, Sync1>> \o units
    BY <1>6, CandidateFacts
  <2>5. ASSUME q = [p EXCEPT !.units = units], long < HeaderUnits \/ (LengthOk(units[1]) /\ long < HeaderUnits + units[1] + 1)
        PROVE  Moved(p, q, unit)
    <3> HIDE DEF units
    <3>1. /\ q \in Parser /\ q.state = "frame" /\ q.units = units /\ q.last = p.last
          /\ q.gaps = p.gaps /\ q.accepted = p.accepted /\ q.published = p.published
      BY <1>6, <2>1, <2>5 DEF Parser
    <3>2. Candidate(q) = <<Sync0, Sync1>> \o units
      BY <3>1 DEF Candidate
    <3>3. Suffix(Candidate(q), Append(Candidate(p), unit))
      BY <2>3, <3>1, <3>2, CandidateFacts, SuffixSelf
    <3>4. Len(units) < HeaderUnits + MaxPayload + 1
      <4>1. CASE Len(units) < HeaderUnits
        BY <1>1, <2>1, <4>1
      <4>2. CASE LengthOk(units[1]) /\ Len(units) < HeaderUnits + units[1] + 1
        <5>1. units[1] <= MaxPayload
          BY <4>2 DEF LengthOk
        <5> QED
          BY <1>1, <2>1, <4>2, <5>1
      <4> QED
        BY <2>5, <4>1, <4>2
    <3>5. Len(units) >= HeaderUnits => LengthOk(units[1]) /\ Len(units) < HeaderUnits + units[1] + 1
      BY <1>1, <2>1, <2>5
    <3>6. Shape(q)
      BY <3>1, <3>4, <3>5 DEF Shape
    <3> QED
      BY <3>1, <3>3, <3>6 DEF Moved, units
  <2>6. CASE long < HeaderUnits
    BY <2>2, <2>5, <2>6
  <2>7. CASE ~(long < HeaderUnits) /\ ~LengthOk(units[1])
    BY <1>6, <2>2, <2>7
  <2>8. CASE ~(long < HeaderUnits) /\ LengthOk(units[1]) /\ long < HeaderUnits + units[1] + 1
    BY <2>2, <2>5, <2>8
  <2>9. CASE /\ ~(long < HeaderUnits) /\ LengthOk(units[1]) /\ ~(long < HeaderUnits + units[1] + 1)
             /\ CrcOk(units)
    <3>1. q = Scanning(Accept(p, units, unit - MaxField))
      BY <2>2, <2>9
    <3>2. Len(p.units) >= HeaderUnits
      <4> HIDE DEF units
      <4>1. units[1] \in Nat /\ units[1] # 0
        BY <2>1, <2>9 DEF LengthOk
      <4> QED
        BY <1>1, <2>1, <2>9, <4>1
    <3> QED
      BY <1>6, <2>9, <3>1, <3>2 DEF Accepting
  <2>10. CASE /\ ~(long < HeaderUnits) /\ LengthOk(units[1]) /\ ~(long < HeaderUnits + units[1] + 1)
              /\ ~CrcOk(units)
    BY <1>6, <2>2, <2>10
  <2> QED
    BY <2>6, <2>7, <2>8, <2>9, <2>10
<1> QED
  BY <1>1, <1>4, <1>5, <1>6

\* A replayed unit moves the candidate on or ends a frame.
LEMMA ReplayByteCases ==
  ASSUME NEW p \in Parser, Shape(p), NEW unit \in Nat
  PROVE  Moved(p, ReplayByte(p, unit), unit) \/ Accepting(p, ReplayByte(p, unit), unit)
<1>1. ReplayByte(p, unit) = Outcome(p, unit, Scanning(p))
  BY DEF ReplayByte, Consume, Drop, Outcome
<1>2. Moved(p, Scanning(p), unit)
  <2>1. Suffix(<<>>, Append(Candidate(p), unit))
    BY CandidateFacts, SuffixSelf, AppendFacts
  <2> QED
    BY <2>1, ScanningFacts DEF Moved
<1> QED
  BY <1>1, <1>2, ConsumeCases

\* So does a unit from the line, or the candidate is rejected and replayed.
LEMMA RxByteCases ==
  ASSUME NEW p \in Parser, Shape(p), NEW unit \in Nat
  PROVE  \/ Moved(p, RxByte(p, unit), unit) \/ Accepting(p, RxByte(p, unit), unit)
         \/ p.state = "frame" /\ RxByte(p, unit) = Replay(p, Append(p.units, unit))
<1>1. RxByte(p, unit) = Outcome(p, unit, Replay(p, Append(p.units, unit)))
  BY DEF RxByte, Consume, Outcome
<1> QED
  BY <1>1, ConsumeCases

\* The remainder of a division is the only one.
LEMMA RemainderFacts ==
  ASSUME NEW w \in Nat \ {0}, NEW q \in Int, NEW r \in Nat, r < w, NEW n \in Nat, n = w * q + r
  PROVE  n % w = r
<1> DEFINE d == n \div w
           m == n % w
<1>1. d \in Int /\ m \in Nat /\ m < w /\ n = w * d + m
  <2>1. d \in Int /\ m = n - w * d /\ m \in Nat /\ m < w
    OBVIOUS
  <2> HIDE DEF d, m
  <2>2. w * d \in Int
    BY <2>1
  <2> QED
    BY <2>1, <2>2
<1> HIDE DEF d, m
<1>2. \A a, b \in Int : b <= a => w * b <= w * a
  OBVIOUS
<1>3. w * q \in Int /\ w * d \in Int /\ w * (q + 1) = w * q + w /\ w * (d + 1) = w * d + w
  BY <1>1
<1>4. ~(q + 1 <= d)
  BY <1>1, <1>2, <1>3
<1>5. ~(d + 1 <= q)
  BY <1>1, <1>2, <1>3
<1>6. q = d
  BY <1>1, <1>4, <1>5
<1>7. m = r
  BY <1>1, <1>3, <1>6
<1> QED
  BY <1>7 DEF m

\* The next number but for the wrap.
LEMMA WrapFacts ==
  ASSUME NEW w \in Nat \ {0}, NEW a \in Nat, NEW b \in Nat, a < b
  PROVE  (b - a) % w = 1 % w <=> a % w = ((b % w) + w - 1) % w
<1> DEFINE x == a % w
           y == b % w
           qa == a \div w
           qb == b \div w
<1>1. /\ x \in Nat /\ x < w /\ y \in Nat /\ y < w /\ qa \in Int /\ qb \in Int
      /\ a = w * qa + x /\ b = w * qb + y
  <2>1. /\ qa \in Int /\ x = a - w * qa /\ x \in Nat /\ x < w
        /\ qb \in Int /\ y = b - w * qb /\ y \in Nat /\ y < w
    OBVIOUS
  <2> HIDE DEF x, y, qa, qb
  <2>2. w * qa \in Int /\ w * qb \in Int
    BY <2>1
  <2> QED
    BY <2>1, <2>2
<1> HIDE DEF x, y, qa, qb
<1>2. /\ w * qa \in Int /\ w * qb \in Int /\ b - a \in Nat
      /\ w * (qb - qa) = w * qb - w * qa /\ w * ((qb - qa) - 1) = (w * qb - w * qa) - w
      /\ w * 0 = 0 /\ w * 1 = w
  BY <1>1
<1>3. y >= x => (b - a) % w = y - x
  <2> SUFFICES ASSUME y >= x PROVE (b - a) % w = y - x
    OBVIOUS
  <2> DEFINE d == qb - qa
             r == y - x
             n == b - a
  <2>1. r \in Nat /\ r < w /\ n = w * d + r /\ d \in Int /\ n \in Nat
    BY <1>1, <1>2
  <2> HIDE DEF d, r, n
  <2>2. n % w = r
    BY <2>1, RemainderFacts
  <2> QED
    BY <2>2 DEF n, r
<1>4. y < x => (b - a) % w = (y - x) + w
  <2> SUFFICES ASSUME y < x PROVE (b - a) % w = (y - x) + w
    OBVIOUS
  <2> DEFINE d == (qb - qa) - 1
             r == (y - x) + w
             n == b - a
  <2>1. r \in Nat /\ r < w /\ n = w * d + r /\ d \in Int /\ n \in Nat
    BY <1>1, <1>2
  <2> HIDE DEF d, r, n
  <2>2. n % w = r
    BY <2>1, RemainderFacts
  <2> QED
    BY <2>2 DEF n, r
<1>5. y = 0 => (y + w - 1) % w = w - 1
  <2> SUFFICES ASSUME y = 0 PROVE (y + w - 1) % w = w - 1
    OBVIOUS
  <2>1. w - 1 \in Nat /\ w - 1 < w /\ y + w - 1 = w * 0 + (w - 1) /\ y + w - 1 \in Nat
    BY <1>2
  <2> QED
    BY <2>1, RemainderFacts
<1>6. y # 0 => (y + w - 1) % w = y - 1
  <2> SUFFICES ASSUME y # 0 PROVE (y + w - 1) % w = y - 1
    OBVIOUS
  <2>1. y - 1 \in Nat /\ y - 1 < w /\ y + w - 1 = w * 1 + (y - 1) /\ y + w - 1 \in Nat
    BY <1>1, <1>2
  <2> QED
    BY <2>1, RemainderFacts
<1>7. IF w = 1 THEN 1 % w = 0 ELSE 1 % w = 1
  <2>1. w = 1 => 1 % w = 0
    OBVIOUS
  <2>2. w # 1 => 1 < w /\ 1 = w * 0 + 1
    BY <1>2
  <2> QED
    BY <2>1, <2>2, RemainderFacts
<1>8. (b - a) % w = 1 % w <=> x = (y + w - 1) % w
  <2>1. CASE w = 1
    BY <1>1, <1>3, <1>5, <1>7, <2>1
  <2>2. CASE w # 1 /\ y = 0
    BY <1>1, <1>3, <1>4, <1>5, <1>7, <2>2
  <2>3. CASE w # 1 /\ y # 0
    BY <1>1, <1>3, <1>4, <1>6, <1>7, <2>3
  <2> QED
    BY <2>1, <2>2, <2>3
<1> QED
  BY <1>8 DEF x, y

\* The members of a sequence, with one more.
LEMMA MembersAppend ==
  ASSUME NEW s \in Seq(Nat), NEW n \in Nat
  PROVE  Members(Append(s, n)) = Members(s) \cup {n} /\ Members(s) \subseteq Nat
<1>1. /\ DOMAIN s = 1 .. Len(s) /\ DOMAIN Append(s, n) = 1 .. (Len(s) + 1) /\ Len(s) \in Nat
  BY AppendFacts, LenProperties
<1>2. \A i \in 1 .. (Len(s) + 1) : i \in 1 .. Len(s) \/ i = Len(s) + 1
  BY <1>1
<1>3. 1 .. Len(s) \subseteq 1 .. (Len(s) + 1) /\ Len(s) + 1 \in 1 .. (Len(s) + 1)
  BY <1>1
<1>4. Members(Append(s, n)) \subseteq Members(s) \cup {n}
  BY <1>1, <1>2, AppendFacts DEF Members
<1>5. Members(s) \cup {n} \subseteq Members(Append(s, n))
  BY <1>1, <1>3, AppendFacts DEF Members
<1>6. Members(s) \subseteq Nat
  BY <1>1, AppendFacts DEF Members
<1> QED
  BY <1>4, <1>5, <1>6

\* A number above all others may follow them.
LEMMA AscendingAppend ==
  ASSUME NEW s \in Seq(Nat), NEW n \in Nat, Ascending(s), \A m \in Members(s) : m < n
  PROVE  Ascending(Append(s, n))
<1>1. /\ DOMAIN s = 1 .. Len(s) /\ DOMAIN Append(s, n) = 1 .. (Len(s) + 1) /\ Len(s) \in Nat
  BY AppendFacts, LenProperties
<1>2. ASSUME NEW i \in 1 .. (Len(s) + 1), NEW j \in 1 .. (Len(s) + 1), i < j
      PROVE  Append(s, n)[i] < Append(s, n)[j]
  <2>1. i \in 1 .. Len(s) /\ Append(s, n)[i] = s[i]
    BY <1>1, <1>2, AppendFacts
  <2>2. CASE j = Len(s) + 1
    BY <1>1, <2>1, <2>2, AppendFacts DEF Members
  <2>3. CASE j # Len(s) + 1
    <3>1. j \in 1 .. Len(s)
      BY <1>1, <2>3
    <3> QED
      BY <1>1, <1>2, <2>1, <3>1, AppendFacts DEF Ascending
  <2> QED
    BY <2>2, <2>3
<1> QED
  BY <1>1, <1>2 DEF Ascending

\* A further number leaves the holes before it.
LEMMA HolesAppend ==
  ASSUME NEW s \in Seq(Nat), NEW n \in Nat
  PROVE  /\ IsFiniteSet(Holes(s)) /\ Len(s) \notin Holes(s)
         /\ Holes(Append(s, n)) =
              IF s = <<>> \/ (n - s[Len(s)]) % SeqWrap = 1 % SeqWrap THEN Holes(s)
              ELSE Holes(s) \cup {Len(s)}
<1>1. Len(s) \in Nat /\ Len(Append(s, n)) = Len(s) + 1 /\ (s = <<>> <=> Len(s) = 0)
  BY AppendFacts, EmptySeq
<1>2. IsFiniteSet(1 .. Len(s) - 1) /\ Holes(s) \subseteq 1 .. Len(s) - 1
  BY <1>1, FS_Interval, SMTT(30) DEF Holes
<1>3. IsFiniteSet(Holes(s)) /\ Len(s) \notin Holes(s)
  BY <1>1, <1>2, FS_Subset
<1> DEFINE hole(i) == (Append(s, n)[i + 1] - Append(s, n)[i]) % SeqWrap # 1 % SeqWrap
<1>4. Holes(Append(s, n)) = {i \in 1 .. Len(s) : hole(i)}
  BY <1>1, SMTT(30) DEF Holes
<1>5. \A i \in 1 .. Len(s) - 1 : hole(i) <=> (s[i + 1] - s[i]) % SeqWrap # 1 % SeqWrap
  <2>1. \A i \in 1 .. Len(s) - 1 : i \in 1 .. Len(s) /\ i + 1 \in 1 .. Len(s)
    BY <1>1
  <2> QED
    BY <2>1, AppendFacts
<1>6. Len(s) # 0 => (hole(Len(s)) <=> (n - s[Len(s)]) % SeqWrap # 1 % SeqWrap)
  <2>1. Len(s) # 0 => Len(s) \in 1 .. Len(s)
    BY <1>1
  <2> QED
    BY <2>1, AppendFacts
<1> HIDE DEF hole
<1>7. \A i \in 1 .. Len(s) : i \in 1 .. Len(s) - 1 \/ i = Len(s)
  BY <1>1
<1>8. 1 .. Len(s) - 1 \subseteq 1 .. Len(s) /\ (Len(s) # 0 => Len(s) \in 1 .. Len(s))
  BY <1>1
<1>9. CASE s = <<>>
  <2>1. 1 .. Len(s) = {} /\ 1 .. Len(s) - 1 = {}
    BY <1>1, <1>9
  <2> QED
    BY <1>3, <1>4, <1>9, <2>1 DEF Holes
<1>10. CASE s # <<>> /\ hole(Len(s))
  BY <1>1, <1>3, <1>4, <1>5, <1>6, <1>7, <1>8, <1>10 DEF Holes
<1>11. CASE s # <<>> /\ ~hole(Len(s))
  BY <1>1, <1>3, <1>4, <1>5, <1>6, <1>7, <1>8, <1>11 DEF Holes
<1> QED
  BY <1>9, <1>10, <1>11


\* A sequence and the one after it.
LEMMA ConcatFacts ==
  ASSUME NEW S, NEW s \in Seq(S), NEW t \in Seq(S)
  PROVE  /\ s \o t \in Seq(S) /\ Len(s \o t) = Len(s) + Len(t) /\ Len(s) \in Nat /\ Len(t) \in Nat
         /\ \A i \in 1 .. Len(s) : (s \o t)[i] = s[i]
         /\ \A i \in 1 .. Len(t) : (s \o t)[Len(s) + i] = t[i]
<1> DEFINE st == s \o t
<1>1. /\ st \in Seq(S) /\ Len(st) = Len(s) + Len(t)
      /\ \A i \in 1 .. Len(s) + Len(t) : st[i] = IF i <= Len(s) THEN s[i] ELSE t[i - Len(s)]
  BY ConcatProperties
<1>2. Len(s) \in Nat /\ Len(t) \in Nat
  BY LenProperties
<1> HIDE DEF st
<1>3. \A i \in 1 .. Len(s) : st[i] = s[i]
  <2>1. \A i \in 1 .. Len(s) : i \in 1 .. Len(s) + Len(t) /\ i <= Len(s)
    BY <1>2
  <2> QED
    BY <1>1, <2>1
<1>4. \A i \in 1 .. Len(t) : st[Len(s) + i] = t[i]
  <2>1. \A i \in 1 .. Len(t) : /\ Len(s) + i \in 1 .. Len(s) + Len(t)
                               /\ ~(Len(s) + i <= Len(s)) /\ (Len(s) + i) - Len(s) = i
    BY <1>2
  <2> QED
    BY <1>1, <2>1
<1> QED
  BY <1>1, <1>2, <1>3, <1>4 DEF st

\* What a frame's fields and its line are.
LEMMA LineFacts ==
  ASSUME NEW n \in Nat, NEW frame \in Frames
  PROVE  /\ Body(n, frame) \in Seq(Nat) /\ Len(Body(n, frame)) = HeaderUnits + Len(frame.payload)
         /\ Len(frame.payload) \in Nat
         /\ Body(n, frame)[1] = Len(frame.payload) /\ Body(n, frame)[2] = frame.topic
         /\ Body(n, frame)[3] = n % SeqWrap
         /\ MaxField \in Nat /\ HeaderUnits = 3 /\ Trailer(n) \in Nat /\ Trailer(n) = MaxField + n
         /\ Line(n, frame) = Append(<<Sync0, Sync1>> \o Body(n, frame), Trailer(n))
         /\ Line(n, frame) \in Seq(Nat) /\ Len(Line(n, frame)) = 6 + Len(frame.payload)
         /\ Line(n, frame)[Len(Line(n, frame))] = Trailer(n)
         /\ \A i \in 1 .. Len(Line(n, frame)) - 1 : Line(n, frame)[i] <= MaxField
<1>1. MaxField \in Nat /\ HeaderUnits = 3
  BY DEF MaxField, HeaderUnits
<1>2. Trailer(n) \in Nat /\ Trailer(n) = MaxField + n
  BY <1>1 DEF Trailer
<1>3. /\ frame.topic \in 0 .. MaxField /\ frame.payload \in Seq(0 .. MaxField)
      /\ Len(frame.payload) <= MaxField
  BY FramesAssumption DEF FramesAssumption
<1>4. /\ Sync0 \in 0 .. MaxField /\ Sync1 \in 0 .. MaxField /\ MaxPayload \in 1 .. MaxField
      /\ SeqWrap \in 1 .. MaxField + 1
  BY SyncAssumption, SizesAssumption DEF SyncAssumption, SizesAssumption
<1>21. Len(frame.payload) \in Nat
  BY <1>3, LenProperties
<1> DEFINE Field == 0 .. MaxField
           head == <<Len(frame.payload), frame.topic, n % SeqWrap>>
           sync == <<Sync0, Sync1>>
           body == head \o frame.payload
           front == sync \o body
<1>5. n % SeqWrap \in Field /\ Len(frame.payload) \in Field
  <2>1. n % SeqWrap \in 0 .. SeqWrap - 1
    BY <1>1, <1>4
  <2> QED
    BY <1>1, <1>3, <1>4, <1>21, <2>1
<1>6. /\ head \in Seq(Field) /\ Len(head) = 3 /\ head[1] = Len(frame.payload)
      /\ head[2] = frame.topic /\ head[3] = n % SeqWrap /\ sync \in Seq(Field) /\ Len(sync) = 2
  BY <1>3, <1>4, <1>5
<1>7. frame.payload \in Seq(Field) /\ Len(frame.payload) \in Nat
  BY <1>3, LenProperties
<1> HIDE DEF head, sync, Field
<1>8. /\ body \in Seq(Field) /\ Len(body) = 3 + Len(frame.payload)
      /\ \A i \in 1 .. Len(head) : body[i] = head[i]
  <2>1. ASSUME NEW s \in Seq(Field), NEW t \in Seq(Field)
        PROVE  s \o t \in Seq(Field) /\ Len(s \o t) = Len(s) + Len(t)
               /\ \A i \in 1 .. Len(s) : (s \o t)[i] = s[i]
    BY ConcatFacts
  <2>2. body \in Seq(Field)
    BY <1>6, <1>7, <2>1
  <2>3. Len(body) = Len(head) + Len(frame.payload)
    BY <1>6, <1>7, <2>1
  <2>4. \A i \in 1 .. Len(head) : body[i] = head[i]
    BY <1>6, <1>7, <2>1, Zenon
  <2> QED
    BY <1>6, <2>2, <2>3, <2>4
<1>9. body[1] = head[1] /\ body[2] = head[2] /\ body[3] = head[3]
  <2>1. 1 \in 1 .. 3 /\ 2 \in 1 .. 3 /\ 3 \in 1 .. 3
    OBVIOUS
  <2> QED
    BY <1>6, <1>8, <2>1
<1> HIDE DEF body
<1>10. front \in Seq(Field) /\ Len(front) = 5 + Len(frame.payload)
  <2>1. front \in Seq(Field) /\ Len(front) = 2 + (3 + Len(frame.payload))
    <3>1. ASSUME NEW s \in Seq(Field), NEW t \in Seq(Field)
          PROVE  s \o t \in Seq(Field) /\ Len(s \o t) = Len(s) + Len(t)
      BY ConcatFacts
    <3> QED
      BY <1>6, <1>8, <3>1
  <2> QED
    BY <1>7, <2>1
<1> HIDE DEF front
<1>11. Field \subseteq Nat
  BY <1>1 DEF Field
<1>12. body \in Seq(Nat) /\ front \in Seq(Nat)
  <2>1. ASSUME NEW s \in Seq(Field) PROVE s \in Seq(Nat)
    BY <1>11, SeqMonotonic
  <2> QED
    BY <1>8, <1>10, <2>1
<1> DEFINE line == Append(front, Trailer(n))
<1>13. Line(n, frame) = line
  <2>1. front \o <<Trailer(n)>> = Append(front, Trailer(n))
    BY <1>2, <1>12
  <2> QED
    BY <2>1 DEF Line, Body, front, sync, head, body
<1>14. /\ line \in Seq(Nat) /\ Len(line) = Len(front) + 1 /\ line[Len(front) + 1] = Trailer(n)
       /\ \A i \in 1 .. Len(front) : line[i] = front[i]
  BY <1>2, <1>12, AppendFacts
<1>15. \A i \in 1 .. Len(front) : front[i] \in Field
  BY <1>10, LenProperties, ElementOfSeq
<1>16. \A i \in 1 .. Len(line) - 1 : line[i] <= MaxField
  <2>1. \A i \in Field : i <= MaxField
    BY DEF Field
  <2>2. Len(front) \in Nat
    BY <1>7, <1>10
  <2> HIDE DEF line
  <2>3. Len(line) - 1 = Len(front)
    BY <1>14, <2>2
  <2> QED
    BY <1>14, <1>15, <2>1, <2>3
<1> HIDE DEF line
<1>17. Len(line) = 6 + Len(frame.payload) /\ line[Len(line)] = Trailer(n)
  BY <1>7, <1>10, <1>14
<1>18. Line(n, frame) = Append(sync \o body, Trailer(n)) /\ Body(n, frame) = body
  BY <1>13 DEF line, front, Body, body, head
<1>19. Line(n, frame) = Append(<<Sync0, Sync1>> \o Body(n, frame), Trailer(n))
  BY <1>18 DEF sync
<1> QED
  BY <1>1, <1>2, <1>6, <1>7, <1>8, <1>9, <1>12, <1>13, <1>14, <1>16, <1>17, <1>18, <1>19

\* Sequences with one more unit are alike when the sequences are.
LEMMA AppendEqual ==
  ASSUME NEW s \in Seq(Nat), NEW t \in Seq(Nat), NEW a \in Nat, NEW b \in Nat,
         Append(s, a) = Append(t, b)
  PROVE  s = t /\ a = b
<1>1. Len(s) \in Nat /\ Len(t) \in Nat /\ Len(s) + 1 = Len(t) + 1
  BY AppendFacts
<1>2. Len(s) = Len(t)
  BY <1>1
<1>3. a = b
  BY <1>2, AppendFacts
<1>4. ASSUME NEW i \in 1 .. Len(s) PROVE s[i] = t[i]
  <2>1. Append(s, a)[i] = s[i]
    BY AppendFacts
  <2>2. Append(t, b)[i] = t[i]
    BY <1>2, AppendFacts
  <2> QED
    BY <2>1, <2>2
<1> QED
  BY <1>2, <1>3, <1>4, SeqEqual

\* An accepted frame is one that was sent, and later than those before it.
LEMMA AcceptedFrame ==
  ASSUME sent' \in Seq(Frames), NEW p \in Parser, NEW q, NEW unit \in Nat,
         Later(p, unit), Accepting(p, q, unit)
  PROVE  LET n == unit - MaxField
         IN /\ n \in DOMAIN sent' /\ n \in Nat /\ sent'[n] \in Frames /\ unit = Trailer(n)
            /\ \A m \in Members(p.accepted) : m \in Nat => m < n
            /\ p.units = Body(n, sent'[n])
            /\ Append(Candidate(p), unit) = Line(n, sent'[n])
<1> DEFINE n == unit - MaxField
           units == Append(p.units, unit)
<1>1. MaxField \in Nat /\ p.units \in Seq(Nat) /\ p.state = "frame" /\ CrcOk(units)
  BY DEF MaxField, Parser, Accepting
<1>2. units[Len(units)] = unit
  BY <1>1, AppendFacts
<1>3. n \in DOMAIN sent' /\ units = Append(Body(n, sent'[n]), Trailer(n))
  BY <1>1, <1>2 DEF CrcOk, Covered
<1>4. n \in Nat /\ n >= 1 /\ sent'[n] \in Frames
  <2>1. DOMAIN sent' = 1 .. Len(sent') /\ Len(sent') \in Nat
    BY LenProperties
  <2>2. n \in 1 .. Len(sent')
    BY <1>3, <2>1
  <2> HIDE DEF n
  <2>3. n \in Nat /\ n >= 1
    BY <2>1, <2>2
  <2>4. sent'[n] \in Frames
    BY <2>2, ElementOfSeq
  <2> QED
    BY <2>3, <2>4
<1>5. unit = MaxField + n /\ unit > MaxField
  BY <1>1, <1>4
<1> HIDE DEF n
<1>6. unit = Trailer(n)
  BY <1>5 DEF Trailer
<1>7. p.units = Body(n, sent'[n])
  <2>1. Body(n, sent'[n]) \in Seq(Nat) /\ Trailer(n) \in Nat
    BY <1>4, LineFacts
  <2>2. Append(p.units, unit) = Append(Body(n, sent'[n]), Trailer(n))
    BY <1>3
  <2> QED
    BY <1>1, <2>1, <2>2, AppendEqual
<1>8. Append(Candidate(p), unit) = Line(n, sent'[n])
  <2>1. Append(Candidate(p), unit) = Append(<<Sync0, Sync1>> \o p.units, unit)
    BY <1>1 DEF Candidate
  <2> QED
    BY <1>4, <1>6, <1>7, <2>1, LineFacts
<1>9. \A m \in Members(p.accepted) : m \in Nat => m < n
  <2>1. \A m \in Members(p.accepted) : Trailer(m) < unit
    BY <1>5 DEF Later
  <2>2. \A m \in Nat : MaxField + m < MaxField + n => m < n
    BY <1>1, <1>4
  <2> QED
    BY <1>5, <2>1, <2>2 DEF Trailer
<1> QED
  BY <1>3, <1>4, <1>6, <1>7, <1>8, <1>9 DEF n

\* What accepting a frame leaves the parser with.
LEMMA AcceptFacts ==
  ASSUME NEW p \in Parser, NEW units \in Seq(Nat), NEW n \in Nat, units[3] \in Nat
  PROVE  LET q == Scanning(Accept(p, units, n))
         IN /\ q \in Parser /\ Shape(q) /\ Candidate(q) = <<>> /\ q.units = <<>>
            /\ q.accepted = Append(p.accepted, n) /\ q.last = <<units[3]>>
            /\ q.gaps = IF p.last \in {<<>>, <<(units[3] + SeqWrap - 1) % SeqWrap>>}
                        THEN p.gaps ELSE p.gaps + 1
            /\ q.published = IF Wanted(units[2], units[1]) THEN Append(p.published, n)
                             ELSE p.published
<1> DEFINE a == [p EXCEPT !.accepted = Append(@, n)]
           b == Tracked(a, units[3])
           c == Delivered(b, n, units[2], units[1])
<1>1. /\ p.accepted \in Seq(Nat) /\ p.published \in Seq(Nat) /\ p.gaps \in Nat
      /\ Append(p.accepted, n) \in Seq(Nat) /\ Append(p.published, n) \in Seq(Nat)
      /\ p.gaps + 1 \in Nat /\ <<units[3]>> \in Seq(Nat)
  <2>1. p.accepted \in Seq(Nat) /\ p.published \in Seq(Nat) /\ p.gaps \in Nat
    BY DEF Parser
  <2> QED
    BY <2>1, AppendFacts
<1>2. /\ a \in Parser /\ a.last = p.last /\ a.gaps = p.gaps /\ a.published = p.published
      /\ a.accepted = Append(p.accepted, n)
  BY <1>1 DEF Parser
<1> HIDE DEF a
<1>3. /\ b \in Parser /\ b.last = <<units[3]>> /\ b.published = p.published
      /\ b.accepted = Append(p.accepted, n)
      /\ b.gaps = IF p.last \in {<<>>, <<(units[3] + SeqWrap - 1) % SeqWrap>>}
                  THEN p.gaps ELSE p.gaps + 1
  <2> DEFINE g == IF a.last \notin {<<>>, <<(units[3] + SeqWrap - 1) % SeqWrap>>}
                  THEN a.gaps + 1 ELSE a.gaps
  <2>1. g = (IF p.last \in {<<>>, <<(units[3] + SeqWrap - 1) % SeqWrap>>}
             THEN p.gaps ELSE p.gaps + 1) /\ g \in Nat
    BY <1>1, <1>2
  <2>2. b = [a EXCEPT !.last = <<units[3]>>, !.gaps = g]
    BY DEF Tracked
  <2> HIDE DEF g, b
  <2>3. /\ b \in Parser /\ b.last = <<units[3]>> /\ b.published = a.published
        /\ b.accepted = a.accepted /\ b.gaps = g
    BY <1>1, <1>2, <2>1, <2>2 DEF Parser
  <2> QED
    BY <1>2, <2>1, <2>3
<1> HIDE DEF b
<1>4. /\ c \in Parser /\ c.last = b.last /\ c.gaps = b.gaps /\ c.accepted = b.accepted
      /\ c.published = IF Wanted(units[2], units[1]) THEN Append(p.published, n) ELSE p.published
  <2>1. CASE Wanted(units[2], units[1])
    <3>1. c = [b EXCEPT !.published = Append(@, n)]
      BY <2>1 DEF Delivered
    <3> HIDE DEF c
    <3> QED
      BY <1>1, <1>3, <2>1, <3>1 DEF Parser
  <2>2. CASE ~Wanted(units[2], units[1])
    BY <1>3, <2>2 DEF Delivered
  <2> QED
    BY <2>1, <2>2
<1>5. Scanning(Accept(p, units, n)) = Scanning(c)
  BY DEF Accept, a, b, c
<1> HIDE DEF c
<1> QED
  BY <1>3, <1>4, <1>5, ScanningFacts, SMTT(30)

\* Accepting keeps the parser sound: the gap counted is a hole, what is
\* published was sent.
LEMMA AcceptSound ==
  ASSUME sent' \in Seq(Frames), NEW p, NEW q, NEW unit \in Nat,
         Sound(sent', p), Later(p, unit), Accepting(p, q, unit)
  PROVE  Sound(sent', q) /\ q.units = <<>> /\ Candidate(q) = <<>>
         /\ q.accepted = Append(p.accepted, unit - MaxField)
<1> DEFINE n == unit - MaxField
           units == Append(p.units, unit)
           frame == sent'[n]
<1>1. p \in Parser /\ p.accepted \in Seq(Nat) /\ p.published \in Seq(Nat) /\ p.units \in Seq(Nat)
      /\ p.last \in Seq(Nat)
  BY DEF Sound, Parser
<1>2. /\ n \in DOMAIN sent' /\ n \in Nat /\ frame \in Frames /\ unit = Trailer(n)
      /\ \A m \in Members(p.accepted) : m \in Nat => m < n
      /\ p.units = Body(n, frame)
  BY <1>1, AcceptedFrame
<1> HIDE DEF n
<1>3. /\ units \in Seq(Nat) /\ units[1] = Len(frame.payload) /\ units[2] = frame.topic
      /\ units[3] = n % SeqWrap /\ units[3] \in Nat
  <2>1. /\ Len(p.units) = 3 + Len(frame.payload) /\ Len(frame.payload) \in Nat
        /\ p.units[1] = Len(frame.payload) /\ p.units[2] = frame.topic
        /\ p.units[3] = n % SeqWrap
    <3>1. /\ Len(Body(n, frame)) = HeaderUnits + Len(frame.payload) /\ HeaderUnits = 3
          /\ Len(frame.payload) \in Nat
          /\ Body(n, frame)[1] = Len(frame.payload) /\ Body(n, frame)[2] = frame.topic
          /\ Body(n, frame)[3] = n % SeqWrap
      BY <1>2, LineFacts
    <3> QED
      BY <1>2, <3>1
  <2>2. units \in Seq(Nat) /\ \A i \in 1 .. Len(p.units) : units[i] = p.units[i] /\ p.units[i] \in Nat
    BY <1>1, AppendFacts
  <2>3. 1 \in 1 .. Len(p.units) /\ 2 \in 1 .. Len(p.units) /\ 3 \in 1 .. Len(p.units)
    BY <2>1, SMTT(30)
  <2> HIDE DEF units
  <2> QED
    BY <2>1, <2>2, <2>3
<1>4. q = Scanning(Accept(p, units, n))
  BY DEF Accepting, n
<1> HIDE DEF units, frame
<1>5. /\ q \in Parser /\ Shape(q) /\ Candidate(q) = <<>> /\ q.units = <<>>
      /\ q.accepted = Append(p.accepted, n) /\ q.last = <<n % SeqWrap>>
      /\ q.gaps = IF p.last \in {<<>>, <<((n % SeqWrap) + SeqWrap - 1) % SeqWrap>>}
                  THEN p.gaps ELSE p.gaps + 1
      /\ q.published = IF Wanted(frame.topic, Len(frame.payload)) THEN Append(p.published, n)
                       ELSE p.published
  <2>1. /\ q \in Parser /\ Shape(q) /\ Candidate(q) = <<>> /\ q.units = <<>>
        /\ q.accepted = Append(p.accepted, n) /\ q.last = <<units[3]>>
        /\ q.gaps = IF p.last \in {<<>>, <<(units[3] + SeqWrap - 1) % SeqWrap>>}
                    THEN p.gaps ELSE p.gaps + 1
        /\ q.published = IF Wanted(units[2], units[1]) THEN Append(p.published, n)
                         ELSE p.published
    BY <1>1, <1>2, <1>3, <1>4, AcceptFacts, ZenonT(40)
  <2> QED
    BY <1>3, <2>1
<1>6. Members(q.accepted) = Members(p.accepted) \cup {n} /\ Members(p.accepted) \subseteq Nat
      /\ Members(p.published) \subseteq Nat
      /\ Members(Append(p.published, n)) = Members(p.published) \cup {n}
  BY <1>1, <1>2, <1>5, MembersAppend
<1>7. \A m \in Members(p.accepted) : m < n
  BY <1>2, <1>6
<1>8. Ascending(q.accepted)
  BY <1>1, <1>2, <1>5, <1>7, AscendingAppend DEF Sound
<1>9. Ascending(q.published)
  <2>1. \A m \in Members(p.published) : m < n
    BY <1>7 DEF Sound
  <2> QED
    BY <1>1, <1>2, <1>5, <2>1, AscendingAppend DEF Sound
<1>10. Members(q.accepted) \subseteq DOMAIN sent'
  BY <1>2, <1>6 DEF Sound
<1>11. \A m \in Members(q.published) :
         m \in Members(q.accepted) /\ Wanted(sent'[m].topic, Len(sent'[m].payload))
  BY <1>5, <1>6 DEF Sound, frame
<1>12. q.last = IF q.accepted = <<>> THEN <<>> ELSE <<q.accepted[Len(q.accepted)] % SeqWrap>>
  <2>1. q.accepted # <<>> /\ q.accepted[Len(q.accepted)] = n
    <3>1. Len(q.accepted) = Len(p.accepted) + 1 /\ q.accepted[Len(p.accepted) + 1] = n
          /\ Len(p.accepted) \in Nat /\ Len(<<>>) = 0
      BY <1>1, <1>2, <1>5, AppendFacts
    <3> QED
      BY <3>1
  <2> QED
    BY <1>5, <2>1
<1>13. q.gaps = Cardinality(Holes(q.accepted))
  <2> DEFINE m == p.accepted[Len(p.accepted)]
  <2>1. /\ IsFiniteSet(Holes(p.accepted)) /\ Len(p.accepted) \notin Holes(p.accepted)
        /\ Holes(q.accepted) = IF p.accepted = <<>> \/ (n - m) % SeqWrap = 1 % SeqWrap
                               THEN Holes(p.accepted) ELSE Holes(p.accepted) \cup {Len(p.accepted)}
    BY <1>1, <1>2, <1>5, HolesAppend
  <2>2. Cardinality(Holes(p.accepted) \cup {Len(p.accepted)}) = Cardinality(Holes(p.accepted)) + 1
    BY <2>1, FS_AddElement
  <2>3. p.gaps = Cardinality(Holes(p.accepted))
        /\ p.last = IF p.accepted = <<>> THEN <<>> ELSE <<m % SeqWrap>>
    BY DEF Sound
  <2>4. CASE p.accepted = <<>>
    BY <1>5, <2>1, <2>3, <2>4
  <2>5. CASE p.accepted # <<>>
    <3>1. m \in Nat /\ m < n
      <4>1. Len(p.accepted) \in DOMAIN p.accepted
        BY <1>1, <2>5, EmptySeq, LenProperties
      <4>2. m \in Members(p.accepted)
        BY <4>1 DEF Members
      <4> QED
        BY <1>6, <1>7, <4>2
    <3> HIDE DEF m
    <3>2. SeqWrap \in Nat \ {0}
      <4>1. MaxField \in Nat
        BY DEF MaxField
      <4> QED
        BY <4>1, SizesAssumption DEF SizesAssumption
    <3>3. (n - m) % SeqWrap = 1 % SeqWrap <=> m % SeqWrap = ((n % SeqWrap) + SeqWrap - 1) % SeqWrap
      BY <1>2, <3>1, <3>2, WrapFacts
    <3>4. p.last # <<>> /\ p.last = <<m % SeqWrap>>
      BY <2>3, <2>5
    <3> DEFINE x == m % SeqWrap
               y == ((n % SeqWrap) + SeqWrap - 1) % SeqWrap
    <3>5. q.gaps = IF p.last \in {<<>>, <<y>>} THEN p.gaps ELSE p.gaps + 1
      BY <1>5
    <3>6. ((n - m) % SeqWrap = 1 % SeqWrap <=> x = y) /\ p.last = <<x>>
      BY <3>3, <3>4
    <3> HIDE DEF x, y
    <3>7. p.last \in {<<>>, <<y>>} <=> x = y
      BY <3>4, <3>6
    <3> QED
      BY <2>1, <2>2, <2>3, <2>5, <3>5, <3>6, <3>7
  <2> QED
    BY <2>4, <2>5
<1>14. DOMAIN q.units = {}
  BY <1>5
<1>15. Sound(sent', q)
  <2>1. /\ \A i, j \in DOMAIN q.units : i < j /\ q.units[j] > MaxField => q.units[i] < q.units[j]
        /\ \A i \in DOMAIN q.units : q.units[i] > MaxField =>
             \A k \in Members(q.accepted) : Trailer(k) < q.units[i]
    BY <1>14
  <2> QED
    BY <1>5, <1>8, <1>9, <1>10, <1>11, <1>12, <1>13, <2>1, Zenon DEF Sound
<1> QED
  BY <1>5, <1>15 DEF n

\* The end a parser holds grows with the stream.
LEMMA CandidateGrows ==
  ASSUME NEW p \in Parser, NEW unit \in Nat, NEW t \in Seq(Nat), Suffix(Candidate(p), t)
  PROVE  /\ Candidate(p) \in Seq(Nat) /\ Append(Candidate(p), unit) \in Seq(Nat)
         /\ Append(t, unit) \in Seq(Nat)
         /\ Suffix(Append(Candidate(p), unit), Append(t, unit))
<1>1. Candidate(p) \in Seq(Nat)
  BY CandidateFacts
<1> QED
  BY <1>1, SuffixAppend, AppendFacts

\* What is above the stream with a unit more is above the stream and the unit.
LEMMA AboveAppend ==
  ASSUME NEW s \in Seq(Nat), NEW u \in Nat, NEW unit \in Nat, NEW old,
         Above(unit, old, Append(s, u))
  PROVE  Above(unit, old, s) /\ (unit > MaxField => u < unit)
<1>1. /\ DOMAIN s = 1 .. Len(s) /\ DOMAIN Append(s, u) = 1 .. (Len(s) + 1) /\ Len(s) \in Nat
      /\ Append(s, u)[Len(s) + 1] = u /\ \A i \in 1 .. Len(s) : Append(s, u)[i] = s[i]
  BY AppendFacts, LenProperties
<1>2. 1 .. Len(s) \subseteq 1 .. (Len(s) + 1) /\ Len(s) + 1 \in 1 .. (Len(s) + 1)
  BY <1>1
<1> QED
  BY <1>1, <1>2 DEF Above

\* Taking a unit without accepting keeps the parser's account of the stream.
LEMMA FollowsMoved ==
  ASSUME NEW frames, NEW p, NEW q, NEW unit \in Nat, NEW t \in Seq(Nat), NEW old,
         \A n \in DOMAIN frames : Line(n, frames[n]) \in Seq(Nat),
         Follows(frames, p, t, old), Later(p, unit), Moved(p, q, unit)
  PROVE  Follows(frames, q, Append(t, unit), old)
<1>1. p \in Parser /\ p.units \in Seq(Nat) /\ q \in Parser /\ Shape(q) /\ Sound(frames, p)
      /\ q.last = p.last /\ q.gaps = p.gaps /\ q.accepted = p.accepted /\ q.published = p.published
      /\ (q.units = <<>> \/ q.units = Append(p.units, unit))
  BY DEF Follows, Sound, Parser, Moved
<1>2. /\ DOMAIN p.units = 1 .. Len(p.units) /\ Len(p.units) \in Nat
      /\ DOMAIN Append(p.units, unit) = 1 .. (Len(p.units) + 1)
      /\ Append(p.units, unit)[Len(p.units) + 1] = unit
      /\ \A i \in 1 .. Len(p.units) : Append(p.units, unit)[i] = p.units[i]
  BY <1>1, AppendFacts, LenProperties
<1>3. \A i \in 1 .. (Len(p.units) + 1) : i \in 1 .. Len(p.units) \/ i = Len(p.units) + 1
  BY <1>2
<1>4. ASSUME q.units = Append(p.units, unit)
      PROVE  /\ \A i, j \in DOMAIN q.units : i < j /\ q.units[j] > MaxField => q.units[i] < q.units[j]
             /\ \A i \in DOMAIN q.units : q.units[i] > MaxField =>
                  \A n \in Members(q.accepted) : Trailer(n) < q.units[i]
  <2>1. ASSUME NEW i \in DOMAIN q.units, NEW j \in DOMAIN q.units, i < j, q.units[j] > MaxField
        PROVE  q.units[i] < q.units[j]
    <3>1. i \in 1 .. Len(p.units) /\ i \in DOMAIN p.units
      BY <1>2, <1>4, <2>1
    <3>2. CASE j \in 1 .. Len(p.units)
      BY <1>1, <1>2, <1>4, <2>1, <3>1, <3>2 DEF Sound
    <3>3. CASE j = Len(p.units) + 1
      BY <1>2, <1>4, <2>1, <3>1, <3>3 DEF Later
    <3> QED
      BY <1>2, <1>3, <1>4, <3>2, <3>3
  <2>2. ASSUME NEW i \in DOMAIN q.units, q.units[i] > MaxField, NEW n \in Members(q.accepted)
        PROVE  Trailer(n) < q.units[i]
    <3>1. CASE i \in 1 .. Len(p.units)
      BY <1>1, <1>2, <1>4, <2>2, <3>1 DEF Sound
    <3>2. CASE i = Len(p.units) + 1
      BY <1>1, <1>2, <1>4, <2>2, <3>2 DEF Later
    <3> QED
      BY <1>2, <1>3, <1>4, <3>1, <3>2
  <2> QED
    BY <2>1, <2>2
<1>5. Sound(frames, q)
  <2>1. CASE q.units = <<>>
    <3>1. DOMAIN q.units = {}
      BY <2>1
    <3> QED
      BY <1>1, <3>1, Zenon DEF Sound
  <2>2. CASE q.units = Append(p.units, unit)
    BY <1>1, <1>4, <2>2, Zenon DEF Sound
  <2> QED
    BY <1>1, <2>1, <2>2
<1>6. /\ Append(Candidate(p), unit) \in Seq(Nat) /\ Append(t, unit) \in Seq(Nat)
      /\ Suffix(Append(Candidate(p), unit), Append(t, unit))
  BY <1>1, CandidateGrows DEF Follows
<1>7. Suffix(Candidate(q), Append(t, unit))
  <2>1. Candidate(q) \in Seq(Nat) /\ Suffix(Candidate(q), Append(Candidate(p), unit))
    BY <1>1, CandidateFacts DEF Moved
  <2> QED
    BY <1>6, <2>1, SuffixTransitive
<1>8. \A n \in Members(q.accepted) : n \in old \/ Carried(frames, Append(t, unit), n)
  <2>1. ASSUME NEW n, Carried(frames, t, n) PROVE Carried(frames, Append(t, unit), n)
    <3>1. n \in DOMAIN frames /\ Contains(t, Line(n, frames[n])) /\ Line(n, frames[n]) \in Seq(Nat)
      BY <2>1 DEF Carried
    <3>2. Contains(Append(t, unit), Line(n, frames[n]))
      BY <3>1, ContainsAppend
    <3> QED
      BY <3>1, <3>2 DEF Carried
  <2> QED
    BY <1>1, <2>1 DEF Follows
<1>9. ASSUME NEW u \in Nat, Above(u, old, Append(t, unit)) PROVE Later(q, u)
  <2>1. Later(p, u) /\ (u > MaxField => unit < u)
    BY <1>9, AboveAppend DEF Follows
  <2>2. CASE q.units = <<>>
    <3>1. DOMAIN q.units = {}
      BY <2>2
    <3> QED
      BY <1>1, <2>1, <3>1 DEF Later
  <2>3. CASE q.units = Append(p.units, unit)
    BY <1>1, <1>2, <1>3, <2>1, <2>3 DEF Later
  <2> QED
    BY <1>1, <2>2, <2>3
<1> QED
  BY <1>5, <1>7, <1>8, <1>9 DEF Follows

\* Accepting a frame keeps it: the stream ends with that frame's line.
LEMMA FollowsAccepting ==
  ASSUME sent' \in Seq(Frames), NEW p, NEW q, NEW unit \in Nat, NEW t \in Seq(Nat), NEW old,
         \A n \in DOMAIN sent' : Line(n, sent'[n]) \in Seq(Nat),
         Follows(sent', p, t, old), Later(p, unit), Accepting(p, q, unit)
  PROVE  Follows(sent', q, Append(t, unit), old)
<1> DEFINE n == unit - MaxField
           line == Line(n, sent'[n])
<1>1. p \in Parser /\ p.accepted \in Seq(Nat) /\ Sound(sent', p) /\ Suffix(Candidate(p), t)
  BY DEF Follows, Sound, Parser
<1>2. /\ n \in DOMAIN sent' /\ n \in Nat /\ unit = Trailer(n)
      /\ Append(Candidate(p), unit) = line
  BY <1>1, AcceptedFrame
<1>3. Sound(sent', q) /\ q.units = <<>> /\ Candidate(q) = <<>> /\ q.accepted = Append(p.accepted, n)
  BY <1>1, AcceptSound
<1> HIDE DEF n
<1>4. line \in Seq(Nat) /\ Append(t, unit) \in Seq(Nat) /\ Suffix(line, Append(t, unit))
  BY <1>1, <1>2, CandidateGrows
<1> HIDE DEF line
<1>5. Contains(Append(t, unit), line)
  <2>1. Suffix(line, line)
    BY <1>4, SuffixSelf
  <2>2. Contains(line, line)
    <3>1. Len(line) \in Nat
      BY <1>4, LenProperties
    <3>2. 0 \in Nat /\ 0 + Len(line) <= Len(line) /\ \A i \in 1 .. Len(line) : line[0 + i] = line[i]
      BY <3>1
    <3> QED
      BY <3>2 DEF Contains
  <2> QED
    BY <1>4, <2>2, SuffixContains
<1>6. Carried(sent', Append(t, unit), n)
  BY <1>2, <1>5 DEF Carried, line
<1>7. Members(q.accepted) = Members(p.accepted) \cup {n}
  BY <1>1, <1>2, <1>3, MembersAppend
<1>8. \A m \in Members(q.accepted) : m \in old \/ Carried(sent', Append(t, unit), m)
  <2>1. ASSUME NEW m, Carried(sent', t, m) PROVE Carried(sent', Append(t, unit), m)
    <3>1. m \in DOMAIN sent' /\ Contains(t, Line(m, sent'[m])) /\ Line(m, sent'[m]) \in Seq(Nat)
      BY <2>1 DEF Carried
    <3>2. Contains(Append(t, unit), Line(m, sent'[m]))
      BY <3>1, ContainsAppend
    <3> QED
      BY <3>1, <3>2 DEF Carried
  <2> QED
    BY <1>6, <1>7, <2>1 DEF Follows
<1>9. Suffix(Candidate(q), Append(t, unit))
  BY <1>3, <1>4, SuffixSelf
<1>10. ASSUME NEW u \in Nat, Above(u, old, Append(t, unit)) PROVE Later(q, u)
  <2>1. Later(p, u) /\ (u > MaxField => unit < u)
    BY <1>10, AboveAppend DEF Follows
  <2>2. DOMAIN q.units = {}
    BY <1>3
  <2> QED
    BY <1>2, <1>7, <2>1, <2>2 DEF Later
<1> QED
  BY <1>3, <1>8, <1>9, <1>10 DEF Follows

\* The lines of all frames are sequences of numbers.
LEMMA LinesAreUnits ==
  ASSUME NEW frames \in Seq(Frames)
  PROVE  /\ DOMAIN frames = 1 .. Len(frames) /\ Len(frames) \in Nat
         /\ \A n \in DOMAIN frames : /\ n \in Nat /\ frames[n] \in Frames
                                     /\ Line(n, frames[n]) \in Seq(Nat)
<1>1. DOMAIN frames = 1 .. Len(frames) /\ Len(frames) \in Nat
  BY LenProperties
<1>2. \A n \in DOMAIN frames : n \in Nat /\ frames[n] \in Frames
  BY <1>1, ElementOfSeq
<1> QED
  BY <1>1, <1>2, LineFacts

\* A replayed unit keeps the account, whether it moves the candidate or ends a frame.
LEMMA ReplayStep ==
  ASSUME sent' \in Seq(Frames), NEW p, NEW unit \in Nat, NEW t \in Seq(Nat), NEW old,
         Follows(sent', p, t, old), Above(unit, old, t)
  PROVE  Follows(sent', ReplayByte(p, unit), Append(t, unit), old)
<1>1. p \in Parser /\ Shape(p) /\ Later(p, unit)
  BY DEF Follows, Sound
<1>2. \A n \in DOMAIN sent' : Line(n, sent'[n]) \in Seq(Nat)
  BY LinesAreUnits
<1> DEFINE q == ReplayByte(p, unit)
<1>3. Moved(p, q, unit) \/ Accepting(p, q, unit)
  BY <1>1, ReplayByteCases
<1> HIDE DEF q
<1>4. Follows(sent', q, Append(t, unit), old)
  BY <1>1, <1>2, <1>3, FollowsMoved, FollowsAccepting
<1> QED
  BY <1>4 DEF q

\* The beginning of a stream.
LEMMA FirstFacts ==
  ASSUME NEW s \in Seq(Nat), NEW k \in 0 .. Len(s)
  PROVE  /\ First(s, k) \in Seq(Nat) /\ Len(First(s, k)) = k /\ DOMAIN First(s, k) = 1 .. k
         /\ \A i \in 1 .. k : First(s, k)[i] = s[i] /\ s[i] \in Nat
         /\ k # Len(s) => First(s, k + 1) = Append(First(s, k), s[k + 1])
         /\ First(s, Len(s)) = s
<1>1. Len(s) \in Nat /\ DOMAIN s = 1 .. Len(s) /\ \A i \in 1 .. Len(s) : s[i] \in Nat
  BY LenProperties, ElementOfSeq
<1>2. ASSUME NEW m \in 0 .. Len(s)
      PROVE  /\ First(s, m) \in Seq(Nat) /\ Len(First(s, m)) = m /\ DOMAIN First(s, m) = 1 .. m
             /\ \A i \in 1 .. m : First(s, m)[i] = s[i] /\ s[i] \in Nat
  <2>1. m \in Nat /\ 1 .. m \subseteq 1 .. Len(s)
    BY <1>1
  <2>2. First(s, m) \in [1 .. m -> Nat]
    BY <1>1, <2>1 DEF First
  <2>3. First(s, m) \in Seq(Nat)
    BY <2>1, <2>2
  <2>4. DOMAIN First(s, m) = 1 .. m
    BY DEF First
  <2>5. Len(First(s, m)) = m
    BY <2>1, <2>3, <2>4, LenProperties
  <2> QED
    BY <1>1, <2>1, <2>3, <2>4, <2>5 DEF First
<1>3. ASSUME k # Len(s) PROVE First(s, k + 1) = Append(First(s, k), s[k + 1])
  <2> DEFINE a == First(s, k + 1)
             f == First(s, k)
             b == Append(f, s[k + 1])
  <2>1. k \in Nat /\ k + 1 \in 0 .. Len(s) /\ k + 1 \in 1 .. Len(s)
    <3>1. Len(s) \in Nat
      BY <1>1
    <3> HIDE DEF a, f, b
    <3> QED
      BY <1>3, <3>1
  <2>2. a \in Seq(Nat) /\ Len(a) = k + 1 /\ \A i \in 1 .. k + 1 : a[i] = s[i]
    BY <1>2, <2>1
  <2>3. f \in Seq(Nat) /\ Len(f) = k /\ s[k + 1] \in Nat /\ \A i \in 1 .. k : f[i] = s[i]
    BY <1>1, <1>2, <2>1
  <2> HIDE DEF a, f
  <2>4. b \in Seq(Nat) /\ Len(b) = k + 1 /\ b[k + 1] = s[k + 1] /\ \A i \in 1 .. k : b[i] = f[i]
    BY <2>3, AppendFacts
  <2> HIDE DEF b
  <2>5. \A i \in 1 .. k + 1 : i \in 1 .. k \/ i = k + 1
    BY <2>1
  <2>6. \A i \in 1 .. k + 1 : a[i] = b[i]
    BY <2>2, <2>3, <2>4, <2>5
  <2>7. a = b
    BY <2>2, <2>4, <2>6, SeqEqual
  <2> QED
    BY <2>7 DEF a, b, f
<1>4. First(s, Len(s)) = s
  <2>1. Len(s) \in 0 .. Len(s)
    BY <1>1
  <2>2. First(s, Len(s)) \in Seq(Nat) /\ Len(First(s, Len(s))) = Len(s)
        /\ \A i \in 1 .. Len(s) : First(s, Len(s))[i] = s[i]
    BY <1>2, <2>1
  <2> QED
    BY <2>2, SeqEqual
<1> QED
  BY <1>2, <1>3, <1>4

\* A parser may be fed with any sequence.
LEMMA FeedingExists ==
  ASSUME NEW again, NEW p, NEW units \in Seq(Nat)
  PROVE  \E f : Fed(again, p, units, f)
<1> DEFINE Table(k, f) ==
             f = [i \in 0 .. k |-> IF i = 0 THEN p ELSE Stepped(again, f[i - 1], units[i])]
           Missing == {k \in Nat : ~\E f : Table(k, f)}
<1>1. Missing = {}
  <2> SUFFICES ASSUME Missing # {} PROVE FALSE
    OBVIOUS
  <2>1. PICK k \in Missing : \A m \in Missing : k <= m
    <3>1. Missing \in SUBSET Nat
      OBVIOUS
    <3> HIDE DEF Missing
    <3> QED
      BY <3>1, LeastNumber
  <2>2. k \in Nat /\ ~\E f : Table(k, f)
    BY <2>1
  <2>3. CASE k = 0
    <3> DEFINE f == [i \in 0 .. 0 |-> p]
    <3>1. f = [i \in 0 .. 0 |-> IF i = 0 THEN p ELSE Stepped(again, f[i - 1], units[i])]
      OBVIOUS
    <3> HIDE DEF f
    <3>2. Table(0, f)
      BY <3>1
    <3> HIDE DEF Table
    <3> QED
      BY <2>2, <2>3, <3>2
  <2>4. CASE k # 0
    <3>1. k - 1 \in Nat /\ ~(k <= k - 1)
      BY <2>2, <2>4
    <3>2. PICK g : Table(k - 1, g)
      BY <2>1, <3>1
    <3> DEFINE f == [i \in 0 .. k |-> IF i = k THEN Stepped(again, g[k - 1], units[k]) ELSE g[i]]
    <3>3. DOMAIN f = 0 .. k /\ f[k] = Stepped(again, g[k - 1], units[k])
          /\ \A i \in 0 .. k - 1 : f[i] = g[i]
      BY <2>2
    <3>4. ASSUME NEW i \in 0 .. k
          PROVE  f[i] = IF i = 0 THEN p ELSE Stepped(again, f[i - 1], units[i])
      <4>1. CASE i = k
        <5>1. i - 1 \in 0 .. k - 1 /\ i # 0
          BY <2>2, <2>4, <4>1
        <5> HIDE DEF f
        <5> QED
          BY <3>3, <4>1, <5>1
      <4>2. CASE i # k
        <5>1. i \in 0 .. k - 1
          BY <2>2, <4>2
        <5>2. g[i] = IF i = 0 THEN p ELSE Stepped(again, g[i - 1], units[i])
          BY <3>2, <5>1
        <5>3. i # 0 => i - 1 \in 0 .. k - 1
          BY <2>2, <5>1
        <5> HIDE DEF f
        <5> QED
          BY <3>3, <5>1, <5>2, <5>3
      <4> QED
        BY <4>1, <4>2
    <3>5. f = [i \in 0 .. k |-> f[i]]
      OBVIOUS
    <3> HIDE DEF f
    <3>6. Table(k, f)
      BY <3>4, <3>5
    <3> HIDE DEF Table
    <3> QED
      BY <2>2, <3>6
  <2> QED
    BY <2>3, <2>4
<1>2. Len(units) \in Nat
  BY LenProperties
<1>3. \E f : Table(Len(units), f)
  BY <1>1, <1>2
<1> QED
  BY <1>3 DEF Fed

\* A parser that keeps its account with each unit keeps it with all of them.
LEMMA FeedingFollows ==
  ASSUME sent' \in Seq(Frames), NEW again, NEW p, NEW s \in Seq(Nat), NEW k \in 0 .. Len(s),
         NEW units \in Seq(Nat), NEW old, NEW f,
         Len(units) = Len(s) - k, \A i \in 1 .. Len(units) : units[i] = s[k + i],
         Follows(sent', p, First(s, k), old), Rising(s, k, old), Fed(again, p, units, f),
         \A q : \A u \in Nat : \A t \in Seq(Nat) :
           Follows(sent', q, t, old) /\ Above(u, old, t) =>
             Follows(sent', Stepped(again, q, u), Append(t, u), old)
  PROVE  Follows(sent', f[Len(units)], s, old)
<1> DEFINE n == Len(units)
           Wrong == {i \in 0 .. n : ~Follows(sent', f[i], First(s, k + i), old)}
<1>1. n \in Nat /\ Len(s) \in Nat /\ k \in Nat /\ k + n = Len(s) /\ DOMAIN s = 1 .. Len(s)
  BY LenProperties
<1>2. /\ f[0] = p
      /\ \A i \in 1 .. n : f[i] = Stepped(again, f[i - 1], units[i])
  <2>1. f = [i \in 0 .. n |-> IF i = 0 THEN p ELSE Stepped(again, f[i - 1], units[i])]
    BY DEF Fed
  <2>2. 0 \in 0 .. n /\ \A i \in 1 .. n : i \in 0 .. n /\ i # 0
    BY <1>1
  <2> HIDE DEF n
  <2>3. \A i \in 0 .. n : f[i] = IF i = 0 THEN p ELSE Stepped(again, f[i - 1], units[i])
    BY <2>1, Zenon
  <2> QED
    BY <2>2, <2>3
<1> HIDE DEF n
<1>3. Wrong = {}
  <2> SUFFICES ASSUME Wrong # {} PROVE FALSE
    OBVIOUS
  <2>1. PICK i \in Wrong : \A m \in Wrong : i <= m
    <3>1. Wrong \in SUBSET Nat
      BY <1>1
    <3> HIDE DEF Wrong
    <3> QED
      BY <3>1, LeastNumber
  <2>2. i \in 0 .. n /\ ~Follows(sent', f[i], First(s, k + i), old)
    BY <2>1
  <2>3. i # 0
    <3>1. k + 0 = k
      BY <1>1
    <3> QED
      BY <1>2, <2>2, <3>1
  <2> DEFINE j == k + i - 1
  <2>4. /\ i - 1 \in 0 .. n /\ ~(i <= i - 1) /\ i \in 1 .. n /\ k + (i - 1) = j
        /\ j \in 0 .. Len(s) /\ j # Len(s) /\ j + 1 = k + i /\ j + 1 \in DOMAIN s /\ j + 1 > k
        /\ (j + 1) - 1 = j
    <3> HIDE DEF Wrong
    <3>1. i \in 0 .. n /\ i # 0 /\ n \in Nat /\ k \in Nat /\ k + n = Len(s)
      BY <1>1, <2>2, <2>3
    <3>2. i \in Nat /\ i <= n /\ i >= 1
      BY <3>1
    <3>3. j = k + i - 1
      OBVIOUS
    <3> HIDE DEF j
    <3>4. j \in Nat /\ j + 1 = k + i /\ j + 1 \in 1 .. Len(s) /\ k + (i - 1) = j
      BY <3>1, <3>2, <3>3
    <3>5. j + 1 \in DOMAIN s
      BY <1>1, <3>4
    <3> QED
      BY <3>1, <3>2, <3>4, <3>5
  <2> HIDE DEF j
  <2>5. Follows(sent', f[i - 1], First(s, j), old)
    BY <2>1, <2>4
  <2>6. units[i] = s[j + 1] /\ f[i] = Stepped(again, f[i - 1], s[j + 1])
    BY <1>2, <2>4 DEF n
  <2>7. First(s, j) \in Seq(Nat) /\ First(s, j + 1) = Append(First(s, j), s[j + 1])
    BY <2>4, FirstFacts
  <2>8. s[j + 1] \in Nat
    BY <1>1, <2>4, ElementOfSeq
  <2>9. Above(s[j + 1], old, First(s, j))
    BY <2>4 DEF Rising
  <2>10. Follows(sent', f[i], First(s, j + 1), old)
    BY <2>5, <2>6, <2>7, <2>8, <2>9
  <2> QED
    BY <2>2, <2>4, <2>10
<1>4. n \in 0 .. n
  BY <1>1
<1>5. Follows(sent', f[n], First(s, k + n), old)
  BY <1>3, <1>4
<1>6. First(s, k + n) = s
  BY <1>1, FirstFacts
<1> QED
  BY <1>5, <1>6 DEF n

\* The replay is a parser fed with the rejected candidate's units.
LEMMA ReplayIsFed ==
  ASSUME NEW p, NEW units \in Seq(Nat)
  PROVE  \E f : Fed(TRUE, Scanning(p), units, f) /\ Replay(p, units) = f[Len(units)]
<1> DEFINE After == CHOOSE f :
             f = [i \in 0 .. Len(units) |-> IF i = 0 THEN Scanning(p) ELSE ReplayByte(f[i - 1], units[i])]
<1>1. Replay(p, units) = After[Len(units)]
  BY DEF Replay, InOrder
<1>2. PICK f : Fed(TRUE, Scanning(p), units, f)
  BY FeedingExists
<1>3. f = [i \in 0 .. Len(units) |-> IF i = 0 THEN Scanning(p) ELSE ReplayByte(f[i - 1], units[i])]
  BY <1>2 DEF Fed, Stepped
<1>4. After = [i \in 0 .. Len(units) |->
                 IF i = 0 THEN Scanning(p) ELSE ReplayByte(After[i - 1], units[i])]
  BY <1>3, Zenon
<1> HIDE DEF After
<1>5. Fed(TRUE, Scanning(p), units, After)
  BY <1>4 DEF Fed, Stepped
<1> QED
  BY <1>1, <1>5

\* Draining is the parser fed with the units.
LEMMA DrainIsFed ==
  ASSUME NEW p, NEW units \in Seq(Nat)
  PROVE  \E f : Fed(FALSE, p, units, f) /\ Drain(p, units) = f[Len(units)]
<1> DEFINE After == CHOOSE f :
             f = [i \in 0 .. Len(units) |-> IF i = 0 THEN p ELSE RxByte(f[i - 1], units[i])]
<1>1. Drain(p, units) = After[Len(units)]
  BY DEF Drain, InOrder
<1>2. PICK f : Fed(FALSE, p, units, f)
  BY FeedingExists
<1>3. f = [i \in 0 .. Len(units) |-> IF i = 0 THEN p ELSE RxByte(f[i - 1], units[i])]
  BY <1>2 DEF Fed, Stepped
<1>4. After = [i \in 0 .. Len(units) |-> IF i = 0 THEN p ELSE RxByte(After[i - 1], units[i])]
  BY <1>3, Zenon
<1> HIDE DEF After
<1>5. Fed(FALSE, p, units, After)
  BY <1>4 DEF Fed, Stepped
<1> QED
  BY <1>1, <1>5

\* The end of a stream is an end of it.
LEMMA SuffixConcat ==
  ASSUME NEW s \in Seq(Nat), NEW t \in Seq(Nat)
  PROVE  Suffix(t, s \o t)
<1>1. /\ Len(s \o t) = Len(s) + Len(t) /\ Len(s) \in Nat
      /\ \A i \in 1 .. Len(t) : (s \o t)[Len(s) + i] = t[i]
  BY ConcatFacts
<1> QED
  BY <1>1 DEF Suffix

\* A rejected candidate scanned again yields no frame that is not in it.
LEMMA ReplayFollows ==
  ASSUME sent' \in Seq(Frames), NEW p, NEW unit \in Nat, Sound(sent', p), Later(p, unit)
  PROVE  Follows(sent', Replay(p, Append(p.units, unit)), Append(p.units, unit), Members(p.accepted))
<1> DEFINE units == Append(p.units, unit)
           old == Members(p.accepted)
           start == Scanning(p)
<1>1. p \in Parser /\ Shape(p) /\ p.units \in Seq(Nat)
  BY DEF Sound, Parser
<1>2. /\ units \in Seq(Nat) /\ Len(units) \in Nat /\ DOMAIN units = 1 .. Len(units)
      /\ Len(units) = Len(p.units) + 1 /\ units[Len(units)] = unit /\ Len(p.units) \in Nat
      /\ DOMAIN p.units = 1 .. Len(p.units) /\ \A i \in 1 .. Len(p.units) : units[i] = p.units[i]
  BY <1>1, AppendFacts, LenProperties
<1>3. First(units, 0) = <<>> /\ 0 \in 0 .. Len(units)
  <2>1. 0 \in 0 .. Len(units)
    BY <1>2
  <2>2. First(units, 0) \in Seq(Nat) /\ Len(First(units, 0)) = 0
    BY <1>2, <2>1, FirstFacts
  <2> QED
    BY <2>1, <2>2, EmptySeq
<1>4. Follows(sent', start, <<>>, old)
  <2>1. /\ start \in Parser /\ Shape(start) /\ Candidate(start) = <<>> /\ start.units = <<>>
        /\ start.last = p.last /\ start.gaps = p.gaps
        /\ start.accepted = p.accepted /\ start.published = p.published
    BY <1>1, ScanningFacts
  <2> HIDE DEF start
  <2>2. DOMAIN start.units = {}
    BY <2>1
  <2>3. Sound(sent', start)
    BY <2>1, <2>2, Zenon DEF Sound
  <2>4. Suffix(Candidate(start), <<>>)
    BY <2>1, SuffixSelf, EmptySeq
  <2>5. \A u \in Nat : Above(u, old, <<>>) => Later(start, u)
    BY <2>1, <2>2 DEF Above, Later
  <2> QED
    BY <2>1, <2>3, <2>4, <2>5 DEF Follows
<1> HIDE DEF units, start
<1>5. Rising(units, 0, old)
  <2> SUFFICES ASSUME NEW j \in DOMAIN units, units[j] > MaxField
               PROVE  /\ \A n \in old : Trailer(n) < units[j]
                      /\ \A i \in DOMAIN First(units, j - 1) : First(units, j - 1)[i] < units[j]
    BY DEF Rising, Above
  <2>1. j - 1 \in 0 .. Len(units) /\ j \in Nat /\ j <= Len(units)
    BY <1>2
  <2>2. /\ DOMAIN First(units, j - 1) = 1 .. j - 1
        /\ \A i \in 1 .. j - 1 : First(units, j - 1)[i] = units[i]
    BY <1>2, <2>1, FirstFacts
  <2>3. \A i \in 1 .. j - 1 : i \in 1 .. Len(p.units) /\ i < j
    BY <1>2, <2>1, SMTT(30)
  <2>4. CASE j = Len(units)
    <3>1. \A n \in old : Trailer(n) < unit
      BY <1>2, <2>4 DEF Later
    <3>2. \A i \in 1 .. Len(p.units) : p.units[i] < unit
      BY <1>2, <2>4 DEF Later
    <3> QED
      BY <1>2, <2>2, <2>3, <2>4, <3>1, <3>2
  <2>5. CASE j # Len(units)
    <3>1. j \in DOMAIN p.units /\ units[j] = p.units[j]
      <4>1. j \in 1 .. Len(p.units)
        BY <1>2, <2>1, <2>5, SMTT(30)
      <4> QED
        BY <1>2, <4>1
    <3>2. \A n \in old : Trailer(n) < p.units[j]
      BY <3>1 DEF Sound
    <3>3. \A i \in 1 .. j - 1 : p.units[i] < p.units[j]
      BY <1>2, <2>3, <3>1 DEF Sound
    <3> QED
      BY <1>2, <2>2, <2>3, <3>1, <3>2, <3>3
  <2> QED
    BY <2>4, <2>5
<1>6. PICK f : Fed(TRUE, start, units, f) /\ Replay(p, units) = f[Len(units)]
  BY <1>2, ReplayIsFed DEF start
<1>7. \A q : \A u \in Nat : \A t \in Seq(Nat) :
        Follows(sent', q, t, old) /\ Above(u, old, t) =>
          Follows(sent', Stepped(TRUE, q, u), Append(t, u), old)
  BY ReplayStep DEF Stepped
<1>8. Len(units) = Len(units) - 0 /\ \A i \in 1 .. Len(units) : units[i] = units[0 + i]
  BY <1>2
<1> HIDE DEF old
<1>9. Follows(sent', f[Len(units)], units, old)
  BY <1>2, <1>3, <1>4, <1>5, <1>6, <1>7, <1>8, FeedingFollows
<1> QED
  BY <1>6, <1>9 DEF units, old

\* A unit from the line keeps the parser's account, a rejected candidate included.
LEMMA RxStep ==
  ASSUME sent' \in Seq(Frames), NEW p, NEW unit \in Nat, NEW t \in Seq(Nat), NEW old,
         Follows(sent', p, t, old), Above(unit, old, t)
  PROVE  Follows(sent', RxByte(p, unit), Append(t, unit), old)
<1> DEFINE q == RxByte(p, unit)
           units == Append(p.units, unit)
<1>1. p \in Parser /\ Shape(p) /\ Later(p, unit) /\ Sound(sent', p) /\ p.units \in Seq(Nat)
  BY DEF Follows, Sound, Parser
<1>2. \A n \in DOMAIN sent' : Line(n, sent'[n]) \in Seq(Nat)
  BY LinesAreUnits
<1>3. \/ Moved(p, q, unit) \/ Accepting(p, q, unit)
      \/ p.state = "frame" /\ q = Replay(p, units)
  BY <1>1, RxByteCases
<1> HIDE DEF q
<1>4. CASE Moved(p, q, unit) \/ Accepting(p, q, unit)
  <2>1. Follows(sent', q, Append(t, unit), old)
    BY <1>1, <1>2, <1>4, FollowsMoved, FollowsAccepting
  <2> QED
    BY <2>1 DEF q
<1>5. CASE p.state = "frame" /\ q = Replay(p, units)
  <2>1. Follows(sent', q, units, Members(p.accepted))
    BY <1>1, <1>5, ReplayFollows
  <2>2. /\ units \in Seq(Nat) /\ Append(Candidate(p), unit) \in Seq(Nat) /\ Append(t, unit) \in Seq(Nat)
        /\ Suffix(Append(Candidate(p), unit), Append(t, unit))
    BY <1>1, CandidateGrows, AppendFacts DEF Follows
  <2>3. Suffix(units, Append(Candidate(p), unit))
    <3>1. Append(Candidate(p), unit) = <<Sync0, Sync1>> \o units
      BY <1>1, <1>5, CandidateFacts
    <3>2. <<Sync0, Sync1>> \in Seq(Nat)
      BY <1>1, CandidateFacts, PairFacts
    <3> QED
      BY <2>2, <3>1, <3>2, SuffixConcat
  <2> HIDE DEF units
  <2>4. Suffix(units, Append(t, unit))
    BY <2>2, <2>3, SuffixTransitive
  <2>5. Suffix(Candidate(q), Append(t, unit))
    <3>1. Candidate(q) \in Seq(Nat) /\ Suffix(Candidate(q), units)
      BY <2>1, CandidateFacts DEF Follows, Sound
    <3> QED
      BY <2>2, <2>4, <3>1, SuffixTransitive
  <2>6. ASSUME NEW n, Carried(sent', units, n) PROVE Carried(sent', Append(t, unit), n)
    <3>1. n \in DOMAIN sent' /\ Contains(units, Line(n, sent'[n])) /\ Line(n, sent'[n]) \in Seq(Nat)
      BY <1>2, <2>6 DEF Carried
    <3>2. Contains(Append(t, unit), Line(n, sent'[n]))
      BY <2>2, <2>4, <3>1, SuffixContains
    <3> QED
      BY <3>1, <3>2 DEF Carried
  <2>7. ASSUME NEW n, Carried(sent', t, n) PROVE Carried(sent', Append(t, unit), n)
    <3>1. n \in DOMAIN sent' /\ Contains(t, Line(n, sent'[n])) /\ Line(n, sent'[n]) \in Seq(Nat)
      BY <1>2, <2>7 DEF Carried
    <3>2. Contains(Append(t, unit), Line(n, sent'[n]))
      BY <3>1, ContainsAppend
    <3> QED
      BY <3>1, <3>2 DEF Carried
  <2>8. \A n \in Members(q.accepted) : n \in old \/ Carried(sent', Append(t, unit), n)
    <3>1. \A n \in Members(q.accepted) : n \in Members(p.accepted) \/ Carried(sent', units, n)
      BY <2>1 DEF Follows
    <3>2. \A n \in Members(p.accepted) : n \in old \/ Carried(sent', t, n)
      BY DEF Follows
    <3> QED
      BY <2>6, <2>7, <3>1, <3>2
  <2>9. ASSUME NEW u \in Nat, Above(u, old, Append(t, unit)) PROVE Later(q, u)
    <3>1. Later(p, u) /\ (u > MaxField => unit < u)
      BY <2>9, AboveAppend DEF Follows
    <3>2. Above(u, Members(p.accepted), units)
      <4>1. /\ DOMAIN units = 1 .. (Len(p.units) + 1) /\ DOMAIN p.units = 1 .. Len(p.units)
            /\ Len(p.units) \in Nat
            /\ units[Len(p.units) + 1] = unit /\ \A i \in 1 .. Len(p.units) : units[i] = p.units[i]
        BY <1>1, AppendFacts, LenProperties DEF units
      <4>2. \A i \in 1 .. (Len(p.units) + 1) : i \in 1 .. Len(p.units) \/ i = Len(p.units) + 1
        BY <4>1
      <4> QED
        BY <3>1, <4>1, <4>2 DEF Above, Later
    <3> QED
      BY <2>1, <3>2 DEF Follows
  <2>10. Follows(sent', q, Append(t, unit), old)
    BY <2>1, <2>5, <2>8, <2>9 DEF Follows
  <2> QED
    BY <2>10 DEF q
<1> QED
  BY <1>3, <1>4, <1>5

\* Draining units whose trailers rise keeps the parser's account of the stream.
LEMMA DrainFollows ==
  ASSUME sent' \in Seq(Frames), NEW p, NEW t \in Seq(Nat), NEW units \in Seq(Nat),
         Follows(sent', p, t, {}), Rising(t \o units, Len(t), {})
  PROVE  Follows(sent', Drain(p, units), t \o units, {})
<1> DEFINE s == t \o units
           k == Len(t)
<1>1. /\ s \in Seq(Nat) /\ Len(s) = k + Len(units) /\ k \in Nat /\ Len(units) \in Nat
      /\ \A i \in 1 .. k : s[i] = t[i]
      /\ \A i \in 1 .. Len(units) : s[k + i] = units[i]
  BY ConcatFacts
<1>2. Rising(s, k, {}) /\ Follows(sent', p, t, {})
  OBVIOUS
<1> HIDE DEF s
<1>3. k \in 0 .. Len(s) /\ Len(units) = Len(s) - k
  BY <1>1
<1>4. First(s, k) = t
  <2>1. First(s, k) \in Seq(Nat) /\ Len(First(s, k)) = k /\ \A i \in 1 .. k : First(s, k)[i] = s[i]
    BY <1>1, <1>3, FirstFacts
  <2>2. \A i \in 1 .. Len(First(s, k)) : First(s, k)[i] = t[i]
    BY <1>1, <2>1
  <2> QED
    BY <2>1, <2>2, SeqEqual
<1> HIDE DEF k
<1>5. PICK f : Fed(FALSE, p, units, f) /\ Drain(p, units) = f[Len(units)]
  BY DrainIsFed
<1>6. \A q : \A u \in Nat : \A r \in Seq(Nat) :
        Follows(sent', q, r, {}) /\ Above(u, {}, r) =>
          Follows(sent', Stepped(FALSE, q, u), Append(r, u), {})
  BY RxStep DEF Stepped
<1>7. Follows(sent', p, First(s, k), {}) /\ \A i \in 1 .. Len(units) : units[i] = s[k + i]
  BY <1>1, <1>2, <1>4
<1>8. Follows(sent', f[Len(units)], s, {})
  BY <1>1, <1>2, <1>3, <1>5, <1>6, <1>7, FeedingFollows
<1> QED
  BY <1>5, <1>8 DEF s

\* A further frame sent changes nothing about those before it.
LEMMA FollowsMore ==
  ASSUME NEW frames \in Seq(Frames), NEW frame \in Frames, NEW more, more = Append(frames, frame),
         NEW p, NEW s, NEW old, Follows(frames, p, s, old)
  PROVE  Follows(more, p, s, old)
<1>1. /\ DOMAIN frames = 1 .. Len(frames) /\ Len(frames) \in Nat
      /\ DOMAIN more = 1 .. (Len(frames) + 1)
      /\ \A i \in 1 .. Len(frames) : more[i] = frames[i]
  <2>1. /\ Append(frames, frame) \in Seq(Frames) /\ Len(Append(frames, frame)) = Len(frames) + 1
        /\ \A i \in 1 .. Len(frames) : Append(frames, frame)[i] = frames[i]
    BY AppendProperties
  <2> QED
    BY <2>1, LenProperties
<1>2. DOMAIN frames \subseteq DOMAIN more
  BY <1>1
<1>3. \A n \in DOMAIN frames : n \in DOMAIN more /\ more[n] = frames[n]
  BY <1>1, <1>2
<1>4. Sound(more, p)
  <2>1. Members(p.accepted) \subseteq DOMAIN frames
    BY DEF Follows, Sound
  <2>2. Members(p.accepted) \subseteq DOMAIN more
    BY <1>2, <2>1
  <2>3. \A n \in Members(p.published) :
          n \in Members(p.accepted) /\ Wanted(more[n].topic, Len(more[n].payload))
    <3>1. \A n \in Members(p.published) :
            n \in Members(p.accepted) /\ Wanted(frames[n].topic, Len(frames[n].payload))
      BY DEF Follows, Sound
    <3> QED
      BY <1>3, <2>1, <3>1
  <2> QED
    BY <2>2, <2>3, Zenon DEF Follows, Sound
<1>5. \A n \in Members(p.accepted) : n \in old \/ Carried(more, s, n)
  BY <1>3 DEF Follows, Carried
<1> QED
  BY <1>4, <1>5 DEF Follows

\* What arrives of a frame keeps the account of the stream.
LEMMA ReceiveKeeps ==
  ASSUME IInv, NEW frame \in Frames, NEW units \in Seq(Nat), Ended(units, Len(sent) + 1),
         Receive(frame, units)
  PROVE  /\ sent' \in Seq(Frames) /\ Len(sent') = Len(sent) + 1 /\ arrived' \in Seq(Nat)
         /\ StreamInv' /\ Follows(sent', rx', arrived', {})
<1> DEFINE whole == arrived \o units
           k == Len(arrived)
           n == Len(sent) + 1
<1>1. sent' = Append(sent, frame) /\ arrived' = whole /\ rx' = Drain(rx, units)
  BY DEF Receive
<1>2. sent' \in Seq(Frames) /\ Len(sent') = n /\ n \in Nat /\ Len(sent) \in Nat
  BY <1>1, AppendProperties, LenProperties DEF IInv
<1>3. /\ whole \in Seq(Nat) /\ Len(whole) = k + Len(units) /\ k \in Nat /\ Len(units) \in Nat
      /\ (\A i \in 1 .. k : whole[i] = arrived[i])
      /\ \A i \in 1 .. Len(units) : whole[k + i] = units[i]
  BY ConcatFacts DEF IInv
<1>4. DOMAIN arrived = 1 .. k /\ DOMAIN whole = 1 .. Len(whole) /\ DOMAIN units = 1 .. Len(units)
  BY <1>3, LenProperties DEF IInv
<1>5. MaxField \in Nat /\ Trailer(n) = MaxField + n
  BY DEF MaxField, Trailer
<1> HIDE DEF whole
<1>6. \A i \in 1 .. k : whole[i] <= MaxField + Len(sent) /\ whole[i] \in Nat
  <2>1. \A i \in 1 .. k : arrived[i] <= MaxField + Len(sent)
    BY <1>4 DEF IInv, StreamInv
  <2>2. \A i \in 1 .. k : i \in 1 .. Len(whole)
    BY <1>3
  <2> QED
    BY <1>3, <2>1, <2>2, ElementOfSeq
<1>7. ASSUME NEW i \in 1 .. Len(whole), i > k
      PROVE  whole[i] \in Nat /\ (whole[i] <= MaxField \/ (i = Len(whole) /\ whole[i] = Trailer(n)))
  <2> DEFINE m == i - k
  <2>1. m \in 1 .. Len(units) /\ k + m = i /\ (m = Len(units) => i = Len(whole))
    BY <1>3, <1>7
  <2> HIDE DEF m
  <2>2. whole[i] = units[m]
    BY <1>3, <2>1, SMTT(30)
  <2>3. units[m] <= MaxField \/ (m = Len(units) /\ units[m] = Trailer(n))
    BY <1>4, <2>1, Zenon DEF Ended
  <2> QED
    BY <1>3, <2>1, <2>2, <2>3, ElementOfSeq
<1>8. \A i \in 1 .. Len(whole) : whole[i] <= MaxField + n
  <2>1. \A i \in 1 .. Len(whole) : i \in 1 .. k \/ i > k
    BY <1>3
  <2>2. ASSUME NEW i \in 1 .. k PROVE whole[i] <= MaxField + n
    BY <1>2, <1>5, <1>6
  <2>3. ASSUME NEW i \in 1 .. Len(whole), i > k PROVE whole[i] <= MaxField + n
    BY <1>2, <1>5, <1>7, <2>3
  <2> QED
    BY <2>1, <2>2, <2>3
<1>9. StreamInv'
  BY <1>1, <1>2, <1>4, <1>8 DEF StreamInv
<1>10. Rising(whole, k, {})
  <2> SUFFICES ASSUME NEW j \in DOMAIN whole, j > k, whole[j] > MaxField
               PROVE  \A i \in DOMAIN First(whole, j - 1) : First(whole, j - 1)[i] < whole[j]
    BY DEF Rising, Above
  <2>1. j \in 1 .. Len(whole) /\ j - 1 \in 0 .. Len(whole) /\ j \in Nat
    BY <1>3, <1>4
  <2>2. j = Len(whole) /\ whole[j] = MaxField + n
    BY <1>5, <1>7, <2>1
  <2>3. /\ DOMAIN First(whole, j - 1) = 1 .. j - 1
        /\ \A i \in 1 .. j - 1 : First(whole, j - 1)[i] = whole[i]
    BY <1>3, <2>1, FirstFacts
  <2>4. ASSUME NEW i \in 1 .. j - 1 PROVE whole[i] < whole[j]
    <3>1. i \in 1 .. Len(whole) /\ i # Len(whole)
      BY <1>3, <2>1, <2>2, SMTT(30)
    <3>2. CASE i \in 1 .. k
      BY <1>2, <1>5, <1>6, <2>2, <3>2
    <3>3. CASE i > k
      BY <1>2, <1>5, <1>7, <2>2, <3>1, <3>3
    <3>4. i \in 1 .. k \/ i > k
      BY <1>3, <3>1
    <3> QED
      BY <3>2, <3>3, <3>4
  <2> QED
    BY <2>3, <2>4
<1>11. Follows(sent', rx, arrived, {})
  BY <1>1, FollowsMore DEF IInv
<1>12. Follows(sent', Drain(rx, units), whole, {})
  BY <1>2, <1>10, <1>11, DrainFollows DEF whole, IInv
<1> QED
  BY <1>1, <1>2, <1>3, <1>9, <1>12

\* The number of the next frame.
LEMMA NextNumber ==
  ASSUME IInv
  PROVE  Len(sent) \in Nat /\ Len(sent) + 1 \in Nat /\ Len(sent) + 1 \in 1 .. Len(sent) + 1
         /\ Numbers \subseteq 1 .. Len(sent) + 1
<1>1. Len(sent) \in Nat
  BY LenProperties DEF IInv
<1> QED
  BY <1>1 DEF Numbers

\* A damaged line is as long as the line and differs from it in one unit.
LEMMA DamagedFacts ==
  ASSUME NEW n \in Nat, NEW frame \in Frames, NEW d \in DOMAIN Line(n, frame), NEW unit \in Noise
  PROVE  LET line == Line(n, frame)
             u == [line EXCEPT ![d] = unit]
         IN /\ u \in Seq(Nat) /\ Len(u) = Len(line) /\ d \in 1 .. Len(line) /\ u[d] = unit
            /\ Ended(u, n) /\ (unit # line[d] => u # line)
<1> DEFINE line == Line(n, frame)
           u == [line EXCEPT ![d] = unit]
<1>1. /\ line \in Seq(Nat) /\ line[Len(line)] = Trailer(n) /\ MaxField \in Nat
      /\ \A i \in 1 .. Len(line) - 1 : line[i] <= MaxField
  BY LineFacts
<1>2. unit \in Nat /\ unit <= MaxField
  BY <1>1, NoiseAssumption DEF NoiseAssumption
<1> HIDE DEF line
<1>3. d \in 1 .. Len(line) /\ Len(line) \in Nat
  BY <1>1, LenProperties DEF line
<1>4. /\ u \in Seq(Nat) /\ Len(u) = Len(line)
      /\ \A j \in 1 .. Len(line) : u[j] = IF j = d THEN unit ELSE line[j]
  BY <1>1, <1>2, <1>3, ExceptSeq
<1>5. DOMAIN u = 1 .. Len(line)
  BY <1>4, LenProperties
<1> HIDE DEF u
<1>6. Ended(u, n)
  <2>1. ASSUME NEW i \in 1 .. Len(line)
        PROVE  u[i] <= MaxField \/ (i = Len(u) /\ u[i] = Trailer(n))
    <3>1. CASE i = d
      <4>1. u[i] = unit
        BY <1>4, <3>1
      <4> QED
        BY <1>2, <4>1, Zenon
    <3>2. CASE i # d /\ i = Len(line)
      BY <1>1, <1>4, <3>2
    <3>3. CASE i # d /\ i # Len(line)
      <4>1. i \in 1 .. Len(line) - 1
        BY <1>3, <3>3
      <4>2. u[i] = line[i]
        BY <1>4, <3>3
      <4>3. line[i] <= MaxField
        BY <1>1, <4>1
      <4> QED
        BY <4>2, <4>3, Zenon
    <3> QED
      BY <3>1, <3>2, <3>3
  <2> QED
    BY <1>5, <2>1 DEF Ended
<1>7. u[d] = unit
  BY <1>3, <1>4
<1> QED
  BY <1>3, <1>4, <1>6, <1>7 DEF u, line

\* Where the units of a line that lost a stretch come from.
LEMMA ShortUnits ==
  ASSUME NEW n \in Nat, NEW frame \in Frames,
         NEW first \in DOMAIN Line(n, frame), NEW last \in DOMAIN Line(n, frame), first <= last
  PROVE  LET line == Line(n, frame)
             u == SubSeq(line, 1, first - 1) \o SubSeq(line, last + 1, Len(line))
             lost == last + 1 - first
             Place(i) == IF i < first THEN i ELSE i + lost
         IN /\ u \in Seq(Nat) /\ Len(u) = Len(line) - lost /\ Len(u) \in Nat
            /\ \A i \in 1 .. Len(u) : u[i] = line[Place(i)] /\ Place(i) \in Nat /\ Place(i) <= Len(line)
<1> DEFINE line == Line(n, frame)
           a == SubSeq(line, 1, first - 1)
           b == SubSeq(line, last + 1, Len(line))
           u == a \o b
           lost == last + 1 - first
           Place(i) == IF i < first THEN i ELSE i + lost
<1>1. line \in Seq(Nat)
  BY LineFacts
<1> HIDE DEF line
<1>2. first \in 1 .. Len(line) /\ last \in 1 .. Len(line) /\ Len(line) \in Nat
      /\ \A i \in 1 .. Len(line) : line[i] \in Nat
  BY <1>1, LenProperties, ElementOfSeq DEF line
<1>3. a \in Seq(Nat) /\ Len(a) = first - 1 /\ \A i \in 1 .. first - 1 : a[i] = line[i]
  <2>1. 1 \in Int /\ first - 1 \in Int /\ \A i \in 1 .. first - 1 : line[i] \in Nat
    <3>1. \A i \in 1 .. first - 1 : i \in 1 .. Len(line)
      BY <1>2
    <3> QED
      BY <1>2, <3>1
  <2>2. /\ SubSeq(line, 1, first - 1) \in Seq(Nat)
        /\ Len(SubSeq(line, 1, first - 1)) = IF 1 <= first - 1 THEN first - 1 - 1 + 1 ELSE 0
        /\ \A i \in 1 .. first - 1 - 1 + 1 : SubSeq(line, 1, first - 1)[i] = line[1 + i - 1]
    BY <2>1, SubSeqProperties
  <2> HIDE DEF a
  <2>3. a \in Seq(Nat) /\ Len(a) = (IF 1 <= first - 1 THEN first - 1 - 1 + 1 ELSE 0)
        /\ \A i \in 1 .. first - 1 - 1 + 1 : a[i] = line[1 + i - 1]
    BY <2>2 DEF a
  <2>4. first - 1 - 1 + 1 = first - 1 /\ \A i \in 1 .. first - 1 : 1 + i - 1 = i
    BY <1>2
  <2>5. Len(a) = first - 1
    BY <1>2, <2>3
  <2> QED
    BY <2>3, <2>4, <2>5
<1>4. b \in Seq(Nat) /\ Len(b) = Len(line) - last /\ \A i \in 1 .. Len(line) - last : b[i] = line[last + i]
  <2>1. last + 1 \in Int /\ Len(line) \in Int /\ \A i \in last + 1 .. Len(line) : line[i] \in Nat
    <3>1. \A i \in last + 1 .. Len(line) : i \in 1 .. Len(line)
      BY <1>2
    <3> QED
      BY <1>2, <3>1
  <2> DEFINE m == last + 1
  <2>2. /\ SubSeq(line, m, Len(line)) \in Seq(Nat)
        /\ Len(SubSeq(line, m, Len(line))) = IF m <= Len(line) THEN Len(line) - m + 1 ELSE 0
        /\ \A i \in 1 .. Len(line) - m + 1 : SubSeq(line, m, Len(line))[i] = line[m + i - 1]
    BY <2>1, SubSeqProperties
  <2> HIDE DEF b
  <2>3. /\ b \in Seq(Nat) /\ Len(b) = (IF m <= Len(line) THEN Len(line) - m + 1 ELSE 0)
        /\ \A i \in 1 .. Len(line) - m + 1 : b[i] = line[m + i - 1]
    BY <2>2 DEF b
  <2>4. Len(line) - m + 1 = Len(line) - last /\ \A i \in 1 .. Len(line) - last : m + i - 1 = last + i
    BY <1>2
  <2>5. Len(b) = Len(line) - last
    BY <1>2, <2>3
  <2> HIDE DEF m
  <2> QED
    BY <2>3, <2>4, <2>5
<1> HIDE DEF a, b
<1>5. /\ u \in Seq(Nat) /\ Len(u) = Len(a) + Len(b) /\ (\A i \in 1 .. Len(a) : u[i] = a[i])
      /\ \A i \in 1 .. Len(b) : u[Len(a) + i] = b[i]
  <2>1. a \in Seq(Nat) /\ b \in Seq(Nat)
    BY <1>3, <1>4
  <2> QED
    BY <2>1, ConcatFacts
<1> HIDE DEF u
<1>6. Len(u) = Len(line) - lost /\ Len(u) \in Nat
  <2>1. Len(a) = first - 1 /\ Len(b) = Len(line) - last /\ Len(u) = Len(a) + Len(b)
    BY <1>3, <1>4, <1>5
  <2> QED
    BY <1>2, <2>1
<1>7. ASSUME NEW i \in 1 .. Len(u)
      PROVE  u[i] = line[Place(i)] /\ Place(i) \in Nat /\ Place(i) <= Len(line)
  <2>1. CASE i < first
    <3>1. i \in 1 .. first - 1
      BY <1>2, <1>6, <2>1
    <3>2. u[i] = line[i]
      BY <1>3, <1>5, <3>1
    <3>3. Place(i) = i /\ i \in Nat /\ i <= Len(line)
      BY <1>2, <2>1, <3>1
    <3> QED
      BY <3>2, <3>3
  <2>2. CASE ~(i < first)
    <3> DEFINE m == i - (first - 1)
    <3>1. m \in 1 .. Len(line) - last /\ (first - 1) + m = i /\ last + m = i + lost
      BY <1>2, <1>6, <2>2, SMTT(30)
    <3> HIDE DEF m
    <3>2. u[i] = line[last + m]
      <4>1. Len(a) = first - 1 /\ Len(b) = Len(line) - last
        BY <1>3, <1>4
      <4>2. u[(first - 1) + m] = b[m]
        BY <1>5, <3>1, <4>1, Zenon
      <4> QED
        BY <1>4, <3>1, <4>2, Zenon
    <3>3. Place(i) = last + m
      BY <2>2, <3>1
    <3>4. last + m \in Nat /\ last + m <= Len(line)
      BY <1>2, <3>1
    <3> QED
      BY <3>2, <3>3, <3>4
  <2> QED
    BY <2>1, <2>2
<1> QED
  BY <1>5, <1>6, <1>7, Zenon DEF u, a, b, line

\* A line that lost a stretch is shorter, and its trailer can only be its last unit.
LEMMA ShortFacts ==
  ASSUME NEW n \in Nat, NEW frame \in Frames,
         NEW first \in DOMAIN Line(n, frame), NEW last \in DOMAIN Line(n, frame), first <= last
  PROVE  LET line == Line(n, frame)
             u == SubSeq(line, 1, first - 1) \o SubSeq(line, last + 1, Len(line))
         IN u \in Seq(Nat) /\ Len(u) < Len(line) /\ Ended(u, n)
<1> DEFINE line == Line(n, frame)
           u == SubSeq(line, 1, first - 1) \o SubSeq(line, last + 1, Len(line))
           lost == last + 1 - first
           Place(i) == IF i < first THEN i ELSE i + lost
<1>1. /\ line \in Seq(Nat) /\ line[Len(line)] = Trailer(n)
      /\ \A i \in 1 .. Len(line) - 1 : line[i] <= MaxField
  BY LineFacts
<1>2. /\ u \in Seq(Nat) /\ Len(u) = Len(line) - lost /\ Len(u) \in Nat
      /\ \A i \in 1 .. Len(u) : u[i] = line[Place(i)] /\ Place(i) \in Nat /\ Place(i) <= Len(line)
  BY ShortUnits
<1>3. DOMAIN u = 1 .. Len(u)
  BY <1>2, LenProperties
<1> HIDE DEF line, u
<1>4. first \in 1 .. Len(line) /\ last \in 1 .. Len(line) /\ Len(line) \in Nat /\ first <= last
  BY <1>1, LenProperties DEF line
<1>5. ASSUME NEW i \in 1 .. Len(u)
      PROVE  u[i] <= MaxField \/ (i = Len(u) /\ u[i] = Trailer(n))
  <2>1. u[i] = line[Place(i)]
    BY <1>2
  <2>2. Place(i) \in 1 .. Len(line) - 1 \/ (Place(i) = Len(line) /\ i = Len(u))
    BY <1>2, <1>4, SMTT(30)
  <2> HIDE DEF Place
  <2> QED
    BY <1>1, <2>1, <2>2
<1>6. Len(u) < Len(line)
  BY <1>2, <1>4
<1> QED
  BY <1>2, <1>3, <1>5, <1>6 DEF Ended, u, line

\* What arrived of a frame later than n makes no frame n that was not there.
LEMMA OldStaysHurt ==
  ASSUME IInv, NEW units \in Seq(Nat), Ended(units, Len(sent) + 1), NEW frame \in Frames,
         sent' = Append(sent, frame), arrived' = arrived \o units,
         NEW n \in Numbers, ~Carried(sent, arrived, n)
  PROVE  ~Carried(sent', arrived', n)
<1> SUFFICES ASSUME Carried(sent', arrived', n) PROVE FALSE
  OBVIOUS
<1> DEFINE line == Line(n, sent[n])
           len == Len(line)
           m == Len(arrived)
<1>1. Len(sent) \in Nat /\ n \in Nat /\ n >= 1 /\ n <= Len(sent) /\ DOMAIN sent = 1 .. Len(sent)
      /\ n \in DOMAIN sent /\ sent[n] \in Frames
  BY LenProperties, ElementOfSeq DEF IInv, Numbers
<1>2. sent'[n] = sent[n]
  BY <1>1, AppendProperties DEF IInv
<1>3. /\ line \in Seq(Nat) /\ len = 6 + Len(sent[n].payload) /\ Len(sent[n].payload) \in Nat
      /\ line[len] = MaxField + n /\ MaxField \in Nat /\ len \in Nat
  BY <1>1, LineFacts, LenProperties
<1>4. /\ m \in Nat /\ Len(units) \in Nat /\ Len(arrived') = m + Len(units)
      /\ (\A i \in 1 .. m : arrived'[i] = arrived[i])
      /\ \A i \in 1 .. Len(units) : arrived'[m + i] = units[i]
  BY ConcatFacts DEF IInv
<1> HIDE DEF line
<1>5. PICK k \in Nat : k + len <= Len(arrived') /\ \A i \in 1 .. len : arrived'[k + i] = line[i]
  BY <1>2 DEF Carried, Contains, line
<1>6. len \in 1 .. len
  <2>1. len >= 1
    BY <1>3
  <2> QED
    BY <1>3, <2>1
<1>7. arrived'[k + len] = MaxField + n
  BY <1>3, <1>5, <1>6
<1> HIDE DEF len, m
<1>8. CASE k + len <= m
  <2>1. \A i \in 1 .. len : arrived[k + i] = line[i]
    <3>1. \A i \in 1 .. len : k + i \in 1 .. m
      BY <1>3, <1>4, <1>8
    <3> QED
      BY <1>4, <1>5, <3>1
  <2>2. Contains(arrived, line)
    BY <1>5, <1>8, <2>1 DEF Contains, len, m
  <2> QED
    BY <1>1, <2>2 DEF Carried, line
<1>9. CASE k + len > m
  <2> DEFINE i == k + len - m
  <2>1. i \in 1 .. Len(units) /\ m + i = k + len
    BY <1>3, <1>4, <1>5, <1>9, SMTT(30)
  <2> HIDE DEF i
  <2>2. units[i] = MaxField + n
    BY <1>4, <1>7, <2>1
  <2>3. i \in DOMAIN units
    BY <2>1, LenProperties
  <2>4. units[i] <= MaxField \/ (i = Len(units) /\ units[i] = Trailer(Len(sent) + 1))
    BY <2>3 DEF Ended
  <2> QED
    BY <1>1, <1>3, <2>2, <2>4 DEF Trailer
<1> QED
  BY <1>3, <1>4, <1>5, <1>8, <1>9

\* A hurt line does not carry its frame, if the stream before it ended with one.
LEMMA NewIsHurt ==
  ASSUME IInv, NEW units \in Seq(Nat), Ended(units, Len(sent) + 1), NEW frame \in Frames,
         sent' = Append(sent, frame), arrived' = arrived \o units,
         arrived # <<>> => arrived[Len(arrived)] > MaxField,
         \/ Len(units) < Len(Line(Len(sent) + 1, frame))
         \/ Len(units) = Len(Line(Len(sent) + 1, frame)) /\ units # Line(Len(sent) + 1, frame)
  PROVE  ~Carried(sent', arrived', Len(sent) + 1)
<1> SUFFICES ASSUME Carried(sent', arrived', Len(sent) + 1) PROVE FALSE
  OBVIOUS
<1> DEFINE n == Len(sent) + 1
           line == Line(n, frame)
           len == Len(line)
           m == Len(arrived)
<1>1. Len(sent) \in Nat /\ n \in Nat /\ n = Len(sent) + 1
  BY LenProperties DEF IInv
<1>2. sent'[n] = frame
  BY <1>1, AppendProperties DEF IInv
<1>3. /\ line \in Seq(Nat) /\ line[len] = MaxField + n /\ MaxField \in Nat
      /\ \A i \in 1 .. len - 1 : line[i] <= MaxField
  BY <1>1, LineFacts DEF Trailer
<1>4. /\ m \in Nat /\ Len(units) \in Nat /\ Len(arrived') = m + Len(units)
      /\ (\A i \in 1 .. m : arrived'[i] = arrived[i])
      /\ \A i \in 1 .. Len(units) : arrived'[m + i] = units[i]
  BY ConcatFacts DEF IInv
<1> HIDE DEF line, n
<1>5. PICK k \in Nat : k + len <= Len(arrived') /\ \A i \in 1 .. len : arrived'[k + i] = line[i]
  BY <1>2 DEF Carried, Contains, line, n
<1>6. len \in Nat /\ len \in 1 .. len
  <2>1. len \in Nat
    BY <1>3, LenProperties
  <2>2. Len(frame.payload) \in Nat /\ len = 6 + Len(frame.payload)
    BY <1>1, LineFacts DEF line
  <2> QED
    BY <2>1, <2>2
<1>7. arrived'[k + len] = MaxField + n
  BY <1>3, <1>5, <1>6
<1>8. len > Len(units) \/ (len = Len(units) /\ units # line)
  BY <1>4, <1>6 DEF line, n
<1> HIDE DEF len, m
<1>9. k + len > m
  <2> SUFFICES ASSUME ~(k + len > m) PROVE FALSE
    OBVIOUS
  <2>1. k + len \in 1 .. m
    BY <1>4, <1>5, <1>6
  <2>2. arrived[k + len] = MaxField + n
    BY <1>4, <1>7, <2>1
  <2>3. k + len \in DOMAIN arrived
    BY <2>1, LenProperties DEF IInv, m
  <2>4. arrived[k + len] <= MaxField + Len(sent)
    BY <2>3 DEF IInv, StreamInv
  <2> QED
    BY <1>1, <1>3, <2>2, <2>4
<1>10. k + len = m + Len(units) /\ Len(units) # 0
  <2> DEFINE i == k + len - m
  <2>1. i \in 1 .. Len(units) /\ m + i = k + len
    BY <1>4, <1>5, <1>6, <1>9
  <2> HIDE DEF i
  <2>2. units[i] = MaxField + n
    BY <1>4, <1>7, <2>1
  <2>3. i \in DOMAIN units
    BY <2>1, LenProperties
  <2>4. units[i] <= MaxField \/ (i = Len(units) /\ units[i] = Trailer(n))
    BY <2>3 DEF Ended, n
  <2>5. i = Len(units)
    BY <1>1, <1>3, <2>2, <2>4
  <2> QED
    BY <1>4, <2>1, <2>5
<1>11. CASE len = Len(units) /\ units # line
  <2>1. k = m
    BY <1>4, <1>6, <1>10, <1>11
  <2>2. ASSUME NEW i \in 1 .. Len(units) PROVE units[i] = line[i]
    BY <1>4, <1>5, <1>11, <2>1
  <2>3. units = line
    BY <1>3, <1>11, <2>2, SeqEqual DEF len
  <2> QED
    BY <1>11, <2>3
<1>12. CASE len > Len(units)
  <2> DEFINE i == m - k
  <2>1. i \in 1 .. len - 1 /\ i \in 1 .. len /\ k + i = m /\ m \in 1 .. m /\ m # 0
    BY <1>4, <1>6, <1>10, <1>12
  <2> HIDE DEF i
  <2>2. arrived[m] = line[i]
    BY <1>4, <1>5, <2>1
  <2>3. line[i] <= MaxField
    BY <1>3, <2>1
  <2>4. arrived # <<>>
    <3>1. Len(<<>>) = 0
      OBVIOUS
    <3> QED
      BY <2>1, <3>1 DEF m
  <2>5. arrived[m] > MaxField /\ arrived[m] \in Nat
    <3>1. arrived[m] > MaxField
      BY <2>4 DEF m
    <3>2. arrived[m] \in Nat
      BY <2>1, ElementOfSeq DEF IInv, m
    <3> QED
      BY <3>1, <3>2
  <2> QED
    BY <1>3, <2>2, <2>3, <2>5
<1> QED
  BY <1>8, <1>11, <1>12

\* A whole line keeps the invariant.
LEMMA WholeKeeps ==
  ASSUME IInv, NEW frame \in Frames, ReceiveWhole(frame)
  PROVE  IInv' /\ (HurtInv => HurtInv')
<1> DEFINE n == Len(sent) + 1
           line == Line(n, frame)
<1>1. n \in Nat /\ Len(sent) \in Nat /\ Numbers \subseteq 1 .. n
  BY NextNumber
<1>2. /\ line \in Seq(Nat) /\ MaxField \in Nat /\ line[Len(line)] = Trailer(n)
      /\ Trailer(n) = MaxField + n
      /\ \A i \in 1 .. Len(line) - 1 : line[i] <= MaxField
  BY <1>1, LineFacts
<1>3. Len(line) \in Nat /\ DOMAIN line = 1 .. Len(line) /\ Len(line) # 0
  <2>1. Len(line) \in Nat /\ DOMAIN line = 1 .. Len(line)
    BY <1>2, LenProperties
  <2>2. Len(frame.payload) \in Nat /\ Len(line) = 6 + Len(frame.payload)
    BY <1>1, LineFacts
  <2> HIDE DEF line
  <2> QED
    BY <2>1, <2>2
<1> HIDE DEF line
<1>4. Ended(line, n)
  <2>1. \A i \in 1 .. Len(line) : i \in 1 .. Len(line) - 1 \/ i = Len(line)
    <3> DEFINE len == Len(line)
    <3>1. len \in Nat
      BY <1>3
    <3> HIDE DEF len
    <3>2. \A i \in 1 .. len : i \in 1 .. len - 1 \/ i = len
      BY <3>1
    <3> QED
      BY <3>2 DEF len
  <2> QED
    BY <1>2, <1>3, <2>1 DEF Ended
<1>5. Receive(frame, line) /\ hurt' = hurt /\ faults' = faults
  BY DEF ReceiveWhole, line
<1>6. /\ sent' \in Seq(Frames) /\ Len(sent') = n /\ arrived' \in Seq(Nat)
      /\ StreamInv' /\ Follows(sent', rx', arrived', {})
  BY <1>2, <1>4, <1>5, ReceiveKeeps
<1>7. IInv'
  BY <1>1, <1>5, <1>6 DEF IInv, Numbers
<1>8. ASSUME HurtInv PROVE HurtInv'
  <2>1. sent' = Append(sent, frame) /\ arrived' = arrived \o line
    BY <1>5 DEF Receive
  <2>2. \A k \in hurt : ~Carried(sent', arrived', k)
    BY <1>2, <1>4, <1>8, <2>1, OldStaysHurt DEF HurtInv, IInv
  <2>3. arrived'[Len(arrived')] > MaxField
    <3>1. /\ Len(arrived') = Len(arrived) + Len(line) /\ Len(arrived) \in Nat
          /\ \A i \in 1 .. Len(line) : arrived'[Len(arrived) + i] = line[i]
      <4>1. arrived \in Seq(Nat) /\ line \in Seq(Nat)
        BY <1>2 DEF IInv
      <4>2. /\ Len(arrived \o line) = Len(arrived) + Len(line) /\ Len(arrived) \in Nat
            /\ \A i \in 1 .. Len(line) : (arrived \o line)[Len(arrived) + i] = line[i]
        BY <4>1, ConcatFacts
      <4> QED
        BY <2>1, <4>2
    <3>2. Len(line) \in 1 .. Len(line)
      BY <1>3
    <3>3. arrived'[Len(arrived')] = Trailer(n)
      BY <1>2, <3>1, <3>2
    <3> QED
      BY <1>1, <1>2, <3>3
  <2> QED
    BY <1>5, <1>8, <2>2, <2>3 DEF HurtInv
<1> QED
  BY <1>7, <1>8

\* So does a line that was hurt, before which no other was.
LEMMA HurtKeeps ==
  ASSUME IInv, NEW frame \in Frames, NEW units \in Seq(Nat), Ended(units, Len(sent) + 1),
         \/ Len(units) < Len(Line(Len(sent) + 1, frame))
         \/ Len(units) = Len(Line(Len(sent) + 1, frame)) /\ units # Line(Len(sent) + 1, frame),
         Receive(frame, units), Hurt
  PROVE  IInv' /\ (HurtInv /\ MaxFaults <= 1 => HurtInv')
<1>1. Len(sent) \in Nat /\ Len(sent) + 1 \in Nat /\ Len(sent) + 1 \in 1 .. Len(sent) + 1
      /\ Numbers \subseteq 1 .. Len(sent) + 1
  BY NextNumber
<1>2. /\ sent' \in Seq(Frames) /\ Len(sent') = Len(sent) + 1 /\ arrived' \in Seq(Nat)
      /\ StreamInv' /\ Follows(sent', rx', arrived', {})
  BY ReceiveKeeps
<1>3. /\ faults < MaxFaults /\ faults' = faults + 1 /\ hurt' = hurt \cup {Len(sent) + 1}
      /\ faults \in Nat /\ MaxFaults \in Nat
  BY BoundsAssumption DEF Hurt, IInv, BoundsAssumption
<1>4. hurt' \subseteq Numbers'
  BY <1>1, <1>2, <1>3 DEF IInv, Numbers
<1>5. faults' \in 0 .. MaxFaults
  BY <1>3
<1>6. IInv'
  BY <1>2, <1>4, <1>5 DEF IInv
<1>7. ASSUME HurtInv, MaxFaults <= 1 PROVE HurtInv'
  <2>1. sent' = Append(sent, frame) /\ arrived' = arrived \o units
    BY DEF Receive
  <2>2. faults = 0 /\ faults' # 0
    BY <1>3, <1>7
  <2>3. ~Carried(sent', arrived', Len(sent) + 1)
    BY <1>7, <2>1, <2>2, NewIsHurt DEF HurtInv
  <2>4. hurt' = {Len(sent) + 1}
    BY <1>3, <1>7, <2>2 DEF HurtInv
  <2> QED
    BY <2>2, <2>3, <2>4 DEF HurtInv
<1> QED
  BY <1>6, <1>7

\* Every step keeps the invariant.
LEMMA NextKeeps ==
  ASSUME IInv, [Next]_vars
  PROVE  IInv' /\ (HurtInv /\ MaxFaults <= 1 => HurtInv')
<1>1. CASE UNCHANGED vars
  <2>1. sent' = sent /\ arrived' = arrived /\ hurt' = hurt /\ faults' = faults /\ rx' = rx
    BY <1>1 DEF vars
  <2>2. IInv'
    BY <2>1 DEF IInv, StreamInv, Numbers
  <2>3. HurtInv => HurtInv'
    BY <2>1 DEF HurtInv
  <2> QED
    BY <2>2, <2>3
<1>2. CASE Next
  <2>1. PICK frame \in Frames :
          ReceiveWhole(frame) \/ ReceiveDamaged(frame) \/ ReceiveShort(frame)
    BY <1>2 DEF Next
  <2> DEFINE n == Len(sent) + 1
             line == Line(n, frame)
  <2>2. n \in Nat
    BY NextNumber
  <2>3. CASE ReceiveWhole(frame)
    BY <2>3, WholeKeeps
  <2>4. CASE ReceiveDamaged(frame)
    <3>1. PICK d \in DOMAIN line, unit \in Noise :
            /\ unit # line[d]
            /\ Receive(frame, [line EXCEPT ![d] = unit])
            /\ Hurt
      BY <2>4 DEF ReceiveDamaged
    <3> DEFINE u == [line EXCEPT ![d] = unit]
    <3>2. u \in Seq(Nat) /\ Len(u) = Len(line) /\ Ended(u, n) /\ u # line
      BY <2>2, <3>1, DamagedFacts
    <3>3. Receive(frame, u)
      BY <3>1
    <3> HIDE DEF u
    <3> QED
      BY <3>1, <3>2, <3>3, HurtKeeps
  <2>5. CASE ReceiveShort(frame)
    <3>1. PICK first \in DOMAIN line, last \in DOMAIN line :
            /\ first <= last
            /\ Receive(frame, SubSeq(line, 1, first - 1) \o SubSeq(line, last + 1, Len(line)))
            /\ Hurt
      BY <2>5 DEF ReceiveShort
    <3> DEFINE u == SubSeq(line, 1, first - 1) \o SubSeq(line, last + 1, Len(line))
    <3>2. u \in Seq(Nat) /\ Len(u) < Len(line) /\ Ended(u, n)
      BY <2>2, <3>1, ShortFacts
    <3>3. Receive(frame, u)
      BY <3>1
    <3> HIDE DEF u
    <3> QED
      BY <3>1, <3>2, <3>3, HurtKeeps
  <2> QED
    BY <2>1, <2>3, <2>4, <2>5
<1> QED
  BY <1>1, <1>2

\* The line is empty at first, and the parser waits for a frame.
LEMMA InitKeeps == Init => IInv /\ HurtInv
<1> SUFFICES ASSUME Init PROVE IInv /\ HurtInv
  OBVIOUS
<1>1. /\ sent = <<>> /\ arrived = <<>> /\ hurt = {} /\ faults = 0
      /\ rx = [state |-> "sync0", units |-> <<>>, last |-> <<>>, gaps |-> 0,
               accepted |-> <<>>, published |-> <<>>]
  BY DEF Init
<1>2. /\ <<>> \in Seq(Nat) /\ <<>> \in Seq(Frames) /\ Len(<<>>) = 0
  BY EmptySeq
<1>3. /\ rx \in Parser /\ rx.state = "sync0" /\ rx.units = <<>> /\ rx.last = <<>> /\ rx.gaps = 0
      /\ rx.accepted = <<>> /\ rx.published = <<>>
  BY <1>1, <1>2 DEF Parser
<1>4. DOMAIN <<>> = {} /\ DOMAIN arrived = {} /\ Members(<<>>) = {}
  BY <1>1 DEF Members
<1>5. Candidate(rx) = <<>>
  BY <1>3 DEF Candidate
<1>6. Shape(rx)
  <2>1. MaxPayload \in Nat
    BY SizesAssumption DEF SizesAssumption
  <2> QED
    BY <1>2, <1>3, <2>1 DEF Shape, HeaderUnits
<1>7. rx.gaps = Cardinality(Holes(rx.accepted))
  <2>1. Holes(<<>>) = {}
    BY <1>2 DEF Holes
  <2> QED
    BY <1>3, <2>1, FS_EmptySet
<1>8. Sound(sent, rx)
  BY <1>3, <1>4, <1>6, <1>7, Zenon DEF Sound, Ascending
<1>9. Follows(sent, rx, arrived, {})
  <2>1. Suffix(Candidate(rx), arrived)
    BY <1>1, <1>2, <1>5, SuffixSelf
  <2>2. \A u \in Nat : Later(rx, u)
    BY <1>3, <1>4 DEF Later
  <2> QED
    BY <1>3, <1>4, <1>8, <2>1, <2>2 DEF Follows
<1>10. faults \in 0 .. MaxFaults
  BY <1>1, BoundsAssumption DEF BoundsAssumption
<1> QED
  BY <1>1, <1>2, <1>4, <1>9, <1>10 DEF IInv, HurtInv, StreamInv

-----------------------------------------------------------------------------
(* What the parser must find                                               *)

\* the unit completes a header or a frame that is rejected
Rejects(p, unit) ==
  LET units == Append(p.units, unit)
  IN /\ p.state = "frame" /\ Len(units) >= HeaderUnits
     /\ ~LengthOk(units[1]) \/ (Len(units) >= HeaderUnits + units[1] + 1 /\ ~CrcOk(units))

\* a unit that is neither rejected nor completes a frame
Advances(p, q, unit) ==
  \/ p.state = "sync0" /\ unit # Sync0 /\ q.state = "sync0" /\ q.units = <<>>
  \/ p.state # "frame" /\ unit = Sync0 /\ q.state = "sync1" /\ q.units = <<>>
  \/ p.state = "sync1" /\ unit = Sync1 /\ q.state = "frame" /\ q.units = <<>>
  \/ p.state = "sync1" /\ unit \notin {Sync0, Sync1} /\ q.state = "sync0" /\ q.units = <<>>
  \/ /\ p.state = "frame" /\ q = [p EXCEPT !.units = Append(p.units, unit)]
     /\ q.state = "frame" /\ q.units = Append(p.units, unit)

\* A parser fed with units is where each of them leads.
LEMMA FeedingInduction ==
  ASSUME NEW again, NEW p, NEW units \in Seq(Nat), NEW f, Fed(again, p, units, f),
         NEW G, p \in G[0],
         \A i \in 1 .. Len(units) : \A q \in G[i - 1] : Stepped(again, q, units[i]) \in G[i]
  PROVE  \A i \in 0 .. Len(units) : f[i] \in G[i]
<1> DEFINE n == Len(units)
           Wrong == {i \in 0 .. n : f[i] \notin G[i]}
<1>1. n \in Nat
  BY LenProperties
<1>2. \A i \in 0 .. n : f[i] = IF i = 0 THEN p ELSE Stepped(again, f[i - 1], units[i])
  <2>1. f = [i \in 0 .. n |-> IF i = 0 THEN p ELSE Stepped(again, f[i - 1], units[i])]
    BY DEF Fed
  <2> HIDE DEF n
  <2> QED
    BY <2>1, Zenon
<1>3. \A i \in 1 .. n : \A q \in G[i - 1] : Stepped(again, q, units[i]) \in G[i]
  OBVIOUS
<1> HIDE DEF n
<1>4. SUFFICES ASSUME Wrong # {} PROVE FALSE
  BY DEF n
<1>5. PICK i \in Wrong : \A m \in Wrong : i <= m
  <2>1. Wrong \in SUBSET Nat
    BY <1>1
  <2> HIDE DEF Wrong
  <2> QED
    BY <1>4, <2>1, LeastNumber
<1>6. i \in 0 .. n /\ f[i] \notin G[i]
  BY <1>5
<1>7. CASE i = 0
  <2>1. f[0] = p
    BY <1>2, <1>6, <1>7
  <2> QED
    BY <1>6, <1>7, <2>1
<1>8. CASE i # 0
  <2>1. i \in 1 .. n /\ i - 1 \in 0 .. n /\ ~(i <= i - 1)
    BY <1>1, <1>6, <1>8
  <2>2. f[i - 1] \in G[i - 1]
    BY <1>5, <2>1
  <2>3. f[i] = Stepped(again, f[i - 1], units[i])
    BY <1>2, <1>6, <1>8
  <2> QED
    BY <1>3, <1>6, <2>1, <2>2, <2>3
<1> QED
  BY <1>7, <1>8

\* What a unit does, by what the parser is waiting for.
LEMMA OutcomeCases ==
  ASSUME sent' \in Seq(Frames), NEW p \in Parser, Shape(p), NEW unit \in Nat, NEW rejected
  PROVE  LET q == Outcome(p, unit, rejected)
         IN \/ /\ Advances(p, q, unit) /\ ~Rejects(p, unit)
               /\ q \in Parser /\ Shape(q) /\ q.accepted = p.accepted
            \/ /\ Accepting(p, q, unit) /\ ~Rejects(p, unit)
               /\ q \in Parser /\ Shape(q) /\ q.state = "sync0" /\ q.units = <<>>
               /\ unit - MaxField \in Nat /\ q.accepted = Append(p.accepted, unit - MaxField)
            \/ Rejects(p, unit) /\ q = rejected
<1> DEFINE q == Outcome(p, unit, rejected)
           units == Append(p.units, unit)
<1>1. /\ p.state \in {"sync0", "sync1", "frame"} /\ p.units \in Seq(Nat)
      /\ MaxPayload \in Nat /\ HeaderUnits = 3 /\ Sync0 # Sync1
  BY SizesAssumption, SyncAssumption DEF Parser, SizesAssumption, SyncAssumption, HeaderUnits
<1>2. \/ Moved(p, q, unit) \/ Accepting(p, q, unit)
      \/ p.state = "frame" /\ q = rejected
  BY ConsumeCases
<1>3. units \in Seq(Nat) /\ Len(units) = Len(p.units) + 1 /\ Len(p.units) \in Nat
      /\ units[1] \in Nat /\ units[Len(units)] = unit
  <2>1. /\ units \in Seq(Nat) /\ Len(units) = Len(p.units) + 1 /\ Len(p.units) \in Nat
        /\ units[Len(p.units) + 1] = unit
        /\ \A i \in 1 .. Len(p.units) : units[i] = p.units[i] /\ p.units[i] \in Nat
    BY <1>1, AppendFacts
  <2> HIDE DEF units
  <2> QED
    BY <2>1
<1>7. Len(units) \in Nat /\ units[1] \in Nat /\ HeaderUnits \in Nat
  BY <1>1, <1>3
<1>4. CASE p.state = "sync0"
  <2>1. p.units = <<>> /\ ~Rejects(p, unit)
    BY <1>4 DEF Shape, Rejects
  <2>2. q = IF unit = Sync0 THEN [p EXCEPT !.state = "sync1"] ELSE p
    BY <1>4 DEF Outcome
  <2> HIDE DEF q
  <2>3. /\ q \in Parser /\ q.units = <<>> /\ q.accepted = p.accepted
        /\ q.state = IF unit = Sync0 THEN "sync1" ELSE "sync0"
    BY <1>4, <2>1, <2>2 DEF Parser
  <2>4. Shape(q)
    BY <2>1, <2>3 DEF Shape
  <2> QED
    BY <1>4, <2>1, <2>3, <2>4 DEF Advances, q
<1>5. CASE p.state = "sync1"
  <2>1. p.units = <<>> /\ ~Rejects(p, unit)
    BY <1>5 DEF Shape, Rejects
  <2>2. q = IF unit = Sync1 THEN [p EXCEPT !.state = "frame"]
            ELSE IF unit = Sync0 THEN p ELSE Scanning(p)
    BY <1>5 DEF Outcome
  <2> HIDE DEF q
  <2>3. /\ q \in Parser /\ q.units = <<>> /\ q.accepted = p.accepted
        /\ q.state = IF unit = Sync1 THEN "frame" ELSE IF unit = Sync0 THEN "sync1" ELSE "sync0"
    <3>1. CASE unit = Sync1
      BY <2>1, <2>2, <3>1 DEF Parser
    <3>2. CASE unit # Sync1 /\ unit = Sync0
      BY <1>5, <2>1, <2>2, <3>2
    <3>3. CASE unit # Sync1 /\ unit # Sync0
      BY <2>2, <3>3, ScanningFacts
    <3> QED
      BY <3>1, <3>2, <3>3
  <2>4. Shape(q)
    BY <2>1, <2>3 DEF Shape
  <2> QED
    BY <1>1, <1>5, <2>1, <2>3, <2>4 DEF Advances, q
<1>6. CASE p.state = "frame"
  <2>2. q = IF Len(units) < HeaderUnits THEN [p EXCEPT !.units = units]
            ELSE IF ~LengthOk(units[1]) THEN rejected
            ELSE IF Len(units) < HeaderUnits + units[1] + 1 THEN [p EXCEPT !.units = units]
            ELSE IF CrcOk(units) THEN Scanning(Accept(p, units, unit - MaxField))
            ELSE rejected
    BY <1>6 DEF Outcome
  <2> HIDE DEF q
  <2>3. CASE Rejects(p, unit)
    <3>1. /\ Len(units) >= HeaderUnits
          /\ ~LengthOk(units[1]) \/ (Len(units) >= HeaderUnits + units[1] + 1 /\ ~CrcOk(units))
      BY <2>3 DEF Rejects
    <3> HIDE DEF units
    <3>2. q = rejected
      <4>1. /\ ~(Len(units) < HeaderUnits)
            /\ LengthOk(units[1]) => ~(Len(units) < HeaderUnits + units[1] + 1) /\ ~CrcOk(units)
        BY <1>7, <3>1
      <4> QED
        BY <2>2, <4>1, Zenon
    <3> QED
      BY <2>3, <3>2 DEF q
  <2>4. CASE /\ ~Rejects(p, unit)
             /\ Len(units) >= HeaderUnits /\ Len(units) >= HeaderUnits + units[1] + 1
    <3>1. LengthOk(units[1]) /\ CrcOk(units)
      BY <1>6, <2>4 DEF Rejects
    <3>2. q = Scanning(Accept(p, units, unit - MaxField))
      <4> HIDE DEF units
      <4>1. ~(Len(units) < HeaderUnits) /\ ~(Len(units) < HeaderUnits + units[1] + 1)
        BY <1>7, <2>4
      <4> QED
        BY <2>2, <3>1, <4>1, Zenon
    <3>3. unit - MaxField \in Nat
      <4>1. unit - MaxField \in DOMAIN sent'
        BY <1>3, <3>1 DEF CrcOk, Covered
      <4> QED
        BY <4>1, LinesAreUnits
    <3>4. Len(p.units) >= HeaderUnits /\ units[3] \in Nat
      <4>1. units[1] # 0
        BY <3>1 DEF LengthOk
      <4> HIDE DEF units
      <4>2. 3 \in 1 .. Len(units)
        BY <1>1, <1>3, <2>4
      <4>3. units[3] \in Nat
        BY <1>3, <4>2, ElementOfSeq
      <4> QED
        BY <1>1, <1>3, <2>4, <4>1, <4>3
    <3>5. Accepting(p, q, unit)
      BY <1>6, <3>1, <3>2, <3>4 DEF Accepting
    <3> HIDE DEF units
    <3>6. q \in Parser /\ Shape(q) /\ q.units = <<>> /\ q.accepted = Append(p.accepted, unit - MaxField)
      BY <1>3, <3>2, <3>3, <3>4, AcceptFacts
    <3>7. q.state = "sync0"
      BY <3>2 DEF Scanning
    <3> QED
      BY <2>4, <3>3, <3>5, <3>6, <3>7 DEF q
  <2>5. CASE /\ ~Rejects(p, unit)
             /\ ~(Len(units) >= HeaderUnits /\ Len(units) >= HeaderUnits + units[1] + 1)
    <3>1. Len(units) >= HeaderUnits => LengthOk(units[1])
      BY <1>6, <2>5 DEF Rejects
    <3> HIDE DEF units
    <3>2. q = [p EXCEPT !.units = units]
      <4>1. Len(units) < HeaderUnits \/ Len(units) < HeaderUnits + units[1] + 1
        BY <1>7, <2>5
      <4>2. ~(Len(units) < HeaderUnits) => LengthOk(units[1])
        BY <1>1, <1>3, <3>1
      <4> QED
        BY <2>2, <4>1, <4>2, Zenon
    <3>3. q \in Parser /\ q.state = "frame" /\ q.units = units /\ q.accepted = p.accepted
      BY <1>3, <1>6, <3>2 DEF Parser
    <3>4. Len(units) < HeaderUnits + MaxPayload + 1
      <4>1. CASE Len(units) < HeaderUnits
        BY <1>1, <1>3, <4>1
      <4>2. CASE Len(units) >= HeaderUnits
        <5>1. units[1] <= MaxPayload
          BY <3>1, <4>2 DEF LengthOk
        <5> QED
          BY <1>1, <1>3, <2>5, <4>2, <5>1, SMTT(30)
      <4> QED
        BY <1>1, <1>3, <4>1, <4>2
    <3>5. Shape(q)
      <4>1. Len(units) >= HeaderUnits => Len(units) < HeaderUnits + units[1] + 1
        BY <1>7, <2>5
      <4> QED
        BY <3>1, <3>3, <3>4, <4>1 DEF Shape
    <3>6. Advances(p, q, unit)
      BY <1>6, <3>2, <3>3 DEF Advances, units
    <3> QED
      BY <2>5, <3>3, <3>5, <3>6 DEF q
  <2> QED
    BY <2>3, <2>4, <2>5
<1> QED
  BY <1>1, <1>4, <1>5, <1>6

\* A unit scanned for the first time, or again, as an outcome.
LEMMA SteppedOutcome ==
  ASSUME NEW p, NEW unit
  PROVE  /\ ReplayByte(p, unit) = Outcome(p, unit, Scanning(p))
         /\ RxByte(p, unit) = Outcome(p, unit, Replay(p, Append(p.units, unit)))
BY DEF ReplayByte, RxByte, Consume, Drop, Outcome

\* One more unit of a replay, and none.
LEMMA ReplayMore ==
  ASSUME NEW p, NEW units \in Seq(Nat), NEW unit \in Nat
  PROVE  /\ Replay(p, <<>>) = Scanning(p)
         /\ Replay(p, Append(units, unit)) = ReplayByte(Replay(p, units), unit)
<1>1. <<>> \in Seq(Nat) /\ Len(<<>>) = 0
  BY EmptySeq
<1>2. Replay(p, <<>>) = Scanning(p)
  <2>1. PICK f : Fed(TRUE, Scanning(p), <<>>, f) /\ Replay(p, <<>>) = f[Len(<<>>)]
    BY <1>1, ReplayIsFed
  <2>2. f[0] = Scanning(p)
    <3>1. f = [i \in 0 .. 0 |-> IF i = 0 THEN Scanning(p)
                                ELSE Stepped(TRUE, f[i - 1], <<>>[i])]
      BY <1>1, <2>1 DEF Fed
    <3>2. 0 \in 0 .. 0
      OBVIOUS
    <3>3. f[0] = IF 0 = 0 THEN Scanning(p) ELSE Stepped(TRUE, f[0 - 1], <<>>[0])
      BY <3>1, <3>2, Zenon
    <3> QED
      BY <3>3
  <2> QED
    BY <1>1, <2>1, <2>2
<1> DEFINE more == Append(units, unit)
           n == Len(units)
<1>3. /\ more \in Seq(Nat) /\ Len(more) = n + 1 /\ n \in Nat /\ more[n + 1] = unit
      /\ \A i \in 1 .. n : more[i] = units[i]
  BY AppendFacts
<1>4. PICK f : Fed(TRUE, Scanning(p), units, f) /\ Replay(p, units) = f[n]
  BY ReplayIsFed
<1> HIDE DEF more
<1>5. PICK g : Fed(TRUE, Scanning(p), more, g) /\ Replay(p, more) = g[n + 1]
  BY <1>3, ReplayIsFed
<1>6. \A i \in 0 .. n + 1 : g[i] = IF i = 0 THEN Scanning(p) ELSE Stepped(TRUE, g[i - 1], more[i])
  <2>1. g = [i \in 0 .. n + 1 |-> IF i = 0 THEN Scanning(p) ELSE Stepped(TRUE, g[i - 1], more[i])]
    BY <1>3, <1>5 DEF Fed
  <2> QED
    BY <2>1, Zenon
<1> DEFINE G == [i \in 0 .. n |-> {g[i]}]
<1>7. Scanning(p) \in G[0]
  <2>1. 0 \in 0 .. n /\ 0 \in 0 .. n + 1
    BY <1>3
  <2>2. g[0] = Scanning(p)
    BY <1>6, <2>1
  <2> QED
    BY <2>1, <2>2
<1>8. ASSUME NEW i \in 1 .. n, NEW q \in G[i - 1] PROVE Stepped(TRUE, q, units[i]) \in G[i]
  <2>1. i - 1 \in 0 .. n /\ i \in 0 .. n /\ i \in 0 .. n + 1 /\ i # 0
    BY <1>3
  <2>2. q = g[i - 1]
    BY <1>8, <2>1
  <2>3. g[i] = Stepped(TRUE, g[i - 1], more[i])
    BY <1>6, <2>1
  <2> QED
    BY <1>3, <2>1, <2>2, <2>3
<1> HIDE DEF G
<1>9. f[n] \in G[n]
  <2>1. \A i \in 0 .. n : f[i] \in G[i]
    BY <1>4, <1>7, <1>8, FeedingInduction
  <2> QED
    BY <1>3, <2>1
<1>10. f[n] = g[n]
  BY <1>3, <1>9 DEF G
<1>11. g[n + 1] = Stepped(TRUE, g[n], unit)
  <2>1. n + 1 \in 0 .. n + 1 /\ n + 1 # 0 /\ (n + 1) - 1 = n
    BY <1>3
  <2> QED
    BY <1>3, <1>6, <2>1
<1> QED
  BY <1>2, <1>4, <1>5, <1>10, <1>11 DEF Stepped, more

\* Frame n does not spell the sync word, nor would it if units were lost or its length damaged.
Free(n, frame) ==
  /\ frame.topic # Sync1
  /\ \A i, j \in DOMAIN Body(n, frame) :
       i < j => <<Body(n, frame)[i], Body(n, frame)[j]>> # <<Sync0, Sync1>>

\* a parser that met frame n at its first unit, after i of its units; it
\* accepted the frames of old
Aligned(n, frame, old, i, p) ==
  /\ p \in Parser /\ Shape(p) /\ old \subseteq Members(p.accepted)
  /\ i < 2 => p.state # "frame" /\ p.units = <<>> /\ (i = 1 => p.state = "sync1")
  /\ i >= 2 /\ i < Len(Line(n, frame)) =>
       /\ p.state = "frame" /\ Len(p.units) = i - 2
       /\ \A j \in 1 .. i - 2 : p.units[j] = Line(n, frame)[j + 2]
  /\ i = Len(Line(n, frame)) => p.state = "sync0" /\ p.units = <<>> /\ n \in Members(p.accepted)

\* What the units of a line are.
LEMMA LineUnits ==
  ASSUME NEW n \in Nat, n # 0, NEW frame \in Frames
  PROVE  LET line == Line(n, frame)
         IN /\ line \in Seq(Nat) /\ Len(line) = 6 + Len(frame.payload) /\ Len(frame.payload) \in Nat
            /\ line[1] = Sync0 /\ line[2] = Sync1 /\ line[3] = Len(frame.payload)
            /\ line[4] = frame.topic /\ Sync0 \in Nat /\ Sync1 \in Nat /\ Sync0 # Sync1
            /\ line[Len(line)] = Trailer(n) /\ Trailer(n) = MaxField + n
            /\ Sync0 <= MaxField /\ Sync1 <= MaxField /\ MaxField \in Nat /\ HeaderUnits = 3
            /\ \A i \in 1 .. Len(line) : line[i] \in Nat
            /\ \A i \in 1 .. Len(line) - 1 : line[i] <= MaxField
            /\ \A i \in 3 .. Len(line) - 1 :
                 i - 2 \in DOMAIN Body(n, frame) /\ line[i] = Body(n, frame)[i - 2]
<1> DEFINE line == Line(n, frame)
           body == Body(n, frame)
           sync == <<Sync0, Sync1>>
           front == sync \o body
           l == Len(frame.payload)
<1>1. /\ body \in Seq(Nat) /\ Len(body) = 3 + l /\ l \in Nat /\ body[1] = l
      /\ body[2] = frame.topic /\ MaxField \in Nat /\ HeaderUnits = 3 /\ Trailer(n) \in Nat
      /\ Trailer(n) = MaxField + n
      /\ line = Append(front, Trailer(n)) /\ line \in Seq(Nat) /\ Len(line) = 6 + l
      /\ line[Len(line)] = Trailer(n)
      /\ \A i \in 1 .. Len(line) - 1 : line[i] <= MaxField
  BY LineFacts, Zenon DEF HeaderUnits
<1>2. Sync0 \in 0 .. MaxField /\ Sync1 \in 0 .. MaxField /\ Sync0 # Sync1
  BY SyncAssumption DEF SyncAssumption
<1>3. sync \in Seq(Nat) /\ Len(sync) = 2 /\ sync[1] = Sync0 /\ sync[2] = Sync1
  BY <1>1, <1>2
<1> HIDE DEF body, sync, l
<1>4. /\ front \in Seq(Nat) /\ Len(front) = 5 + l /\ (\A i \in 1 .. 2 : front[i] = sync[i])
      /\ \A i \in 1 .. 3 + l : front[2 + i] = body[i]
  <2>1. /\ front \in Seq(Nat) /\ Len(front) = Len(sync) + Len(body)
        /\ (\A i \in 1 .. Len(sync) : front[i] = sync[i])
        /\ \A i \in 1 .. Len(body) : front[Len(sync) + i] = body[i]
    <3>1. ASSUME NEW s \in Seq(Nat), NEW t \in Seq(Nat)
          PROVE  /\ s \o t \in Seq(Nat) /\ Len(s \o t) = Len(s) + Len(t)
                 /\ (\A i \in 1 .. Len(s) : (s \o t)[i] = s[i])
                 /\ \A i \in 1 .. Len(t) : (s \o t)[Len(s) + i] = t[i]
      BY ConcatFacts
    <3>2. sync \in Seq(Nat) /\ body \in Seq(Nat)
      BY <1>1, <1>3
    <3> QED
      BY <3>1, <3>2, Zenon
  <2> HIDE DEF front
  <2> QED
    BY <1>1, <1>3, <2>1
<1> HIDE DEF front
<1>5. \A i \in 1 .. 5 + l : line[i] = front[i]
  <2>1. \A i \in 1 .. Len(front) : line[i] = front[i]
    BY <1>1, <1>4, AppendFacts
  <2> QED
    BY <1>4, <2>1
<1> HIDE DEF line
<1>6. line[1] = Sync0 /\ line[2] = Sync1
  <2>1. 1 \in 1 .. 2 /\ 2 \in 1 .. 2 /\ 1 \in 1 .. 5 + l /\ 2 \in 1 .. 5 + l
    BY <1>1
  <2> QED
    BY <1>3, <1>4, <1>5, <2>1
<1>7. ASSUME NEW i \in 3 .. Len(line) - 1
      PROVE  i - 2 \in DOMAIN body /\ line[i] = body[i - 2]
  <2>1. i - 2 \in 1 .. 3 + l /\ 2 + (i - 2) = i /\ i \in 1 .. 5 + l
    BY <1>1
  <2>2. DOMAIN body = 1 .. 3 + l
    BY <1>1, LenProperties
  <2> QED
    BY <1>4, <1>5, <2>1, <2>2
<1>8. line[3] = l /\ line[4] = frame.topic
  <2>1. 3 \in 3 .. Len(line) - 1 /\ 4 \in 3 .. Len(line) - 1 /\ 3 - 2 = 1 /\ 4 - 2 = 2
    BY <1>1
  <2> QED
    BY <1>1, <1>7, <2>1
<1>9. \A i \in 1 .. Len(line) : line[i] \in Nat
  BY <1>1, ElementOfSeq
<1>10. Sync0 \in Nat /\ Sync1 \in Nat /\ Sync0 <= MaxField /\ Sync1 <= MaxField
  BY <1>1, <1>2
<1> QED
  BY <1>1, <1>2, <1>6, <1>7, <1>8, <1>9, <1>10 DEF line, l, body

\* A parser that met an intact line at its first unit takes unit after unit and
\* accepts the frame with the last.
LEMMA LineStep ==
  ASSUME sent' \in Seq(Frames), NEW n \in DOMAIN sent', LengthOk(Len(sent'[n].payload)),
         NEW old, NEW p, NEW i \in Nat, i < Len(Line(n, sent'[n])),
         Aligned(n, sent'[n], old, i, p), NEW rejected
  PROVE  LET unit == Line(n, sent'[n])[i + 1]
         IN /\ ~Rejects(p, unit)
            /\ Aligned(n, sent'[n], old, i + 1, Outcome(p, unit, rejected))
<1> DEFINE frame == sent'[n]
           line == Line(n, frame)
           l == Len(frame.payload)
           unit == line[i + 1]
           q == Outcome(p, unit, rejected)
           units == Append(p.units, unit)
<1>1. n \in Nat /\ n # 0 /\ frame \in Frames
  BY LinesAreUnits
<1>2. /\ line \in Seq(Nat) /\ Len(line) = 6 + l /\ l \in Nat /\ line[1] = Sync0 /\ line[2] = Sync1
      /\ line[3] = l /\ Sync0 \in Nat /\ Sync1 \in Nat /\ Sync0 # Sync1
      /\ line[Len(line)] = Trailer(n) /\ Trailer(n) = MaxField + n /\ MaxField \in Nat
      /\ HeaderUnits = 3
      /\ \A k \in 1 .. Len(line) : line[k] \in Nat
      /\ \A k \in 1 .. Len(line) - 1 : line[k] <= MaxField
  BY <1>1, LineUnits, Zenon
<1>3. /\ p \in Parser /\ Shape(p) /\ old \subseteq Members(p.accepted) /\ p.units \in Seq(Nat)
      /\ p.accepted \in Seq(Nat)
  BY DEF Aligned, Parser
<1>4. LengthOk(l) /\ l # 0 /\ i < Len(line)
  BY DEF LengthOk
<1>5. Aligned(n, frame, old, i, p)
  OBVIOUS
<1> HIDE DEF frame, line
<1>6. i + 1 \in 1 .. Len(line) /\ unit \in Nat
  <2>1. i + 1 \in 1 .. Len(line)
    BY <1>2, <1>4
  <2> QED
    BY <1>2, <2>1
<1> HIDE DEF l, unit
<1>7. \/ /\ Advances(p, q, unit) /\ ~Rejects(p, unit)
         /\ q \in Parser /\ Shape(q) /\ q.accepted = p.accepted
      \/ /\ Accepting(p, q, unit) /\ ~Rejects(p, unit)
         /\ q \in Parser /\ Shape(q) /\ q.state = "sync0" /\ q.units = <<>>
         /\ unit - MaxField \in Nat /\ q.accepted = Append(p.accepted, unit - MaxField)
      \/ Rejects(p, unit) /\ q = rejected
  BY <1>3, <1>6, OutcomeCases, Zenon
<1>8. /\ units \in Seq(Nat) /\ Len(units) = Len(p.units) + 1 /\ Len(p.units) \in Nat
      /\ units[Len(p.units) + 1] = unit
      /\ \A k \in 1 .. Len(p.units) : units[k] = p.units[k]
  BY <1>3, <1>6, AppendFacts
<1> HIDE DEF q, units
<1>9. CASE i = 0 \/ i = 1
  <2>1. p.state # "frame" /\ p.units = <<>> /\ (i = 1 => p.state = "sync1")
    BY <1>5, <1>9 DEF Aligned
  <2>2. ~Rejects(p, unit) /\ ~Accepting(p, q, unit)
    BY <2>1 DEF Rejects, Accepting
  <2>3. Advances(p, q, unit) /\ q \in Parser /\ Shape(q) /\ q.accepted = p.accepted
    BY <1>7, <2>2
  <2>4. CASE i = 0
    <3>1. unit = Sync0
      BY <1>2, <2>4 DEF unit
    <3>2. q.state = "sync1" /\ q.units = <<>>
      BY <1>2, <2>1, <2>3, <3>1 DEF Advances
    <3>3. Aligned(n, frame, old, i + 1, q)
      <4>1. i + 1 = 1 /\ ~(i + 1 >= 2) /\ i + 1 # Len(line)
        BY <1>2, <2>4
      <4> QED
        BY <1>3, <2>3, <3>2, <4>1 DEF Aligned, line
    <3> QED
      BY <2>2, <3>3 DEF q, unit, line, frame
  <2>5. CASE i = 1
    <3>1. unit = Sync1
      BY <1>2, <2>5 DEF unit
    <3>2. q.state = "frame" /\ q.units = <<>>
      BY <1>2, <2>1, <2>3, <2>5, <3>1 DEF Advances
    <3>3. Aligned(n, frame, old, i + 1, q)
      <4>1. ~(i + 1 < 2) /\ i + 1 # Len(line) /\ (i + 1) - 2 = 0 /\ \A j \in 1 .. 0 : FALSE
        BY <1>2, <2>5
      <4>2. Len(q.units) = 0
        BY <3>2
      <4> QED
        BY <1>3, <2>3, <3>2, <4>1, <4>2 DEF Aligned, line
    <3> QED
      BY <2>2, <3>3 DEF q, unit, line, frame
  <2> QED
    BY <1>9, <2>4, <2>5
<1>10. CASE i >= 2
  <2>1. /\ p.state = "frame" /\ Len(p.units) = i - 2
        /\ \A j \in 1 .. i - 2 : p.units[j] = line[j + 2]
    BY <1>4, <1>5, <1>10 DEF Aligned, line
  <2>2. Len(units) = i - 1 /\ \A j \in 1 .. i - 1 : units[j] = line[j + 2]
    <3>1. Len(units) = i - 1
      BY <1>8, <1>10, <2>1
    <3>2. ASSUME NEW j \in 1 .. i - 1 PROVE units[j] = line[j + 2]
      <4>1. CASE j = i - 1
        <5>1. j = Len(p.units) + 1 /\ j + 2 = i + 1
          BY <1>10, <2>1, <4>1
        <5> QED
          BY <1>8, <5>1 DEF unit
      <4>2. CASE j # i - 1
        <5>1. j \in 1 .. i - 2 /\ j \in 1 .. Len(p.units)
          BY <1>10, <2>1, <4>2
        <5> QED
          BY <1>8, <2>1, <5>1
      <4> QED
        BY <4>1, <4>2
    <3> QED
      BY <3>1, <3>2
  <2>3. i # 2 => units[1] = l
    <3>1. 1 + 2 = 3 /\ (i # 2 => 1 \in 1 .. i - 1)
      BY <1>10
    <3> QED
      BY <1>2, <2>2, <3>1
  <2>4. Len(units) >= HeaderUnits => LengthOk(units[1]) /\ units[1] = l
    BY <1>2, <1>4, <2>2, <2>3
  <2>5. CASE i < 5 + l
    <3>1. i + 1 \in 1 .. Len(line) - 1 /\ i + 1 < Len(line)
      BY <1>2, <2>5
    <3>2. unit <= MaxField
      BY <1>2, <3>1 DEF unit
    <3>3. ~Accepting(p, q, unit)
      <4> SUFFICES ASSUME Accepting(p, q, unit) PROVE FALSE
        OBVIOUS
      <4>1. units[Len(units)] - MaxField \in DOMAIN sent'
        BY DEF Accepting, CrcOk, Covered, units
      <4>2. units[Len(units)] = unit
        BY <1>8
      <4>3. \A m \in DOMAIN sent' : m \in Nat /\ m # 0
        BY LinesAreUnits
      <4>4. unit - MaxField \in Nat /\ unit - MaxField # 0
        BY <4>1, <4>2, <4>3
      <4> QED
        BY <1>2, <1>6, <3>2, <4>4
    <3>4. ~Rejects(p, unit)
      <4>1. Len(units) >= HeaderUnits => ~(Len(units) >= HeaderUnits + units[1] + 1)
        <5>1. Len(units) = i - 1 /\ HeaderUnits = 3 /\ l \in Nat
          BY <1>2, <2>2
        <5> QED
          BY <2>4, <2>5, <5>1
      <4> QED
        BY <2>4, <4>1 DEF Rejects, units
    <3>5. Advances(p, q, unit) /\ q \in Parser /\ Shape(q) /\ q.accepted = p.accepted
      BY <1>7, <3>3, <3>4
    <3>6. q.state = "frame" /\ q.units = units
      BY <2>1, <3>5 DEF Advances, units
    <3>7. Aligned(n, frame, old, i + 1, q)
      <4>1. ~(i + 1 < 2) /\ i + 1 # Len(line) /\ (i + 1) - 2 = i - 1
        BY <1>10, <3>1
      <4> QED
        BY <1>3, <2>2, <3>5, <3>6, <4>1 DEF Aligned, line
    <3> QED
      BY <3>4, <3>7 DEF q, unit, line, frame
  <2>6. CASE i = 5 + l
    <3>1. i + 1 = Len(line) /\ unit = Trailer(n)
      BY <1>2, <2>6 DEF unit
    <3>2. units = Append(Body(n, frame), Trailer(n))
      <4>1. /\ Body(n, frame) \in Seq(Nat) /\ Len(Body(n, frame)) = 3 + l /\ Trailer(n) \in Nat
        BY <1>1, <1>2, LineFacts DEF l
      <4> DEFINE whole == Append(Body(n, frame), Trailer(n))
      <4>2. /\ whole \in Seq(Nat) /\ Len(whole) = 4 + l /\ whole[4 + l] = Trailer(n)
            /\ \A j \in 1 .. 3 + l : whole[j] = Body(n, frame)[j]
        <5>1. /\ whole \in Seq(Nat) /\ Len(whole) = Len(Body(n, frame)) + 1
              /\ whole[Len(Body(n, frame)) + 1] = Trailer(n)
              /\ \A j \in 1 .. Len(Body(n, frame)) : whole[j] = Body(n, frame)[j]
          BY <4>1, AppendFacts
        <5> HIDE DEF whole
        <5>2. Len(Body(n, frame)) + 1 = 4 + l
          BY <1>2, <4>1
        <5> QED
          BY <4>1, <5>1, <5>2
      <4> HIDE DEF whole
      <4>3. ASSUME NEW j \in 1 .. 4 + l PROVE units[j] = whole[j]
        <5>1. j \in 1 .. i - 1 /\ units[j] = line[j + 2]
          BY <1>2, <2>2, <2>6
        <5>2. CASE j = 4 + l
          <6>1. j + 2 = Len(line)
            BY <1>2, <5>2
          <6> QED
            BY <1>2, <4>2, <5>1, <5>2, <6>1
        <5>3. CASE j # 4 + l
          <6>1. j + 2 \in 3 .. Len(line) - 1 /\ (j + 2) - 2 = j /\ j \in 1 .. 3 + l
            BY <1>2, <5>3
          <6>2. line[j + 2] = Body(n, frame)[j]
            <7>1. \A k \in 3 .. Len(line) - 1 : line[k] = Body(n, frame)[k - 2]
              BY <1>1, LineUnits DEF line
            <7> QED
              BY <6>1, <7>1
          <6> QED
            BY <4>2, <5>1, <6>1, <6>2
        <5> QED
          BY <5>2, <5>3
      <4>4. Len(units) = 4 + l
        BY <1>2, <2>2, <2>6
      <4> QED
        BY <1>8, <4>2, <4>3, <4>4, SeqEqual DEF whole
    <3>3. unit - MaxField = n
      BY <1>1, <1>2, <3>1
    <3>4. CrcOk(units)
      <4>1. units[Len(units)] = unit
        BY <1>8
      <4> QED
        BY <3>2, <3>3, <4>1 DEF CrcOk, Covered, frame
    <3>5. ~Rejects(p, unit)
      BY <2>4, <3>4 DEF Rejects, units
    <3>6. ~Advances(p, q, unit) \/ ~Shape(q)
      <4> SUFFICES ASSUME Advances(p, q, unit), Shape(q) PROVE FALSE
        OBVIOUS
      <4>1. q.units = units
        BY <2>1 DEF Advances, units
      <4>2. Len(units) >= HeaderUnits => Len(units) < HeaderUnits + units[1] + 1
        BY <4>1 DEF Shape
      <4> QED
        BY <1>2, <2>2, <2>4, <2>6, <4>2, SMTT(30)
    <3>7. q \in Parser /\ Shape(q) /\ q.state = "sync0" /\ q.units = <<>> /\ q.accepted = Append(p.accepted, n)
      BY <1>7, <3>3, <3>5, <3>6
    <3>8. Members(q.accepted) = Members(p.accepted) \cup {n}
      BY <1>1, <1>3, <3>7, MembersAppend
    <3>9. Aligned(n, frame, old, i + 1, q)
      <4>1. ~(i + 1 < 2) /\ ~(i + 1 < Len(line))
        BY <1>10, <3>1
      <4> QED
        BY <1>3, <3>7, <3>8, <4>1 DEF Aligned, line
    <3> QED
      BY <3>5, <3>9 DEF q, unit, line, frame
  <2> QED
    BY <1>2, <1>4, <2>5, <2>6
<1> QED
  BY <1>9, <1>10

\* a parser that read i units of a line: aligned, or over-reading a candidate
\* that began before it, whose replay is aligned
OnTrack(n, frame, old, i, p) ==
  \/ Aligned(n, frame, old, i, p)
  \/ /\ p \in Parser /\ Shape(p) /\ p.state = "frame" /\ Len(p.units) >= i
     /\ Aligned(n, frame, old, i, Replay(p, p.units))

\* What the candidate is does not matter to a replay.
LEMMA ReplayForgets ==
  ASSUME NEW p \in Parser, NEW q, NEW units, NEW s, q = [p EXCEPT !.units = s]
  PROVE  Scanning(q) = Scanning(p) /\ Replay(q, units) = Replay(p, units)
<1>1. Scanning(q) = Scanning(p)
  BY DEF Scanning, Parser
<1> QED
  BY <1>1 DEF Replay

\* A candidate that began before a line is not accepted in it.
LEMMA NoneAccepted ==
  ASSUME sent' \in Seq(Frames), NEW n \in DOMAIN sent', NEW p \in Parser, NEW q,
         NEW i \in Nat, i < Len(Line(n, sent'[n])), Len(p.units) >= i,
         Accepting(p, q, Line(n, sent'[n])[i + 1])
  PROVE  FALSE
<1> DEFINE line == Line(n, sent'[n])
           unit == line[i + 1]
           units == Append(p.units, unit)
           m == unit - MaxField
           l == Len(sent'[n].payload)
<1>1. n \in Nat /\ n # 0 /\ sent'[n] \in Frames
  BY LinesAreUnits
<1>2. /\ line \in Seq(Nat) /\ Len(line) = 6 + l /\ l \in Nat
      /\ line[Len(line)] = Trailer(n) /\ Trailer(n) = MaxField + n /\ MaxField \in Nat
      /\ \A k \in 1 .. Len(line) : line[k] \in Nat
      /\ \A k \in 1 .. Len(line) - 1 : line[k] <= MaxField
  BY <1>1, LineUnits, Zenon
<1>3. i < Len(line)
  OBVIOUS
<1>4. CrcOk(units)
  BY DEF Accepting
<1> HIDE DEF line, l
<1>5. i + 1 \in 1 .. Len(line)
  BY <1>2, <1>3
<1>6. unit \in Nat
  BY <1>2, <1>5
<1> HIDE DEF unit
<1>7. p.units \in Seq(Nat)
  BY DEF Parser
<1>8. /\ units \in Seq(Nat) /\ Len(units) = Len(p.units) + 1 /\ units[Len(p.units) + 1] = unit
      /\ Len(p.units) \in Nat
  BY <1>6, <1>7, AppendFacts
<1> HIDE DEF units
<1>9. m \in DOMAIN sent' /\ units = Append(Body(m, sent'[m]), Trailer(m))
  BY <1>4, <1>8 DEF CrcOk, Covered
<1>10. m \in Nat /\ m # 0
  BY <1>9, LinesAreUnits
<1>11. i + 1 = Len(line)
  <2>1. ~(unit <= MaxField)
    BY <1>2, <1>6, <1>10
  <2>2. i + 1 \notin 1 .. Len(line) - 1
    BY <1>2, <2>1 DEF unit
  <2> QED
    BY <1>2, <1>5, <2>2
<1>12. m = n
  BY <1>1, <1>2, <1>11 DEF unit
<1>13. Len(units) = 4 + l
  <2>1. Body(n, sent'[n]) \in Seq(Nat) /\ Len(Body(n, sent'[n])) = 3 + l /\ Trailer(n) \in Nat
    <3>1. /\ Body(n, sent'[n]) \in Seq(Nat) /\ Len(Body(n, sent'[n])) = HeaderUnits + l
          /\ HeaderUnits = 3 /\ Trailer(n) \in Nat
      BY <1>1, LineFacts, Zenon DEF l
    <3> QED
      BY <3>1
  <2>2. Len(Append(Body(n, sent'[n]), Trailer(n))) = Len(Body(n, sent'[n])) + 1
    BY <2>1, AppendFacts
  <2>3. units = Append(Body(n, sent'[n]), Trailer(n))
    BY <1>9, <1>12
  <2> HIDE DEF m
  <2>4. Len(units) = (3 + l) + 1
    BY <2>1, <2>2, <2>3, Zenon
  <2> QED
    BY <1>2, <2>4
<1>14. Len(p.units) >= i
  OBVIOUS
<1> QED
  BY <1>2, <1>8, <1>11, <1>13, <1>14, SMTT(30)

\* A unit of an intact line keeps the parser on its track.
LEMMA TrackStep ==
  ASSUME sent' \in Seq(Frames), NEW n \in DOMAIN sent', LengthOk(Len(sent'[n].payload)),
         NEW old, NEW p, NEW i \in Nat, i < Len(Line(n, sent'[n])), OnTrack(n, sent'[n], old, i, p)
  PROVE  OnTrack(n, sent'[n], old, i + 1, RxByte(p, Line(n, sent'[n])[i + 1]))
<1> DEFINE frame == sent'[n]
           line == Line(n, frame)
           unit == line[i + 1]
           units == Append(p.units, unit)
           q == RxByte(p, unit)
<1>1. unit \in Nat
  <2>1. n \in Nat /\ n # 0 /\ frame \in Frames
    BY LinesAreUnits
  <2>2. /\ Len(line) = 6 + Len(frame.payload) /\ Len(frame.payload) \in Nat
        /\ \A k \in 1 .. Len(line) : line[k] \in Nat
    BY <2>1, LineUnits, Zenon
  <2>3. i < Len(line)
    OBVIOUS
  <2> HIDE DEF line
  <2>4. i + 1 \in 1 .. Len(line)
    BY <2>2, <2>3
  <2> QED
    BY <2>2, <2>4
<1>2. q = Outcome(p, unit, Replay(p, units))
  BY SteppedOutcome
<1>3. CASE Aligned(n, frame, old, i, p)
  <2>1. Aligned(n, frame, old, i + 1, Outcome(p, unit, Replay(p, units)))
    BY <1>3, LineStep
  <2> QED
    BY <1>2, <2>1 DEF OnTrack
<1>4. CASE /\ p \in Parser /\ Shape(p) /\ p.state = "frame" /\ Len(p.units) >= i
           /\ Aligned(n, frame, old, i, Replay(p, p.units))
  <2> DEFINE r == Replay(p, p.units)
  <2>1. p.units \in Seq(Nat)
    BY <1>4 DEF Parser
  <2>2. Replay(p, units) = Outcome(r, unit, Scanning(r))
    BY <1>1, <2>1, ReplayMore, SteppedOutcome
  <2>3. Aligned(n, frame, old, i + 1, Replay(p, units))
    <3>1. Aligned(n, frame, old, i + 1, Outcome(r, unit, Scanning(r)))
      BY <1>4, LineStep
    <3> QED
      BY <2>2, <3>1
  <2>4. ~Accepting(p, q, unit)
    BY <1>4, NoneAccepted
  <2>5. \/ Advances(p, q, unit) /\ q \in Parser /\ Shape(q)
        \/ q = Replay(p, units)
    <3>1. LET o == Outcome(p, unit, Replay(p, units))
          IN \/ Advances(p, o, unit) /\ o \in Parser /\ Shape(o)
             \/ Accepting(p, o, unit)
             \/ o = Replay(p, units)
      BY <1>1, <1>4, OutcomeCases, Zenon
    <3> QED
      BY <1>2, <2>4, <3>1, Zenon
  <2>6. CASE Advances(p, q, unit) /\ q \in Parser /\ Shape(q)
    <3>1. q = [p EXCEPT !.units = units] /\ q.state = "frame" /\ q.units = units
      BY <1>4, <2>6 DEF Advances
    <3>2. Replay(q, q.units) = Replay(p, units)
      <4> HIDE DEF q, units
      <4>1. Replay(q, units) = Replay(p, units)
        BY <1>4, <3>1, ReplayForgets, ZenonT(40)
      <4> QED
        BY <3>1, <4>1
    <3>3. Len(q.units) >= i + 1
      <4>1. Len(units) = Len(p.units) + 1 /\ Len(p.units) \in Nat /\ Len(p.units) >= i
        BY <1>1, <1>4, <2>1, AppendFacts
      <4> HIDE DEF units
      <4> QED
        BY <3>1, <4>1
    <3> HIDE DEF q
    <3> QED
      BY <2>3, <2>6, <3>1, <3>2, <3>3 DEF OnTrack, q
  <2>7. CASE q = Replay(p, units)
    BY <2>3, <2>7 DEF OnTrack
  <2> QED
    BY <2>5, <2>6, <2>7
<1> QED
  BY <1>3, <1>4 DEF OnTrack

\* An intact line keeps the parser on its track to its end.
LEMMA DrainTracks ==
  ASSUME sent' \in Seq(Frames), NEW n \in DOMAIN sent', LengthOk(Len(sent'[n].payload)),
         NEW old, NEW p, OnTrack(n, sent'[n], old, 0, p)
  PROVE  OnTrack(n, sent'[n], old, Len(Line(n, sent'[n])), Drain(p, Line(n, sent'[n])))
<1> DEFINE line == Line(n, sent'[n])
           G == [i \in 0 .. Len(line) |-> {q \in Parser : OnTrack(n, sent'[n], old, i, q)}]
<1>1. line \in Seq(Nat) /\ Len(line) \in Nat
  BY LinesAreUnits, LenProperties
<1>2. PICK f : Fed(FALSE, p, line, f) /\ Drain(p, line) = f[Len(line)]
  BY <1>1, DrainIsFed
<1>3. p \in G[0]
  BY <1>1 DEF OnTrack, Aligned
<1>4. ASSUME NEW i \in 1 .. Len(line), NEW q \in G[i - 1]
      PROVE  Stepped(FALSE, q, line[i]) \in G[i]
  <2>1. i - 1 \in Nat /\ i - 1 \in 0 .. Len(line) /\ i \in 0 .. Len(line) /\ i - 1 < Len(line)
        /\ (i - 1) + 1 = i
    BY <1>1
  <2>2. OnTrack(n, sent'[n], old, i - 1, q)
    BY <1>4, <2>1
  <2> HIDE DEF G
  <2>3. OnTrack(n, sent'[n], old, (i - 1) + 1, RxByte(q, line[(i - 1) + 1]))
    BY <2>1, <2>2, TrackStep
  <2>4. OnTrack(n, sent'[n], old, i, RxByte(q, line[i]))
    BY <2>1, <2>3
  <2> HIDE DEF line
  <2> QED
    BY <2>1, <2>4 DEF G, OnTrack, Aligned, Stepped
<1> HIDE DEF G
<1>5. \A i \in 0 .. Len(line) : f[i] \in G[i]
  BY <1>1, <1>2, <1>3, <1>4, FeedingInduction
<1>6. Drain(p, line) \in G[Len(line)] /\ Len(line) \in 0 .. Len(line)
  BY <1>1, <1>2, <1>5
<1> HIDE DEF line
<1>7. OnTrack(n, sent'[n], old, Len(line), Drain(p, line))
  BY <1>6 DEF G
<1> QED
  BY <1>7 DEF line

\* A parser that met an intact line at its first unit is at its end aligned.
LEMMA DrainAligned ==
  ASSUME sent' \in Seq(Frames), NEW n \in DOMAIN sent', LengthOk(Len(sent'[n].payload)),
         NEW old, NEW p, Aligned(n, sent'[n], old, 0, p)
  PROVE  Aligned(n, sent'[n], old, Len(Line(n, sent'[n])), Drain(p, Line(n, sent'[n])))
<1> DEFINE line == Line(n, sent'[n])
           G == [i \in 0 .. Len(line) |-> {q \in Parser : Aligned(n, sent'[n], old, i, q)}]
<1>1. line \in Seq(Nat) /\ Len(line) \in Nat
  BY LinesAreUnits, LenProperties
<1>2. PICK f : Fed(FALSE, p, line, f) /\ Drain(p, line) = f[Len(line)]
  BY <1>1, DrainIsFed
<1>3. p \in G[0]
  BY <1>1 DEF Aligned
<1>4. ASSUME NEW i \in 1 .. Len(line), NEW q \in G[i - 1]
      PROVE  Stepped(FALSE, q, line[i]) \in G[i]
  <2>1. i - 1 \in Nat /\ i - 1 \in 0 .. Len(line) /\ i \in 0 .. Len(line) /\ i - 1 < Len(line)
        /\ (i - 1) + 1 = i
    BY <1>1
  <2>2. Aligned(n, sent'[n], old, i - 1, q)
    BY <1>4, <2>1
  <2> HIDE DEF G
  <2> DEFINE rejected == Replay(q, Append(q.units, line[i]))
  <2>3. Aligned(n, sent'[n], old, (i - 1) + 1, Outcome(q, line[(i - 1) + 1], rejected))
    BY <2>1, <2>2, LineStep
  <2>4. Aligned(n, sent'[n], old, i, RxByte(q, line[i]))
    BY <2>1, <2>3, SteppedOutcome
  <2> HIDE DEF line
  <2> QED
    BY <2>1, <2>4 DEF G, Aligned, Stepped
<1> HIDE DEF G
<1>5. \A i \in 0 .. Len(line) : f[i] \in G[i]
  BY <1>1, <1>2, <1>3, <1>4, FeedingInduction
<1>6. Drain(p, line) \in G[Len(line)] /\ Len(line) \in 0 .. Len(line)
  BY <1>1, <1>2, <1>5
<1> HIDE DEF line
<1>7. Aligned(n, sent'[n], old, Len(line), Drain(p, line))
  BY <1>6 DEF G
<1> QED
  BY <1>7 DEF line

\* no sync word in a stretch
Quiet(s) == \A i \in 1 .. Len(s) - 1 : <<s[i], s[i + 1]>> # <<Sync0, Sync1>>

\* A stretch without sync word, scanned, leaves what was accepted and opens no candidate.
LEMMA QuietScan ==
  ASSUME sent' \in Seq(Frames), NEW p \in Parser, NEW units \in Seq(Nat), Quiet(units)
  PROVE  LET q == Replay(p, units)
         IN q \in Parser /\ Shape(q) /\ q.state # "frame" /\ q.accepted = p.accepted
<1> DEFINE G == [i \in 0 .. Len(units) |->
                  {q \in Parser : /\ Shape(q) /\ q.state # "frame" /\ q.accepted = p.accepted
                                  /\ q.state = "sync1" => i # 0 /\ units[i] = Sync0}]
<1>1. Len(units) \in Nat /\ \A i \in 1 .. Len(units) : units[i] \in Nat
  BY LenProperties, ElementOfSeq
<1>2. PICK f : Fed(TRUE, Scanning(p), units, f) /\ Replay(p, units) = f[Len(units)]
  BY ReplayIsFed
<1>3. Scanning(p) \in G[0]
  BY <1>1, ScanningFacts
<1>4. ASSUME NEW i \in 1 .. Len(units), NEW q \in G[i - 1]
      PROVE  Stepped(TRUE, q, units[i]) \in G[i]
  <2> DEFINE o == Outcome(q, units[i], Scanning(q))
  <2>1. i - 1 \in 0 .. Len(units) /\ i \in 0 .. Len(units) /\ i # 0 /\ units[i] \in Nat
    BY <1>1
  <2>2. /\ q \in Parser /\ Shape(q) /\ q.state # "frame" /\ q.accepted = p.accepted
        /\ q.state = "sync1" => i - 1 # 0 /\ units[i - 1] = Sync0
    BY <1>4, <2>1
  <2> HIDE DEF G
  <2>3. ~Rejects(q, units[i]) /\ ~Accepting(q, o, units[i])
    BY <2>2 DEF Rejects, Accepting
  <2>4. Advances(q, o, units[i]) /\ o \in Parser /\ Shape(o) /\ o.accepted = q.accepted
    <3> DEFINE rejected == Scanning(q)
    <3>1. LET x == Outcome(q, units[i], rejected)
          IN \/ /\ Advances(q, x, units[i]) /\ ~Rejects(q, units[i])
                /\ x \in Parser /\ Shape(x) /\ x.accepted = q.accepted
             \/ Accepting(q, x, units[i])
             \/ Rejects(q, units[i])
      BY <2>1, <2>2, OutcomeCases, Zenon
    <3> QED
      BY <2>3, <3>1, Zenon
  <2>5. ~(q.state = "sync1" /\ units[i] = Sync1)
    <3> SUFFICES ASSUME q.state = "sync1", units[i] = Sync1 PROVE FALSE
      OBVIOUS
    <3>1. i - 1 \in 1 .. Len(units) - 1 /\ (i - 1) + 1 = i
      BY <1>1, <2>1, <2>2
    <3>2. <<units[i - 1], units[(i - 1) + 1]>> # <<Sync0, Sync1>>
      BY <3>1 DEF Quiet
    <3> QED
      BY <2>2, <3>1, <3>2
  <2> HIDE DEF o
  <2>6. o.state # "frame" /\ (o.state = "sync1" => units[i] = Sync0)
    BY <2>2, <2>4, <2>5 DEF Advances
  <2>7. o \in G[i]
    BY <2>1, <2>2, <2>4, <2>6 DEF G
  <2> QED
    BY <2>7, SteppedOutcome DEF Stepped, o
<1> HIDE DEF G
<1>5. \A i \in 0 .. Len(units) : f[i] \in G[i]
  BY <1>2, <1>3, <1>4, FeedingInduction
<1>6. Replay(p, units) \in G[Len(units)] /\ Len(units) \in 0 .. Len(units)
  BY <1>1, <1>2, <1>5
<1> QED
  BY <1>6 DEF G

\* A unit leaves what was accepted, and in the candidate the end of the stream.
LEMMA ReplayByteKeeps ==
  ASSUME sent' \in Seq(Frames), NEW p \in Parser, Shape(p), NEW unit \in Nat
  PROVE  LET q == ReplayByte(p, unit)
         IN /\ q \in Parser /\ Shape(q) /\ Suffix(Candidate(q), Append(Candidate(p), unit))
            /\ Members(p.accepted) \subseteq Members(q.accepted)
            /\ \A n \in Members(q.accepted) : n \in Members(p.accepted) \/ unit = Trailer(n)
<1> DEFINE q == ReplayByte(p, unit)
           rejected == Scanning(p)
<1>1. p.accepted \in Seq(Nat)
  BY DEF Parser
<1>2. LET o == Outcome(p, unit, rejected)
      IN \/ o \in Parser /\ Shape(o) /\ o.accepted = p.accepted
         \/ /\ o \in Parser /\ Shape(o) /\ unit - MaxField \in Nat
            /\ o.accepted = Append(p.accepted, unit - MaxField)
         \/ o = rejected
  BY OutcomeCases, Zenon
<1>3. rejected \in Parser /\ Shape(rejected) /\ rejected.accepted = p.accepted
  BY ScanningFacts
<1>4. q = Outcome(p, unit, rejected)
  BY SteppedOutcome
<1>5. Suffix(Candidate(q), Append(Candidate(p), unit))
  <2>1. Moved(p, q, unit) \/ Accepting(p, q, unit)
    BY ReplayByteCases
  <2>2. CASE Moved(p, q, unit)
    BY <2>2 DEF Moved
  <2>3. CASE Accepting(p, q, unit)
    <3>1. Candidate(q) = <<>>
      BY <2>3 DEF Accepting, Scanning, Candidate
    <3> QED
      BY <3>1, CandidateFacts, SuffixSelf, AppendFacts
  <2> QED
    BY <2>1, <2>2, <2>3
<1> HIDE DEF q, rejected
<1>6. /\ q \in Parser /\ Shape(q)
      /\ \/ q.accepted = p.accepted
         \/ unit - MaxField \in Nat /\ q.accepted = Append(p.accepted, unit - MaxField)
  BY <1>2, <1>3, <1>4, Zenon
<1>7. /\ Members(p.accepted) \subseteq Members(q.accepted)
      /\ \A n \in Members(q.accepted) : n \in Members(p.accepted) \/ n = unit - MaxField
  BY <1>1, <1>6, MembersAppend, ZenonT(40)
<1>8. Trailer(unit - MaxField) = unit
  BY DEF Trailer, MaxField
<1> QED
  BY <1>5, <1>6, <1>7, <1>8 DEF q

\* What the parser holds of a stream after a unit is the end of what it held with the unit.
LEMMA HeldAfter ==
  ASSUME NEW p \in Parser, NEW q \in Parser, NEW unit \in Nat, NEW t \in Seq(Nat),
         Suffix(Candidate(p), t), Suffix(Candidate(q), Append(Candidate(p), unit))
  PROVE  Suffix(Candidate(q), Append(t, unit))
<1>1. /\ Append(Candidate(p), unit) \in Seq(Nat) /\ Append(t, unit) \in Seq(Nat)
      /\ Suffix(Append(Candidate(p), unit), Append(t, unit))
  BY CandidateGrows
<1>2. Candidate(q) \in Seq(Nat)
  BY CandidateFacts
<1> QED
  BY <1>1, <1>2, SuffixTransitive

\* Units scanned again leave what was accepted, and in the candidate their end.
LEMMA ReplayKeeps ==
  ASSUME sent' \in Seq(Frames), NEW p \in Parser, NEW units \in Seq(Nat)
  PROVE  LET q == Replay(p, units)
         IN /\ q \in Parser /\ Shape(q) /\ Suffix(Candidate(q), units)
            /\ Members(p.accepted) \subseteq Members(q.accepted)
            /\ \A n \in Members(q.accepted) :
                 n \in Members(p.accepted) \/ \E i \in DOMAIN units : units[i] = Trailer(n)
<1> DEFINE G == [i \in 0 .. Len(units) |->
                  {q \in Parser : /\ Shape(q) /\ Suffix(Candidate(q), First(units, i))
                                  /\ Members(p.accepted) \subseteq Members(q.accepted)
                                  /\ \A n \in Members(q.accepted) :
                                       \/ n \in Members(p.accepted)
                                       \/ \E k \in DOMAIN units : units[k] = Trailer(n)}]
<1>1. Len(units) \in Nat /\ \A i \in 1 .. Len(units) : units[i] \in Nat
  BY LenProperties, ElementOfSeq
<1>2. PICK f : Fed(TRUE, Scanning(p), units, f) /\ Replay(p, units) = f[Len(units)]
  BY ReplayIsFed
<1>3. Scanning(p) \in G[0]
  <2>1. 0 \in 0 .. Len(units)
    BY <1>1
  <2>2. First(units, 0) \in Seq(Nat)
    BY <2>1, FirstFacts
  <2>3. Suffix(<<>>, First(units, 0))
    BY <2>2, SuffixSelf
  <2> QED
    BY <2>1, <2>3, ScanningFacts
<1>4. ASSUME NEW i \in 1 .. Len(units), NEW q \in G[i - 1]
      PROVE  Stepped(TRUE, q, units[i]) \in G[i]
  <2> DEFINE j == i - 1
             o == ReplayByte(q, units[i])
  <2>1. j \in 0 .. Len(units) /\ i \in 0 .. Len(units) /\ j # Len(units) /\ j + 1 = i
    BY <1>1
  <2>2. /\ q \in Parser /\ Shape(q) /\ Suffix(Candidate(q), First(units, j))
        /\ Members(p.accepted) \subseteq Members(q.accepted)
        /\ \A n \in Members(q.accepted) :
             n \in Members(p.accepted) \/ \E k \in DOMAIN units : units[k] = Trailer(n)
    BY <1>4, <2>1
  <2> HIDE DEF G, j
  <2>3. First(units, j) \in Seq(Nat) /\ First(units, i) = Append(First(units, j), units[i])
    BY <2>1, FirstFacts
  <2>4. /\ o \in Parser /\ Shape(o) /\ Suffix(Candidate(o), Append(Candidate(q), units[i]))
        /\ Members(q.accepted) \subseteq Members(o.accepted)
        /\ \A n \in Members(o.accepted) : n \in Members(q.accepted) \/ units[i] = Trailer(n)
    BY <1>1, <2>2, ReplayByteKeeps
  <2> HIDE DEF o
  <2>5. Suffix(Candidate(o), First(units, i))
    BY <1>1, <2>2, <2>3, <2>4, HeldAfter
  <2>6. o \in G[i]
    <3>1. i \in DOMAIN units
      BY LenProperties
    <3>2. \A n \in Members(o.accepted) :
            n \in Members(p.accepted) \/ \E k \in DOMAIN units : units[k] = Trailer(n)
      BY <2>2, <2>4, <3>1
    <3> QED
      BY <2>1, <2>2, <2>4, <2>5, <3>2 DEF G
  <2> QED
    BY <2>6 DEF o, Stepped
<1> HIDE DEF G
<1>5. \A i \in 0 .. Len(units) : f[i] \in G[i]
  BY <1>2, <1>3, <1>4, FeedingInduction
<1>6. Replay(p, units) \in G[Len(units)] /\ Len(units) \in 0 .. Len(units)
  BY <1>1, <1>2, <1>5
<1>7. First(units, Len(units)) = units
  BY <1>6, FirstFacts
<1> QED
  BY <1>6, <1>7 DEF G

\* So do units from the line.
LEMMA DrainKeeps ==
  ASSUME sent' \in Seq(Frames), NEW p \in Parser, Shape(p), Candidate(p) = <<>>, NEW units \in Seq(Nat)
  PROVE  LET q == Drain(p, units)
         IN /\ q \in Parser /\ Shape(q) /\ Suffix(Candidate(q), units)
            /\ Members(p.accepted) \subseteq Members(q.accepted)
<1> DEFINE G == [i \in 0 .. Len(units) |->
                  {q \in Parser : /\ Shape(q) /\ Suffix(Candidate(q), First(units, i))
                                  /\ Members(p.accepted) \subseteq Members(q.accepted)}]
<1>1. Len(units) \in Nat /\ \A i \in 1 .. Len(units) : units[i] \in Nat
  BY LenProperties, ElementOfSeq
<1>2. PICK f : Fed(FALSE, p, units, f) /\ Drain(p, units) = f[Len(units)]
  BY DrainIsFed
<1>3. p \in G[0]
  <2>1. 0 \in 0 .. Len(units)
    BY <1>1
  <2>2. First(units, 0) \in Seq(Nat)
    BY <2>1, FirstFacts
  <2>3. Suffix(<<>>, First(units, 0))
    BY <2>2, SuffixSelf
  <2> QED
    BY <2>1, <2>3
<1>4. ASSUME NEW i \in 1 .. Len(units), NEW q \in G[i - 1]
      PROVE  Stepped(FALSE, q, units[i]) \in G[i]
  <2> DEFINE j == i - 1
             o == RxByte(q, units[i])
             w == Append(q.units, units[i])
             rejected == Replay(q, w)
  <2>1. j \in 0 .. Len(units) /\ i \in 0 .. Len(units) /\ j # Len(units) /\ j + 1 = i
    BY <1>1
  <2>2. /\ q \in Parser /\ Shape(q) /\ Suffix(Candidate(q), First(units, j))
        /\ Members(p.accepted) \subseteq Members(q.accepted)
    BY <1>4, <2>1
  <2> HIDE DEF G, j
  <2>3. /\ First(units, j) \in Seq(Nat) /\ First(units, i) = Append(First(units, j), units[i])
        /\ units[i] \in Nat
    BY <1>1, <2>1, FirstFacts
  <2>4. \/ Moved(q, o, units[i]) \/ Accepting(q, o, units[i])
        \/ q.state = "frame" /\ o = rejected
    BY <2>2, <2>3, RxByteCases
  <2>5. q.units \in Seq(Nat) /\ q.accepted \in Seq(Nat) /\ w \in Seq(Nat)
    <3>1. q.units \in Seq(Nat) /\ q.accepted \in Seq(Nat)
      BY <2>2 DEF Parser
    <3> QED
      BY <2>3, <3>1, AppendFacts
  <2> HIDE DEF w
  <2>6. /\ rejected \in Parser /\ Shape(rejected) /\ Suffix(Candidate(rejected), w)
        /\ Members(q.accepted) \subseteq Members(rejected.accepted)
    BY <2>2, <2>5, ReplayKeeps
  <2>7. LET x == Outcome(q, units[i], rejected)
        IN \/ x \in Parser /\ Shape(x) /\ x.accepted = q.accepted
           \/ /\ x \in Parser /\ Shape(x) /\ units[i] - MaxField \in Nat
              /\ x.accepted = Append(q.accepted, units[i] - MaxField)
           \/ x = rejected
    <3> HIDE DEF rejected
    <3> QED
      BY <2>2, <2>3, OutcomeCases, Zenon
  <2>8. o = Outcome(q, units[i], rejected)
    BY SteppedOutcome DEF w
  <2> HIDE DEF o, rejected
  <2>9. /\ o \in Parser /\ Shape(o)
        /\ \/ o.accepted = q.accepted
           \/ units[i] - MaxField \in Nat /\ o.accepted = Append(q.accepted, units[i] - MaxField)
           \/ o = rejected
    BY <2>6, <2>7, <2>8, Zenon
  <2>10. Members(q.accepted) \subseteq Members(o.accepted)
    <3>1. CASE o.accepted = q.accepted
      BY <3>1
    <3>2. CASE units[i] - MaxField \in Nat /\ o.accepted = Append(q.accepted, units[i] - MaxField)
      <4> DEFINE n == units[i] - MaxField
                 old == q.accepted
      <4>1. n \in Nat /\ o.accepted = Append(old, n) /\ old \in Seq(Nat)
        BY <2>5, <3>2
      <4> HIDE DEF n, old
      <4>2. Members(Append(old, n)) = Members(old) \cup {n}
        BY <4>1, MembersAppend
      <4> QED
        BY <4>1, <4>2 DEF old
    <3>3. CASE o = rejected
      BY <2>6, <3>3
    <3> QED
      BY <2>9, <3>1, <3>2, <3>3
  <2>14. Append(Candidate(q), units[i]) \in Seq(Nat)
    <3> DEFINE c == Candidate(q)
               unit == units[i]
    <3>1. c \in Seq(Nat) /\ unit \in Nat
      BY <2>2, <2>3, CandidateFacts
    <3> HIDE DEF c, unit
    <3>2. Append(c, unit) \in Seq(Nat)
      BY <3>1, AppendFacts
    <3> QED
      BY <3>2 DEF c, unit
  <2>11. Suffix(Candidate(o), Append(Candidate(q), units[i]))
    <3>1. CASE Moved(q, o, units[i])
      BY <3>1 DEF Moved
    <3>2. CASE Accepting(q, o, units[i])
      <4>1. Candidate(o) = <<>>
        BY <3>2 DEF Accepting, Scanning, Candidate
      <4> QED
        BY <2>14, <4>1, SuffixSelf
    <3>3. CASE q.state = "frame" /\ o = rejected
      <4>1. Append(Candidate(q), units[i]) = <<Sync0, Sync1>> \o w
        BY <2>2, <2>3, <3>3, CandidateFacts DEF w
      <4>2. <<Sync0, Sync1>> \in Seq(Nat)
        BY <2>2, <2>3, CandidateFacts, PairFacts
      <4>3. Suffix(w, Append(Candidate(q), units[i])) /\ Append(Candidate(q), units[i]) \in Seq(Nat)
        BY <2>5, <2>14, <4>1, <4>2, SuffixConcat
      <4>4. Candidate(o) \in Seq(Nat)
        BY <2>3, <2>9, CandidateFacts
      <4> QED
        BY <2>5, <2>6, <3>3, <4>3, <4>4, SuffixTransitive
    <3> QED
      BY <2>4, <3>1, <3>2, <3>3
  <2>12. Suffix(Candidate(o), First(units, i))
    BY <2>2, <2>3, <2>9, <2>11, HeldAfter
  <2>13. o \in G[i]
    BY <2>1, <2>2, <2>9, <2>10, <2>12 DEF G
  <2> QED
    BY <2>13 DEF o, Stepped
<1> HIDE DEF G
<1>5. \A i \in 0 .. Len(units) : f[i] \in G[i]
  BY <1>2, <1>3, <1>4, FeedingInduction
<1>6. Drain(p, units) \in G[Len(units)] /\ Len(units) \in 0 .. Len(units)
  BY <1>1, <1>2, <1>5
<1>7. First(units, Len(units)) = units
  BY <1>6, FirstFacts
<1> QED
  BY <1>6, <1>7 DEF G

\* the sync word is at i
PairAt(s, i) == i \in Nat /\ i # 0 /\ i + 1 <= Len(s) /\ s[i] = Sync0 /\ s[i + 1] = Sync1

\* of two sync words in what arrived of a frame with a payload of length l, one
\* begins the line, whose length is then as it was sent
FewPairs(u, l) ==
  \A j, k : PairAt(u, j) /\ PairAt(u, k) /\ j < k =>
    /\ j = 1 /\ Len(u) = 6 + l /\ u[3] = l
    /\ k + 1 < Len(u) => u[Len(u)] # Sync0

\* The line of a free frame does not spell the sync word but at its first unit.
LEMMA LineFree ==
  ASSUME NEW n \in Nat, n # 0, NEW frame \in Frames, Free(n, frame), NEW a \in Nat, NEW b \in Nat,
         3 <= a, a < b, b <= Len(Line(n, frame)),
         Line(n, frame)[a] = Sync0, Line(n, frame)[b] = Sync1
  PROVE  FALSE
<1> DEFINE line == Line(n, frame)
           l == Len(frame.payload)
<1>1. /\ Len(line) = 6 + l /\ l \in Nat /\ line[Len(line)] = Trailer(n)
      /\ Trailer(n) = MaxField + n /\ MaxField \in Nat /\ Sync1 \in Nat /\ Sync1 <= MaxField
      /\ \A i \in 3 .. Len(line) - 1 :
           i - 2 \in DOMAIN Body(n, frame) /\ line[i] = Body(n, frame)[i - 2]
  BY LineUnits, Zenon
<1>2. 3 <= a /\ a < b /\ b <= Len(line) /\ line[a] = Sync0 /\ line[b] = Sync1
  OBVIOUS
<1> HIDE DEF line, l
<1>3. b # Len(line)
  BY <1>1, <1>2
<1>4. a \in 3 .. Len(line) - 1 /\ b \in 3 .. Len(line) - 1 /\ a - 2 < b - 2
  BY <1>1, <1>2, <1>3
<1>5. <<Body(n, frame)[a - 2], Body(n, frame)[b - 2]>> # <<Sync0, Sync1>>
  BY <1>1, <1>4 DEF Free
<1> QED
  BY <1>1, <1>2, <1>4, <1>5

\* A damaged line has few sync words.
LEMMA DamagedPairs ==
  ASSUME NEW n \in Nat, n # 0, NEW frame \in Frames, Free(n, frame),
         NEW d \in DOMAIN Line(n, frame), NEW unit \in Noise
  PROVE  FewPairs([Line(n, frame) EXCEPT ![d] = unit], Len(frame.payload))
<1> DEFINE line == Line(n, frame)
           u == [line EXCEPT ![d] = unit]
           l == Len(frame.payload)
<1>1. /\ line \in Seq(Nat) /\ Len(line) = 6 + l /\ l \in Nat /\ line[2] = Sync1 /\ line[3] = l
      /\ line[4] = frame.topic /\ Sync0 # Sync1 /\ Sync0 \in Nat /\ Sync0 <= MaxField
      /\ line[Len(line)] = Trailer(n) /\ Trailer(n) = MaxField + n /\ MaxField \in Nat
  BY LineUnits, Zenon
<1>2. d \in 1 .. Len(line) /\ unit \in Nat
  <2>1. u \in Seq(Nat) /\ d \in 1 .. Len(line) /\ u[d] = unit /\ Len(u) = Len(line)
    BY DamagedFacts
  <2> HIDE DEF u
  <2> QED
    BY <1>1, <2>1, ElementOfSeq
<1>3. /\ u \in Seq(Nat) /\ Len(u) = Len(line)
      /\ \A i \in 1 .. Len(line) : u[i] = IF i = d THEN unit ELSE line[i]
  <2>1. line \in Seq(Nat) /\ d \in 1 .. Len(line) /\ unit \in Nat
    BY <1>1, <1>2
  <2> HIDE DEF line
  <2> QED
    BY <2>1, ExceptSeq
<1>4. frame.topic # Sync1
  BY DEF Free
<1>5. \A a, b \in Nat : ~(3 <= a /\ a < b /\ b <= Len(line) /\ line[a] = Sync0 /\ line[b] = Sync1)
  BY LineFree, Zenon
<1> HIDE DEF line, u, l
<1> SUFFICES ASSUME NEW j, NEW k, PairAt(u, j), PairAt(u, k), j < k
             PROVE  /\ j = 1 /\ Len(u) = 6 + l /\ u[3] = l
                    /\ k + 1 < Len(u) => u[Len(u)] # Sync0
  BY DEF FewPairs, line, u, l
<1>6. /\ j \in Nat /\ j # 0 /\ j + 1 <= Len(line) /\ u[j] = Sync0 /\ u[j + 1] = Sync1
      /\ k \in Nat /\ k + 1 <= Len(line) /\ u[k] = Sync0 /\ u[k + 1] = Sync1 /\ j < k
  BY <1>3 DEF PairAt
<1>7. k # j + 1
  BY <1>1, <1>6
<1>8. /\ j \in 1 .. Len(line) /\ j + 1 \in 1 .. Len(line) /\ k \in 1 .. Len(line)
      /\ k + 1 \in 1 .. Len(line) /\ 3 <= k /\ j + 1 < k /\ 3 \in 1 .. Len(line)
      /\ 4 \in 1 .. Len(line) /\ Len(line) \in 1 .. Len(line)
  BY <1>1, <1>6, <1>7
<1>9. d = k \/ d = k + 1
  <2> SUFFICES ASSUME d # k, d # k + 1 PROVE FALSE
    OBVIOUS
  <2>1. line[k] = Sync0 /\ line[k + 1] = Sync1
    BY <1>3, <1>6, <1>8
  <2> QED
    BY <1>5, <1>6, <1>8, <2>1
<1>10. line[j] = Sync0 /\ line[j + 1] = Sync1
  <2>1. d # j /\ d # j + 1
    BY <1>6, <1>8, <1>9
  <2> QED
    BY <1>3, <1>6, <1>8, <2>1
<1>11. j = 1
  <2>1. j # 2
    BY <1>1, <1>10
  <2>2. ~(3 <= j)
    BY <1>5, <1>6, <1>10
  <2> QED
    BY <1>6, <2>1, <2>2
<1>12. d # 3
  <2> SUFFICES ASSUME d = 3 PROVE FALSE
    OBVIOUS
  <2>1. k = 3
    BY <1>6, <1>8, <1>9
  <2>2. u[4] = line[4] /\ u[4] = Sync1
    <3>1. u[4] = line[4]
      BY <1>3, <1>8
    <3>2. k + 1 = 4
      BY <2>1
    <3> QED
      BY <1>6, <3>1, <3>2
  <2> QED
    BY <1>1, <1>4, <2>2
<1>13. u[3] = l
  BY <1>1, <1>3, <1>8, <1>12
<1>14. k + 1 < Len(u) => u[Len(u)] # Sync0
  <2> SUFFICES ASSUME k + 1 < Len(u) PROVE u[Len(u)] # Sync0
    OBVIOUS
  <2>1. d # Len(line)
    <3>1. Len(u) = Len(line) /\ k \in Nat /\ k + 1 < Len(u)
      BY <1>3, <1>6
    <3> QED
      BY <1>9, <3>1
  <2>2. u[Len(u)] = Trailer(n)
    BY <1>1, <1>3, <1>8, <2>1
  <2> QED
    BY <1>1, <2>2
<1> QED
  BY <1>1, <1>3, <1>11, <1>13, <1>14

\* A line that lost a stretch has no two.
LEMMA ShortPairs ==
  ASSUME NEW n \in Nat, n # 0, NEW frame \in Frames, Free(n, frame),
         NEW first \in DOMAIN Line(n, frame), NEW last \in DOMAIN Line(n, frame), first <= last
  PROVE  LET line == Line(n, frame)
         IN FewPairs(SubSeq(line, 1, first - 1) \o SubSeq(line, last + 1, Len(line)),
                     Len(frame.payload))
<1> DEFINE line == Line(n, frame)
           u == SubSeq(line, 1, first - 1) \o SubSeq(line, last + 1, Len(line))
           lost == last + 1 - first
           Place(i) == IF i < first THEN i ELSE i + lost
<1>1. /\ line \in Seq(Nat) /\ Sync0 # Sync1 /\ Len(line) \in Nat
  BY LineUnits, LenProperties, Zenon
<1>2. u \in Seq(Nat) /\ Len(u) = Len(line) - lost /\ Len(u) \in Nat
      /\ \A i \in 1 .. Len(u) : u[i] = line[Place(i)] /\ Place(i) \in Nat /\ Place(i) <= Len(line)
  BY ShortUnits
<1>3. first \in 1 .. Len(line) /\ last \in 1 .. Len(line) /\ lost \in Nat /\ first <= last
  BY <1>1, LenProperties
<1>4. \A a, b \in Nat : ~(3 <= a /\ a < b /\ b <= Len(line) /\ line[a] = Sync0 /\ line[b] = Sync1)
  BY LineFree, Zenon
<1> HIDE DEF line, u
<1> SUFFICES ASSUME NEW j, NEW k, PairAt(u, j), PairAt(u, k), j < k PROVE FALSE
  BY DEF FewPairs, line, u
<1>5. /\ j \in Nat /\ j # 0 /\ u[j + 1] = Sync1
      /\ k \in Nat /\ k + 1 <= Len(u) /\ u[k] = Sync0 /\ u[k + 1] = Sync1 /\ j < k
  BY DEF PairAt
<1>6. k # j + 1
  BY <1>1, <1>5
<1>7. k \in 1 .. Len(u) /\ k + 1 \in 1 .. Len(u) /\ 3 <= k
  BY <1>2, <1>5, <1>6, SMTT(30)
<1> DEFINE a == Place(k)
           b == Place(k + 1)
<1>8. line[a] = Sync0 /\ line[b] = Sync1 /\ a \in Nat /\ b \in Nat /\ b <= Len(line)
  BY <1>2, <1>5, <1>7
<1>9. 3 <= a /\ a < b
  BY <1>3, <1>7
<1> HIDE DEF a, b
<1> QED
  BY <1>4, <1>8, <1>9

\* What a hurt line leaves open has no sync word in it.
LEMMA HurtEnd ==
  ASSUME sent' \in Seq(Frames), NEW p \in Parser, Shape(p), Candidate(p) = <<>>,
         NEW u \in Seq(Nat), NEW l \in Nat, FewPairs(u, l), Drain(p, u).state = "frame"
  PROVE  Quiet(Drain(p, u).units)
<1> DEFINE q == Drain(p, u)
           w == q.units
           sync == <<Sync0, Sync1>>
<1>1. q \in Parser /\ Shape(q) /\ Suffix(Candidate(q), u)
  BY DrainKeeps
<1>2. Candidate(q) = sync \o w
  BY DEF Candidate
<1>3. w \in Seq(Nat) /\ Sync0 \in Nat /\ Sync1 \in Nat /\ Len(u) \in Nat
  BY <1>1, SyncAssumption, LenProperties DEF Parser, SyncAssumption
<1>4. Shape(q)
  BY <1>1
<1> HIDE DEF q
<1>5. Len(w) >= HeaderUnits => Len(w) < HeaderUnits + w[1] + 1
  BY <1>4 DEF Shape
<1>6. sync \in Seq(Nat) /\ Len(sync) = 2 /\ sync[1] = Sync0 /\ sync[2] = Sync1
  BY <1>3
<1> HIDE DEF w, sync
<1>7. /\ Len(sync \o w) = Len(sync) + Len(w) /\ Len(w) \in Nat
      /\ (\A i \in 1 .. Len(sync) : (sync \o w)[i] = sync[i])
      /\ \A i \in 1 .. Len(w) : (sync \o w)[Len(sync) + i] = w[i]
  <2>1. sync \in Seq(Nat) /\ w \in Seq(Nat)
    BY <1>3, <1>6
  <2>2. ASSUME NEW s \in Seq(Nat), NEW t \in Seq(Nat)
        PROVE  /\ Len(s \o t) = Len(s) + Len(t) /\ Len(t) \in Nat
               /\ (\A i \in 1 .. Len(s) : (s \o t)[i] = s[i])
               /\ \A i \in 1 .. Len(t) : (s \o t)[Len(s) + i] = t[i]
    BY ConcatFacts
  <2> QED
    BY <2>1, <2>2, Zenon
<1>8. PICK k \in Nat : /\ Len(u) = k + Len(sync \o w)
                       /\ \A i \in 1 .. Len(sync \o w) : u[k + i] = (sync \o w)[i]
  BY <1>1, <1>2 DEF Suffix
<1> DEFINE b == k + 2
<1>9. Len(u) = b + Len(w) /\ b \in Nat /\ u[k + 1] = Sync0 /\ u[b] = Sync1
      /\ \A i \in 1 .. Len(w) : u[b + i] = w[i]
  <2>1. 1 \in 1 .. Len(sync \o w) /\ 2 \in 1 .. Len(sync \o w) /\ 1 \in 1 .. Len(sync) /\ 2 \in 1 .. Len(sync)
    BY <1>6, <1>7
  <2>2. u[k + 1] = Sync0 /\ u[k + 2] = Sync1
    BY <1>6, <1>7, <1>8, <2>1
  <2>3. ASSUME NEW i \in 1 .. Len(w) PROVE u[b + i] = w[i]
    <3>1. 2 + i \in 1 .. Len(sync \o w) /\ k + (2 + i) = b + i
      BY <1>6, <1>7
    <3>2. (sync \o w)[2 + i] = w[i]
      BY <1>6, <1>7
    <3> QED
      BY <1>8, <3>1, <3>2
  <2>4. Len(u) = b + Len(w)
    BY <1>6, <1>7, <1>8
  <2> QED
    BY <2>2, <2>3, <2>4
<1> HIDE DEF b
<1>10. SUFFICES ASSUME NEW i \in 1 .. Len(w) - 1, w[i] = Sync0, w[i + 1] = Sync1 PROVE FALSE
  BY DEF Quiet, w, q
<1>11. PairAt(u, k + 1)
  <2>1. k + 1 \in Nat /\ k + 1 # 0 /\ (k + 1) + 1 <= Len(u) /\ (k + 1) + 1 = b
    BY <1>7, <1>9 DEF b
  <2> QED
    BY <1>9, <2>1 DEF PairAt
<1>12. PairAt(u, b + i)
  <2>1. i \in 1 .. Len(w) /\ i + 1 \in 1 .. Len(w) /\ (b + i) + 1 = b + (i + 1)
        /\ b + i \in Nat /\ b + i # 0 /\ (b + i) + 1 <= Len(u)
    BY <1>7, <1>9, SMTT(30)
  <2>2. u[b + i] = Sync0 /\ u[(b + i) + 1] = Sync1
    BY <1>9, <1>10, <2>1
  <2> QED
    BY <2>1, <2>2 DEF PairAt
<1>13. k + 1 < b + i
  BY <1>9 DEF b
<1>14. k + 1 = 1 /\ Len(u) = 6 + l /\ u[3] = l
  BY <1>11, <1>12, <1>13 DEF FewPairs
<1>15. Len(w) = 4 + l /\ b + 1 = 3 /\ 1 \in 1 .. Len(w)
  BY <1>7, <1>9, <1>14 DEF b
<1>16. w[1] = l
  BY <1>9, <1>14, <1>15
<1> QED
  BY <1>5, <1>15, <1>16 DEF HeaderUnits

-----------------------------------------------------------------------------
(* A damage costs the frame it hits                                        *)

\* Outcome for a replay, with the frames sent as a parameter
OutcomeIn(frames, p, unit) ==
  LET units == Append(p.units, unit)
      long == Len(units)
  IN CASE p.state = "sync0" ->
            IF unit = Sync0 THEN [p EXCEPT !.state = "sync1"] ELSE p
       [] p.state = "sync1" ->
            IF unit = Sync1 THEN [p EXCEPT !.state = "frame"]
            ELSE IF unit = Sync0 THEN p ELSE Scanning(p)
       [] OTHER ->
            IF long < HeaderUnits THEN [p EXCEPT !.units = units]
            ELSE IF ~LengthOk(units[1]) THEN Scanning(p)
            ELSE IF long < HeaderUnits + units[1] + 1 THEN [p EXCEPT !.units = units]
            ELSE IF Covered(frames, units, units[Len(units)] - MaxField)
                 THEN Scanning(Accept(p, units, unit - MaxField))
            ELSE Scanning(p)

\* r is what a replay of units leaves of p
Replays(frames, p, units, r) ==
  \E f : /\ f = [i \in 0 .. Len(units) |-> IF i = 0 THEN Scanning(p)
                                           ELSE OutcomeIn(frames, f[i - 1], units[i])]
         /\ r = f[Len(units)]

\* the frames of old are accepted, or would be if the candidate were rejected
Caught(frames, old, p) ==
  IF p.state # "frame" THEN old \subseteq Members(p.accepted)
  ELSE \E r : /\ Replays(frames, p, p.units, r)
              /\ r \in Parser /\ Shape(r) /\ r.state # "frame"
              /\ old \subseteq Members(r.accepted)
              /\ \A n \in Members(r.accepted) :
                   n \in Members(p.accepted) \/ \E i \in DOMAIN p.units : p.units[i] = Trailer(n)

\* trailers rise in the stream
RisingInv ==
  \A i, j \in DOMAIN arrived : i < j /\ arrived[j] > MaxField => arrived[i] < arrived[j]

\* one fault at most, and no frame it can make spell the sync word
Mild == faults <= 1 /\ \A n \in Numbers : SyncFree(n)

\* what was not hurt is accepted or about to be; before the first fault the
\* parser waits for the next frame
LocalInv ==
  Mild => /\ Caught(sent, Numbers \ hurt, rx)
          /\ faults = 0 => rx.state = "sync0"

\* A replay is one in the frames sent.
LEMMA ReplaysIn ==
  ASSUME NEW p, NEW units \in Seq(Nat)
  PROVE  Replays(sent', p, units, Replay(p, units))
<1>1. PICK f : Fed(TRUE, Scanning(p), units, f) /\ Replay(p, units) = f[Len(units)]
  BY ReplayIsFed
<1>2. \A q, u : Stepped(TRUE, q, u) = OutcomeIn(sent', q, u)
  BY SteppedOutcome DEF Stepped, Outcome, OutcomeIn, CrcOk
<1>3. f = [i \in 0 .. Len(units) |-> IF i = 0 THEN Scanning(p)
                                     ELSE OutcomeIn(sent', f[i - 1], units[i])]
  BY <1>1, <1>2, Zenon DEF Fed
<1> QED
  BY <1>1, <1>3 DEF Replays

\* A frame sent later changes nothing about a replay of what came before it.
LEMMA ReplaysMore ==
  ASSUME sent \in Seq(Frames), NEW frame \in Frames, sent' = Append(sent, frame),
         NEW p \in Parser, NEW units \in Seq(Nat),
         \A i \in 1 .. Len(units) : units[i] <= MaxField + Len(sent),
         NEW r, Replays(sent, p, units, r)
  PROVE  r = Replay(p, units)
<1>1. PICK g : /\ g = [i \in 0 .. Len(units) |-> IF i = 0 THEN Scanning(p)
                                                ELSE OutcomeIn(sent, g[i - 1], units[i])]
               /\ r = g[Len(units)]
  BY DEF Replays
<1>2. PICK f : Fed(TRUE, Scanning(p), units, f) /\ Replay(p, units) = f[Len(units)]
  BY ReplayIsFed
<1>3. Len(units) \in Nat /\ \A i \in 1 .. Len(units) : units[i] \in Nat
  BY LenProperties, ElementOfSeq
<1>4. \A i \in 0 .. Len(units) : g[i] = IF i = 0 THEN Scanning(p)
                                        ELSE OutcomeIn(sent, g[i - 1], units[i])
  BY <1>1, Zenon
<1>5. /\ sent' \in Seq(Frames) /\ Len(sent) \in Nat /\ DOMAIN sent = 1 .. Len(sent)
      /\ DOMAIN sent' = 1 .. (Len(sent) + 1) /\ \A n \in 1 .. Len(sent) : sent'[n] = sent[n]
  BY AppendProperties, LenProperties
<1> DEFINE G == [i \in 0 .. Len(units) |-> {g[i]} \cap {q \in Parser : Shape(q)}]
<1>6. Scanning(p) \in G[0]
  <2>1. g[0] = Scanning(p) /\ 0 \in 0 .. Len(units)
    BY <1>3, <1>4
  <2> QED
    BY <2>1, ScanningFacts
<1>7. ASSUME NEW i \in 1 .. Len(units), NEW q \in G[i - 1]
      PROVE  Stepped(TRUE, q, units[i]) \in G[i]
  <2> DEFINE u == units[i]
             w == Append(q.units, u)
  <2>1. i - 1 \in 0 .. Len(units) /\ i \in 0 .. Len(units) /\ i # 0 /\ u \in Nat
        /\ u <= MaxField + Len(sent)
    BY <1>3
  <2>2. q = g[i - 1] /\ q \in Parser /\ Shape(q)
    BY <1>7, <2>1
  <2> HIDE DEF G, u
  <2>3. q.units \in Seq(Nat)
    BY <2>2 DEF Parser
  <2>4. w[Len(w)] = u
    BY <2>1, <2>3, AppendFacts
  <2>5. Covered(sent, w, w[Len(w)] - MaxField) <=> Covered(sent', w, w[Len(w)] - MaxField)
    <3> DEFINE n == u - MaxField
    <3>1. n \in 1 .. Len(sent) <=> n \in 1 .. Len(sent) + 1
      BY <1>5, <2>1 DEF MaxField
    <3> HIDE DEF n, w
    <3> QED
      BY <1>5, <2>4, <3>1 DEF Covered, n
  <2>6. OutcomeIn(sent, q, u) = OutcomeIn(sent', q, u)
    <3>1. Covered(sent, Append(q.units, u), Append(q.units, u)[Len(Append(q.units, u))] - MaxField)
            <=> Covered(sent', Append(q.units, u), Append(q.units, u)[Len(Append(q.units, u))] - MaxField)
      BY <2>5
    <3> QED
      BY <3>1, Zenon DEF OutcomeIn
  <2>7. Stepped(TRUE, q, u) = OutcomeIn(sent', q, u)
    BY SteppedOutcome DEF Stepped, Outcome, OutcomeIn, CrcOk
  <2>8. g[i] = OutcomeIn(sent, q, u)
    BY <1>4, <2>1, <2>2 DEF u
  <2>9. Stepped(TRUE, q, u) \in Parser /\ Shape(Stepped(TRUE, q, u))
    BY <1>5, <2>1, <2>2, ReplayByteKeeps DEF Stepped
  <2>10. Stepped(TRUE, q, u) = g[i]
    BY <2>6, <2>7, <2>8
  <2> QED
    BY <2>1, <2>9, <2>10 DEF G, u
<1> HIDE DEF G
<1>8. \A i \in 0 .. Len(units) : f[i] \in G[i]
  BY <1>2, <1>6, <1>7, FeedingInduction
<1>9. Len(units) \in 0 .. Len(units)
  BY <1>3
<1> QED
  BY <1>1, <1>2, <1>8, <1>9 DEF G

\* Trailers go on rising when a line arrives.
LEMMA RisingKeeps ==
  ASSUME IInv, RisingInv, NEW units \in Seq(Nat), Ended(units, Len(sent) + 1),
         arrived' = arrived \o units
  PROVE  RisingInv'
<1> DEFINE m == Len(arrived)
<1>1. /\ m \in Nat /\ Len(units) \in Nat /\ Len(arrived') = m + Len(units)
      /\ (\A i \in 1 .. m : arrived'[i] = arrived[i])
      /\ \A i \in 1 .. Len(units) : arrived'[m + i] = units[i]
  BY ConcatFacts DEF IInv
<1>2. /\ Len(sent) \in Nat /\ MaxField \in Nat /\ DOMAIN arrived = 1 .. m
      /\ DOMAIN units = 1 .. Len(units) /\ DOMAIN arrived' = 1 .. m + Len(units)
      /\ \A i \in 1 .. m : arrived[i] \in Nat
  <2>1. arrived' \in Seq(Nat)
    BY ConcatProperties DEF IInv
  <2>2. /\ Len(sent) \in Nat /\ DOMAIN arrived = 1 .. m /\ DOMAIN units = 1 .. Len(units)
        /\ DOMAIN arrived' = 1 .. Len(arrived')
    BY <2>1, LenProperties DEF IInv
  <2>3. \A i \in 1 .. m : arrived[i] \in Nat
    BY ElementOfSeq DEF IInv
  <2> QED
    BY <1>1, <2>2, <2>3 DEF MaxField
<1>3. ASSUME NEW i \in 1 .. Len(units), units[i] > MaxField
      PROVE  i = Len(units) /\ units[i] = MaxField + Len(sent) + 1
  <2>1. units[i] \in Nat
    BY ElementOfSeq, SMTT(30)
  <2>2. units[i] <= MaxField \/ (i = Len(units) /\ units[i] = Trailer(Len(sent) + 1))
    BY <1>2 DEF Ended
  <2>3. MaxField \in Nat /\ Len(sent) \in Nat /\ Trailer(Len(sent) + 1) = MaxField + (Len(sent) + 1)
    BY <1>2 DEF Trailer
  <2>4. ~(units[i] <= MaxField)
    BY <1>3, <2>1, <2>3
  <2> QED
    BY <2>2, <2>3, <2>4
<1>4. \A i \in 1 .. m : arrived[i] <= MaxField + Len(sent)
  BY <1>2 DEF IInv, StreamInv
<1>8. m \in Nat /\ Len(units) \in Nat
  BY <1>1
<1> HIDE DEF m
<1> SUFFICES ASSUME NEW i \in DOMAIN arrived', NEW j \in DOMAIN arrived', i < j,
                    arrived'[j] > MaxField
             PROVE  arrived'[i] < arrived'[j]
  BY DEF RisingInv
<1>5. i \in 1 .. m + Len(units) /\ j \in 1 .. m + Len(units)
  BY <1>2
<1>6. CASE j <= m
  <2>1. i \in 1 .. m /\ j \in 1 .. m
    BY <1>1, <1>5, <1>6
  <2>2. arrived[j] > MaxField
    BY <1>1, <2>1
  <2>3. arrived[i] < arrived[j]
    BY <1>2, <2>1, <2>2 DEF RisingInv
  <2> QED
    BY <1>1, <2>1, <2>3
<1>7. CASE ~(j <= m)
  <2> DEFINE h == j - m
  <2>1. h \in 1 .. Len(units) /\ m + h = j
    BY <1>5, <1>7, <1>8, SMTT(30)
  <2> HIDE DEF h
  <2>2. arrived'[j] = units[h]
    BY <1>1, <2>1
  <2>3. h = Len(units) /\ units[h] = MaxField + Len(sent) + 1
    BY <1>3, <2>1, <2>2
  <2>4. CASE i <= m
    <3>1. i \in 1 .. m
      BY <1>1, <1>5, <2>4
    <3>2. arrived'[i] = arrived[i] /\ arrived[i] \in Nat /\ arrived[i] <= MaxField + Len(sent)
      BY <1>1, <1>2, <1>4, <3>1
    <3> QED
      BY <1>2, <2>2, <2>3, <3>2
  <2>5. CASE ~(i <= m)
    <3> DEFINE g == i - m
    <3>1. g \in 1 .. Len(units) /\ m + g = i /\ g # Len(units)
      <4>1. j = m + Len(units)
        BY <2>1, <2>3
      <4>2. i < j /\ i \in Nat /\ ~(i <= m)
        BY <1>5, <1>8, <2>5
      <4> DEFINE long == Len(units)
      <4>3. long \in Nat /\ m \in Nat /\ i \in Nat /\ i < m + long /\ ~(i <= m)
        BY <1>8, <4>1, <4>2
      <4> HIDE DEF long
      <4>4. g \in 1 .. long /\ m + g = i /\ g # long
        BY <4>3
      <4> QED
        BY <4>4 DEF long
    <3> HIDE DEF g
    <3>2. arrived'[i] = units[g] /\ units[g] \in Nat
      BY <1>1, <3>1, ElementOfSeq
    <3>3. ~(units[g] > MaxField)
      BY <1>3, <3>1
    <3> QED
      BY <1>2, <2>2, <2>3, <3>2, <3>3
  <2> QED
    BY <2>4, <2>5
<1> QED
  BY <1>6, <1>7

\* What the candidate is was on the line.
LEMMA CandidateArrived ==
  ASSUME IInv, rx.state = "frame"
  PROVE  \A i \in 1 .. Len(rx.units) : rx.units[i] <= MaxField + Len(sent)
<1>1. Suffix(Candidate(rx), arrived) /\ Candidate(rx) = <<Sync0, Sync1>> \o rx.units
  BY DEF IInv, Follows, Candidate
<1>2. rx \in Parser /\ rx.units \in Seq(Nat)
  BY DEF IInv, Follows, Sound, Parser
<1>3. <<Sync0, Sync1>> \in Seq(Nat)
  BY <1>2, CandidateFacts, PairFacts
<1>4. Suffix(rx.units, <<Sync0, Sync1>> \o rx.units)
  BY <1>2, <1>3, SuffixConcat
<1>5. Candidate(rx) \in Seq(Nat)
  BY <1>2, CandidateFacts
<1>6. arrived \in Seq(Nat) /\ DOMAIN rx.units = 1 .. Len(rx.units)
  BY <1>2, LenProperties DEF IInv
<1>7. Suffix(rx.units, arrived)
  BY <1>1, <1>2, <1>4, <1>5, <1>6, SuffixTransitive
<1>8. \A i \in DOMAIN rx.units : \E j \in DOMAIN arrived : rx.units[i] = arrived[j]
  <2>1. <<>> \in Seq(Nat)
    BY EmptySeq
  <2> QED
    BY <1>2, <1>6, <1>7, <2>1, SuffixContains
<1> QED
  BY <1>6, <1>8 DEF IInv, StreamInv

\* The parser is on the track of the next frame, if what came before is caught.
LEMMA CaughtTracks ==
  ASSUME IInv, NEW frame \in Frames, sent' = Append(sent, frame), NEW old, Caught(sent, old, rx)
  PROVE  OnTrack(Len(sent) + 1, frame, old, 0, rx)
<1> DEFINE n == Len(sent) + 1
<1>1. n \in Nat /\ n # 0 /\ Len(sent) \in Nat /\ sent \in Seq(Frames)
  BY NextNumber DEF IInv
<1>2. Len(Line(n, frame)) = 6 + Len(frame.payload) /\ Len(frame.payload) \in Nat
  BY <1>1, LineUnits, Zenon
<1>3. rx \in Parser /\ Shape(rx) /\ rx.units \in Seq(Nat)
  BY DEF IInv, Follows, Sound, Parser
<1> HIDE DEF n
<1>4. ASSUME NEW p \in Parser, Shape(p), p.state # "frame", old \subseteq Members(p.accepted)
      PROVE  Aligned(n, frame, old, 0, p)
  <2>1. p.units = <<>>
    BY <1>4 DEF Shape
  <2>2. 0 # Len(Line(n, frame)) /\ ~(0 >= 2) /\ 0 # 1
    BY <1>2
  <2> QED
    BY <1>4, <2>1, <2>2 DEF Aligned
<1>5. CASE rx.state # "frame"
  <2>1. old \subseteq Members(rx.accepted)
    BY <1>5 DEF Caught
  <2> QED
    BY <1>3, <1>4, <1>5, <2>1 DEF OnTrack, n
<1>6. CASE rx.state = "frame"
  <2>1. PICK r : /\ Replays(sent, rx, rx.units, r)
                 /\ r \in Parser /\ Shape(r) /\ r.state # "frame"
                 /\ old \subseteq Members(r.accepted)
    BY <1>6 DEF Caught
  <2>2. \A i \in 1 .. Len(rx.units) : rx.units[i] <= MaxField + Len(sent)
    BY <1>6, CandidateArrived
  <2>3. r = Replay(rx, rx.units)
    BY <1>1, <1>3, <2>1, <2>2, ReplaysMore
  <2>4. Aligned(n, frame, old, 0, Replay(rx, rx.units))
    BY <1>4, <2>1, <2>3
  <2>5. Len(rx.units) >= 0
    BY <1>3, LenProperties
  <2> QED
    BY <1>3, <1>6, <2>4, <2>5 DEF OnTrack, n
<1> QED
  BY <1>5, <1>6

\* At the end of the line the next frame is caught too.
LEMMA TracksCaught ==
  ASSUME sent' \in Seq(Frames), NEW n \in Nat, n # 0, NEW frame \in Frames, NEW old, NEW p,
         OnTrack(n, frame, old, Len(Line(n, frame)), p)
  PROVE  Caught(sent', old \cup {n}, p)
<1> DEFINE len == Len(Line(n, frame))
<1>1. Len(Line(n, frame)) = 6 + Len(frame.payload) /\ Len(frame.payload) \in Nat
  BY LineUnits, Zenon
<1>2. \A q : Aligned(n, frame, old, len, q) =>
               /\ q \in Parser /\ Shape(q) /\ q.state = "sync0"
               /\ old \cup {n} \subseteq Members(q.accepted)
  BY DEF Aligned
<1>3. CASE Aligned(n, frame, old, len, p)
  BY <1>2, <1>3 DEF Caught
<1>4. CASE /\ p \in Parser /\ Shape(p) /\ p.state = "frame"
           /\ Aligned(n, frame, old, len, Replay(p, p.units))
  <2> DEFINE r == Replay(p, p.units)
  <2>1. p.units \in Seq(Nat)
    BY <1>4 DEF Parser
  <2>2. Replays(sent', p, p.units, r)
    BY <2>1, ReplaysIn
  <2>3. \A k \in Members(r.accepted) :
          k \in Members(p.accepted) \/ \E i \in DOMAIN p.units : p.units[i] = Trailer(k)
    BY <1>4, <2>1, ReplayKeeps
  <2>4. /\ r \in Parser /\ Shape(r) /\ r.state # "frame"
        /\ old \cup {n} \subseteq Members(r.accepted)
    BY <1>2, <1>4
  <2> HIDE DEF r
  <2> QED
    BY <1>4, <2>2, <2>3, <2>4 DEF Caught
<1> QED
  BY <1>3, <1>4 DEF OnTrack

\* A fault less makes what is mild no less so.
LEMMA MildBefore ==
  ASSUME IInv, NEW frame \in Frames, sent' = Append(sent, frame), NEW fewer \in Nat,
         faults' \in Nat, faults' = faults + fewer, Mild'
  PROVE  Mild /\ Free(Len(sent) + 1, frame)
<1>1. /\ sent \in Seq(Frames) /\ Len(sent) \in Nat /\ faults \in Nat
      /\ sent' \in Seq(Frames) /\ Len(sent') = Len(sent) + 1
      /\ sent'[Len(sent) + 1] = frame /\ \A n \in 1 .. Len(sent) : sent'[n] = sent[n]
  BY AppendProperties, LenProperties DEF IInv
<1>2. Numbers = 1 .. Len(sent) /\ Numbers' = 1 .. Len(sent) + 1
  BY <1>1 DEF Numbers
<1>3. \A n \in 1 .. Len(sent) + 1 : Free(n, sent'[n])
  BY <1>2 DEF Mild, SyncFree, Free
<1>4. \A n \in 1 .. Len(sent) : SyncFree(n)
  <2> SUFFICES ASSUME NEW n \in 1 .. Len(sent) PROVE SyncFree(n)
    OBVIOUS
  <2>1. n \in 1 .. Len(sent) + 1 /\ sent'[n] = sent[n]
    BY <1>1
  <2>2. Free(n, sent[n])
    BY <1>3, <2>1
  <2> QED
    BY <2>2 DEF Free, SyncFree
<1>5. Len(sent) + 1 \in 1 .. Len(sent) + 1
  BY <1>1
<1>6. faults <= 1
  BY <1>1 DEF Mild
<1> QED
  BY <1>1, <1>2, <1>3, <1>4, <1>5, <1>6 DEF Mild

\* A whole line costs no frame.
LEMMA WholeStaysLocal ==
  ASSUME IInv, LocalInv, NEW frame \in Frames, LengthOk(Len(frame.payload)), ReceiveWhole(frame)
  PROVE  LocalInv'
<1> DEFINE n == Len(sent) + 1
           line == Line(n, frame)
           old == Numbers \ hurt
<1>1. SUFFICES ASSUME Mild'
               PROVE  Caught(sent', Numbers' \ hurt', rx') /\ (faults' = 0 => rx'.state = "sync0")
  BY DEF LocalInv
<1>2. /\ sent' = Append(sent, frame) /\ rx' = Drain(rx, line) /\ hurt' = hurt /\ faults' = faults
  BY DEF ReceiveWhole, Receive
<1>3. /\ sent' \in Seq(Frames) /\ n \in DOMAIN sent' /\ sent'[n] = frame /\ n \in Nat /\ n # 0
      /\ Numbers = 1 .. Len(sent) /\ Numbers' = 1 .. n /\ Len(sent) \in Nat
  <2>1. /\ sent \in Seq(Frames) /\ Len(sent) \in Nat /\ sent' \in Seq(Frames)
        /\ Len(sent') = n /\ sent'[n] = frame /\ DOMAIN sent' = 1 .. n
    BY <1>2, AppendProperties, LenProperties DEF IInv
  <2> QED
    BY <2>1 DEF Numbers
<1>4. Mild
  <2>1. faults \in Nat /\ faults' = faults + 0
    BY <1>2 DEF IInv
  <2> QED
    BY <1>1, <1>2, <2>1, MildBefore
<1>5. Caught(sent, old, rx) /\ (faults = 0 => rx.state = "sync0")
  BY <1>4 DEF LocalInv
<1>6. OnTrack(n, frame, old, 0, rx)
  BY <1>2, <1>5, CaughtTracks
<1> HIDE DEF n, old
<1>7. OnTrack(n, frame, old, Len(line), rx')
  BY <1>2, <1>3, <1>6, DrainTracks
<1>8. Caught(sent', old \cup {n}, rx')
  BY <1>3, <1>7, TracksCaught
<1>9. old \cup {n} = Numbers' \ hurt'
  <2>1. n \notin hurt
    BY <1>3 DEF IInv, n
  <2>2. Numbers' = Numbers \cup {n}
    BY <1>3 DEF n
  <2> QED
    BY <1>2, <2>1, <2>2 DEF old
<1>10. ASSUME faults' = 0 PROVE rx'.state = "sync0"
  <2>1. rx.state = "sync0" /\ rx \in Parser /\ Shape(rx)
    BY <1>2, <1>5, <1>10 DEF IInv, Follows, Sound
  <2>2. Len(line) # 0
    <3>1. Len(line) = 6 + Len(frame.payload) /\ Len(frame.payload) \in Nat
      BY <1>3, LineUnits, Zenon
    <3> HIDE DEF line
    <3> QED
      BY <3>1
  <2>3. Aligned(n, frame, {}, 0, rx)
    <3>1. rx.units = <<>> /\ ~(0 >= 2) /\ 0 # 1
      BY <2>1 DEF Shape
    <3> QED
      BY <2>1, <2>2, <3>1 DEF Aligned
  <2>4. Aligned(n, frame, {}, Len(line), rx')
    BY <1>2, <1>3, <2>3, DrainAligned
  <2> QED
    BY <2>4 DEF Aligned
<1> QED
  BY <1>8, <1>9, <1>10

\* The first hurt line costs its own frame.
LEMMA HurtStaysLocal ==
  ASSUME IInv, LocalInv, NEW frame \in Frames, NEW units \in Seq(Nat), Receive(frame, units), Hurt,
         Free(Len(sent) + 1, frame) => FewPairs(units, Len(frame.payload))
  PROVE  LocalInv'
<1>1. SUFFICES ASSUME Mild'
               PROVE  Caught(sent', Numbers' \ hurt', rx') /\ (faults' = 0 => rx'.state = "sync0")
  BY DEF LocalInv
<1>2. /\ sent' = Append(sent, frame) /\ rx' = Drain(rx, units)
      /\ faults' = faults + 1 /\ hurt' = hurt \cup {Len(sent) + 1}
  BY DEF Receive, Hurt
<1>3. /\ sent' \in Seq(Frames) /\ Numbers = 1 .. Len(sent) /\ Numbers' = 1 .. Len(sent) + 1
      /\ Len(sent) \in Nat /\ faults \in Nat /\ faults' # 0 /\ faults = 0
  <2>1. /\ sent \in Seq(Frames) /\ Len(sent) \in Nat /\ sent' \in Seq(Frames)
        /\ Len(sent') = Len(sent) + 1
    BY <1>2, AppendProperties, LenProperties DEF IInv
  <2>2. faults \in Nat /\ faults' <= 1
    BY <1>1 DEF IInv, Mild
  <2> QED
    BY <1>2, <2>1, <2>2 DEF Numbers
<1>4. Mild /\ Free(Len(sent) + 1, frame)
  <2>1. faults' \in Nat /\ 1 \in Nat
    BY <1>2, <1>3
  <2> QED
    BY <1>1, <1>2, <2>1, MildBefore
<1>5. /\ rx \in Parser /\ Shape(rx) /\ rx.state = "sync0" /\ Candidate(rx) = <<>>
      /\ Numbers \ hurt \subseteq Members(rx.accepted)
  BY <1>3, <1>4 DEF LocalInv, Caught, Candidate, IInv, Follows, Sound
<1>6. rx' \in Parser /\ Shape(rx') /\ Members(rx.accepted) \subseteq Members(rx'.accepted)
  BY <1>2, <1>3, <1>5, DrainKeeps
<1>7. Numbers' \ hurt' \subseteq Members(rx'.accepted)
  <2>1. Numbers' \ hurt' \subseteq Numbers \ hurt
    BY <1>2, <1>3
  <2> QED
    BY <1>5, <1>6, <2>1
<1>8. CASE rx'.state # "frame"
  BY <1>3, <1>7, <1>8 DEF Caught
<1>9. CASE rx'.state = "frame"
  <2> DEFINE r == Replay(rx', rx'.units)
  <2>1. rx'.units \in Seq(Nat)
    BY <1>6 DEF Parser
  <2>2. Quiet(rx'.units)
    <3>1. Len(frame.payload) \in Nat
      <4>1. Len(sent) + 1 \in Nat /\ Len(sent) + 1 # 0
        BY <1>3
      <4> QED
        BY <4>1, LineUnits, Zenon
    <3>2. FewPairs(units, Len(frame.payload))
      BY <1>4
    <3> QED
      BY <1>2, <1>3, <1>5, <1>9, <3>1, <3>2, HurtEnd
  <2>3. r \in Parser /\ Shape(r) /\ r.state # "frame" /\ r.accepted = rx'.accepted
    BY <1>3, <1>6, <2>1, <2>2, QuietScan
  <2>4. Replays(sent', rx', rx'.units, r)
    BY <2>1, ReplaysIn
  <2> HIDE DEF r
  <2> QED
    BY <1>3, <1>7, <1>9, <2>3, <2>4 DEF Caught
<1> QED
  BY <1>8, <1>9

\* frames the parser takes: the sender keeps a payload within MaxPayload, and has none empty
Sendable == \A frame \in Frames : LengthOk(Len(frame.payload))

\* Every step leaves trailers rising and damage local.
LEMMA LocalKeeps ==
  ASSUME IInv, RisingInv, LocalInv, Sendable, [Next]_vars
  PROVE  RisingInv' /\ LocalInv'
<1>1. CASE UNCHANGED vars
  <2>1. sent' = sent /\ arrived' = arrived /\ hurt' = hurt /\ faults' = faults /\ rx' = rx
    BY <1>1 DEF vars
  <2>2. RisingInv'
    BY <2>1 DEF RisingInv
  <2>3. Numbers' = Numbers /\ \A n : SyncFree(n)' <=> SyncFree(n)
    BY <2>1 DEF Numbers, SyncFree
  <2>4. Mild' <=> Mild
    BY <2>1, <2>3 DEF Mild
  <2>5. LocalInv'
    BY <2>1, <2>3, <2>4 DEF LocalInv
  <2> QED
    BY <2>2, <2>5
<1>2. CASE Next
  <2>1. PICK frame \in Frames :
          ReceiveWhole(frame) \/ ReceiveDamaged(frame) \/ ReceiveShort(frame)
    BY <1>2 DEF Next
  <2> DEFINE n == Len(sent) + 1
             line == Line(n, frame)
  <2>2. n \in Nat /\ n # 0 /\ LengthOk(Len(frame.payload))
    <3>1. Len(sent) \in Nat /\ n \in Nat
      BY NextNumber
    <3> QED
      BY <3>1 DEF Sendable
  <2>3. CASE ReceiveWhole(frame)
    <3>1. line \in Seq(Nat) /\ Ended(line, n) /\ arrived' = arrived \o line
      <4>1. /\ line \in Seq(Nat) /\ line[Len(line)] = Trailer(n)
            /\ \A i \in 1 .. Len(line) - 1 : line[i] <= MaxField
        BY <2>2, LineUnits, Zenon
      <4>2. DOMAIN line = 1 .. Len(line) /\ Len(line) \in Nat
        BY <4>1, LenProperties
      <4>3. arrived' = arrived \o line
        BY <2>3 DEF ReceiveWhole, Receive
      <4> HIDE DEF line
      <4>4. \A i \in DOMAIN line : i \in 1 .. Len(line) - 1 \/ i = Len(line)
        BY <4>2
      <4> QED
        BY <4>1, <4>3, <4>4 DEF Ended
    <3> HIDE DEF line
    <3>2. RisingInv'
      BY <3>1, RisingKeeps
    <3>3. LocalInv'
      BY <2>2, <2>3, WholeStaysLocal
    <3> QED
      BY <3>2, <3>3
  <2>4. CASE ReceiveDamaged(frame)
    <3>1. PICK d \in DOMAIN line, unit \in Noise :
            /\ unit # line[d]
            /\ Receive(frame, [line EXCEPT ![d] = unit])
            /\ Hurt
      BY <2>4 DEF ReceiveDamaged
    <3> DEFINE u == [line EXCEPT ![d] = unit]
    <3>2. u \in Seq(Nat) /\ Ended(u, n)
      BY <2>2, <3>1, DamagedFacts
    <3>3. Free(n, frame) => FewPairs(u, Len(frame.payload))
      BY <2>2, DamagedPairs
    <3>4. Receive(frame, u) /\ arrived' = arrived \o u
      BY <3>1 DEF Receive
    <3> HIDE DEF u
    <3>5. RisingInv'
      BY <3>2, <3>4, RisingKeeps
    <3>6. LocalInv'
      BY <3>1, <3>2, <3>3, <3>4, HurtStaysLocal
    <3> QED
      BY <3>5, <3>6
  <2>5. CASE ReceiveShort(frame)
    <3>1. PICK first \in DOMAIN line, last \in DOMAIN line :
            /\ first <= last
            /\ Receive(frame, SubSeq(line, 1, first - 1) \o SubSeq(line, last + 1, Len(line)))
            /\ Hurt
      BY <2>5 DEF ReceiveShort
    <3> DEFINE u == SubSeq(line, 1, first - 1) \o SubSeq(line, last + 1, Len(line))
    <3>2. u \in Seq(Nat) /\ Ended(u, n)
      BY <2>2, <3>1, ShortFacts
    <3>3. Free(n, frame) => FewPairs(u, Len(frame.payload))
      BY <2>2, <3>1, ShortPairs
    <3>4. Receive(frame, u) /\ arrived' = arrived \o u
      BY <3>1 DEF Receive
    <3> HIDE DEF u
    <3>5. RisingInv'
      BY <3>2, <3>4, RisingKeeps
    <3>6. LocalInv'
      BY <3>1, <3>2, <3>3, <3>4, HurtStaysLocal
    <3> QED
      BY <3>5, <3>6
  <2> QED
    BY <2>1, <2>3, <2>4, <2>5
<1> QED
  BY <1>1, <1>2

\* At first nothing arrived and nothing is missing.
LEMMA LocalInit == ASSUME Init PROVE RisingInv /\ LocalInv
<1>1. /\ sent = <<>> /\ arrived = <<>> /\ rx.state = "sync0"
  BY DEF Init
<1>2. DOMAIN arrived = {} /\ Numbers = {}
  BY <1>1 DEF Numbers
<1> QED
  BY <1>1, <1>2 DEF RisingInv, LocalInv, Caught

\* What is caught is accepted when as many units as a frame can have have followed it.
LEMMA LocalEnough ==
  ASSUME IInv, RisingInv, LocalInv
  PROVE  DamageIsLocal
<1>1. SUFFICES ASSUME Mild, NEW n \in Numbers \ hurt, NEW k \in DOMAIN arrived,
                      arrived[k] = Trailer(n), k + FrameMax <= Len(arrived)
               PROVE  n \in Members(rx.accepted)
  BY DEF DamageIsLocal, Mild, Members
<1>2. Caught(sent, Numbers \ hurt, rx)
  BY <1>1 DEF LocalInv
<1>3. /\ rx \in Parser /\ Shape(rx) /\ rx.units \in Seq(Nat) /\ Len(rx.units) \in Nat
      /\ arrived \in Seq(Nat) /\ Len(arrived) \in Nat /\ DOMAIN arrived = 1 .. Len(arrived)
      /\ DOMAIN rx.units = 1 .. Len(rx.units) /\ MaxPayload \in Nat /\ HeaderUnits = 3
      /\ n \in Nat /\ n # 0
  <2>1. rx \in Parser /\ Shape(rx) /\ rx.units \in Seq(Nat) /\ arrived \in Seq(Nat) /\ sent \in Seq(Frames)
    BY DEF IInv, Follows, Sound, Parser
  <2>2. MaxPayload \in Nat /\ HeaderUnits = 3
    BY SizesAssumption DEF SizesAssumption, HeaderUnits
  <2>3. Len(sent) \in Nat
    BY <2>1, LenProperties
  <2>4. n \in Nat /\ n # 0
    BY <2>3 DEF Numbers
  <2> QED
    BY <2>1, <2>2, <2>4, LenProperties
<1>4. CASE rx.state # "frame"
  BY <1>2, <1>4 DEF Caught
<1>5. CASE rx.state = "frame"
  <2>1. n \in Members(rx.accepted) \/ \E i \in DOMAIN rx.units : rx.units[i] = Trailer(n)
    BY <1>2, <1>5 DEF Caught
  <2>2. ASSUME NEW i \in DOMAIN rx.units, rx.units[i] = Trailer(n) PROVE FALSE
    <3>1. Suffix(Candidate(rx), arrived) /\ Candidate(rx) = <<Sync0, Sync1>> \o rx.units
      BY <1>5 DEF IInv, Follows, Candidate
    <3>2. <<Sync0, Sync1>> \in Seq(Nat)
      BY <1>3, CandidateFacts, PairFacts
    <3>3. Suffix(rx.units, <<Sync0, Sync1>> \o rx.units)
      BY <1>3, <3>2, SuffixConcat
    <3>4. Candidate(rx) \in Seq(Nat)
      BY <1>3, CandidateFacts
    <3>5. Suffix(rx.units, arrived)
      BY <1>3, <3>1, <3>3, <3>4, SuffixTransitive
    <3>6. PICK b \in Nat : /\ Len(arrived) = b + Len(rx.units)
                           /\ \A h \in 1 .. Len(rx.units) : arrived[b + h] = rx.units[h]
      BY <3>5 DEF Suffix
    <3>7. Len(rx.units) < HeaderUnits + MaxPayload + 1
      BY <1>3 DEF Shape
    <3>8. k < b + i /\ b + i \in DOMAIN arrived
      <4>1. FrameMax = 6 + MaxPayload
        BY <1>3 DEF FrameMax
      <4>2. i \in 1 .. Len(rx.units) /\ k \in 1 .. Len(arrived)
        BY <1>3
      <4>3. /\ Len(rx.units) \in Nat /\ Len(arrived) \in Nat /\ MaxPayload \in Nat /\ b \in Nat
            /\ HeaderUnits = 3 /\ Len(arrived) = b + Len(rx.units)
            /\ k + FrameMax <= Len(arrived)
        BY <1>1, <1>3, <3>6
      <4>4. k < b + i /\ b + i \in 1 .. Len(arrived)
        BY <3>7, <4>1, <4>2, <4>3
      <4> QED
        BY <1>3, <4>4
    <3>9. arrived[b + i] = Trailer(n)
      BY <1>3, <2>2, <3>6
    <3>10. Trailer(n) > MaxField /\ Trailer(n) \in Nat
      BY <1>3 DEF Trailer, MaxField
    <3>11. arrived[k] < arrived[b + i]
      BY <3>8, <3>9, <3>10 DEF RisingInv
    <3> QED
      BY <1>1, <3>9, <3>10, <3>11
  <2> QED
    BY <2>1, <2>2
<1> QED
  BY <1>4, <1>5

-----------------------------------------------------------------------------
(* What the reference finds                                                *)

\* what the reference finds from unit i on, if f is what it finds from later units on
FoundFrom(s, f, i) ==
  IF i + HeaderUnits + 1 > Len(s) THEN <<>>
  ELSE IF s[i] # Sync0 \/ s[i + 1] # Sync1 THEN f[i + 1]
  ELSE IF ~LengthOk(s[i + 2]) THEN f[i + 2]
  ELSE LET end == i + 1 + HeaderUnits + s[i + 2] + 1
       IN IF end > Len(s) THEN <<>>
          ELSE IF Covered(sent, SubSeq(s, i + 2, end), s[end] - MaxField)
               THEN <<s[end] - MaxField>> \o f[end + 1]
               ELSE f[i + 2]

\* The reference only looks ahead.
LEMMA LooksAhead ==
  ASSUME NEW s \in Seq(Nat), NEW i \in 1 .. Len(s) + 1, NEW f, NEW g,
         \A j \in i + 1 .. Len(s) + 1 : f[j] = g[j]
  PROVE  FoundFrom(s, f, i) = FoundFrom(s, g, i)
<1> DEFINE end == i + 1 + HeaderUnits + s[i + 2] + 1
           len == Len(s)
<1>1. len \in Nat /\ HeaderUnits = 3 /\ \A j \in 1 .. len : s[j] \in Nat
  BY LenProperties, ElementOfSeq DEF HeaderUnits
<1>2. i \in 1 .. len + 1 /\ \A j \in i + 1 .. len + 1 : f[j] = g[j]
  OBVIOUS
<1> HIDE DEF len
<1>3. CASE i + HeaderUnits + 1 > len
  BY <1>3 DEF FoundFrom, len
<1>4. CASE ~(i + HeaderUnits + 1 > len)
  <2>1. i + 1 \in i + 1 .. len + 1 /\ i + 2 \in i + 1 .. len + 1 /\ s[i + 2] \in Nat
    <3>1. i + 2 \in 1 .. len
      BY <1>1, <1>2, <1>4
    <3> QED
      BY <1>1, <1>2, <3>1
  <2>2. ~(end > len) => end + 1 \in i + 1 .. len + 1
    <3> DEFINE size == s[i + 2]
    <3>1. size \in Nat /\ HeaderUnits = 3 /\ len \in Nat /\ i \in Nat
      BY <1>1, <1>2, <2>1
    <3> HIDE DEF size
    <3>2. i < i + 1 + HeaderUnits + size + 1
      BY <3>1
    <3> QED
      BY <3>1, <3>2, SMTT(30) DEF size
  <2>3. f[i + 1] = g[i + 1] /\ f[i + 2] = g[i + 2] /\ (~(end > len) => f[end + 1] = g[end + 1])
    BY <1>2, <2>1, <2>2
  <2> QED
    BY <2>3, Zenon DEF FoundFrom, len
<1> QED
  BY <1>3, <1>4

\* What the reference finds is what it finds from the first unit on.
LEMMA ReferenceIs ==
  ASSUME NEW s \in Seq(Nat)
  PROVE  \E f : /\ \A i \in 1 .. Len(s) + 1 : f[i] = FoundFrom(s, f, i)
                /\ Reference(s) = f[1]
<1> DEFINE len == Len(s)
           Table(k, f) == f = [i \in len + 1 - k .. len + 1 |-> FoundFrom(s, f, i)]
           Missing == {k \in 0 .. len : ~\E f : Table(k, f)}
<1>1. len \in Nat
  BY LenProperties
<1>2. \A i \in 1 .. len + 1 : \A f, g : (\A j \in i + 1 .. len + 1 : f[j] = g[j])
                                     => FoundFrom(s, f, i) = FoundFrom(s, g, i)
  BY LooksAhead
<1> HIDE DEF len
<1>3. Missing = {}
  <2> SUFFICES ASSUME Missing # {} PROVE FALSE
    OBVIOUS
  <2>1. PICK k \in Missing : \A m \in Missing : k <= m
    <3>1. Missing \in SUBSET Nat
      BY <1>1
    <3> HIDE DEF Missing
    <3> QED
      BY <3>1, LeastNumber
  <2>2. k \in 0 .. len /\ ~\E f : Table(k, f)
    BY <2>1
  <2> DEFINE here == len + 1 - k
  <2>3. here \in 1 .. len + 1
    BY <1>1, <2>2
  <2>4. PICK g : k # 0 => Table(k - 1, g)
    <3>1. CASE k = 0
      BY <3>1
    <3>2. CASE k # 0
      <4>1. k - 1 \in 0 .. len /\ ~(k <= k - 1)
        BY <1>1, <2>2, <3>2
      <4> QED
        BY <2>1, <4>1
    <3> QED
      BY <3>1, <3>2
  <2> HIDE DEF here, Missing
  <2> DEFINE f == [i \in here .. len + 1 |-> IF i = here THEN FoundFrom(s, g, here) ELSE g[i]]
  <2>5. \A i \in here + 1 .. len + 1 : g[i] = FoundFrom(s, g, i)
    <3>1. CASE k = 0
      <4>1. here + 1 .. len + 1 = {}
        BY <1>1, <3>1 DEF here
      <4> QED
        BY <4>1
    <3>2. CASE k # 0
      <4>1. here + 1 = len + 1 - (k - 1)
        BY <1>1, <2>2 DEF here
      <4>2. g = [i \in here + 1 .. len + 1 |-> FoundFrom(s, g, i)]
        BY <2>4, <3>2, <4>1
      <4> HIDE DEF f
      <4> QED
        BY <4>2, Zenon
    <3> QED
      BY <3>1, <3>2
  <2>6. /\ f[here] = FoundFrom(s, g, here) /\ DOMAIN f = here .. len + 1
        /\ \A i \in here + 1 .. len + 1 : f[i] = g[i]
    <3>1. here \in here .. len + 1 /\ \A i \in here + 1 .. len + 1 : i \in here .. len + 1 /\ i # here
      BY <1>1, <2>3
    <3> QED
      BY <3>1
  <2>7. f = [i \in here .. len + 1 |-> f[i]]
    OBVIOUS
  <2> HIDE DEF f
  <2>8. ASSUME NEW i \in here .. len + 1 PROVE f[i] = FoundFrom(s, f, i)
    <3>1. i \in 1 .. len + 1 /\ \A j \in i + 1 .. len + 1 : j \in here + 1 .. len + 1
      BY <1>1, <2>3
    <3>2. \A j \in i + 1 .. len + 1 : g[j] = f[j]
      BY <2>6, <3>1
    <3>3. FoundFrom(s, g, i) = FoundFrom(s, f, i)
      BY <1>2, <3>1, <3>2
    <3>4. CASE i = here
      BY <2>6, <3>3, <3>4
    <3>5. CASE i # here
      <4>1. i \in here + 1 .. len + 1
        BY <2>3, <3>5
      <4> QED
        BY <2>5, <2>6, <3>3, <4>1
    <3> QED
      BY <3>4, <3>5
  <2>9. Table(k, f)
    BY <2>7, <2>8 DEF here
  <2> HIDE DEF Table
  <2> QED
    BY <2>2, <2>9
<1>4. \E f : Table(len, f)
  <2>1. len \in 0 .. len
    BY <1>1
  <2> HIDE DEF Table
  <2> QED
    BY <1>3, <2>1
<1> DEFINE chosen == CHOOSE f : f = [i \in 1 .. Len(s) + 1 |-> FoundFrom(s, f, i)]
<1>5. chosen = [i \in 1 .. Len(s) + 1 |-> FoundFrom(s, chosen, i)]
  <2>1. len + 1 - len = 1
    BY <1>1
  <2>2. \E f : f = [i \in 1 .. Len(s) + 1 |-> FoundFrom(s, f, i)]
    BY <1>4, <2>1 DEF len
  <2> QED
    BY <2>2
<1>6. Reference(s) = chosen[1]
  BY DEF Reference, FoundFrom
<1> HIDE DEF chosen
<1> QED
  BY <1>5, <1>6

\* a step of the reference, decided within s: it goes from unit i on from unit j,
\* and has found more where it had found acc
Goes(frames, s, i, acc, j, more) ==
  LET end == i + 1 + HeaderUnits + s[i + 2] + 1
      n == s[end] - MaxField
      good == Covered(frames, SubSeq(s, i + 2, end), n)
  IN \/ /\ s[i] # Sync0 \/ (i + 1 <= Len(s) /\ s[i + 1] # Sync1)
        /\ j = i + 1 /\ more = acc
     \/ /\ i + HeaderUnits + 1 <= Len(s) /\ s[i] = Sync0 /\ s[i + 1] = Sync1
        /\ \/ ~LengthOk(s[i + 2]) /\ j = i + 2 /\ more = acc
           \/ LengthOk(s[i + 2]) /\ end <= Len(s) /\ ~good /\ j = i + 2 /\ more = acc
           \/ LengthOk(s[i + 2]) /\ end <= Len(s) /\ good /\ j = end + 1 /\ more = Append(acc, n)

\* it goes from unit a, with old found, to unit i, with acc found
Closed(frames, s, R) ==
  \A i \in 1 .. Len(s) : \A acc, j, more :
    <<i, acc>> \in R /\ Goes(frames, s, i, acc, j, more) => <<j, more>> \in R
Reaches(frames, s, a, old, i, acc) ==
  \A R : <<a, old>> \in R /\ Closed(frames, s, R) => <<i, acc>> \in R

\* The reference goes step by step.
LEMMA ReachSteps ==
  ASSUME NEW frames, NEW s, NEW a, NEW old, NEW i, NEW acc
  PROVE  /\ Reaches(frames, s, a, old, a, old)
         /\ Reaches(frames, s, a, old, i, acc) =>
              /\ \A j, more : i \in 1 .. Len(s) /\ Goes(frames, s, i, acc, j, more)
                                => Reaches(frames, s, a, old, j, more)
              /\ \A j, more : Reaches(frames, s, i, acc, j, more)
                                => Reaches(frames, s, a, old, j, more)
BY Zenon DEF Reaches, Closed

\* Over units that begin no sync word it goes one by one.
LEMMA ReachesOver ==
  ASSUME NEW frames, NEW s \in Seq(Nat), NEW a, NEW old, NEW i \in Nat, NEW acc, NEW j \in Nat,
         i # 0, i <= j, j <= Len(s) + 1, Reaches(frames, s, a, old, i, acc),
         \A h \in i .. j - 1 : s[h] # Sync0 \/ (h + 1 <= Len(s) /\ s[h + 1] # Sync1)
  PROVE  Reaches(frames, s, a, old, j, acc)
<1> DEFINE Missed == {h \in i .. j : ~Reaches(frames, s, a, old, h, acc)}
<1>1. Len(s) \in Nat
  BY LenProperties
<1>2. SUFFICES ASSUME Missed # {} PROVE FALSE
  <2>1. j \in i .. j
    OBVIOUS
  <2> QED
    BY <2>1
<1>3. PICK h \in Missed : \A m \in Missed : h <= m
  <2>1. Missed \in SUBSET Nat
    OBVIOUS
  <2> HIDE DEF Missed
  <2> QED
    BY <1>2, <2>1, LeastNumber
<1>4. h \in i .. j /\ ~Reaches(frames, s, a, old, h, acc)
  BY <1>3
<1>5. h # i
  BY <1>4
<1>6. h - 1 \in i .. j - 1 /\ h - 1 \in i .. j /\ ~(h <= h - 1) /\ h - 1 \in 1 .. Len(s)
      /\ (h - 1) + 1 = h
  BY <1>1, <1>4, <1>5
<1>7. Reaches(frames, s, a, old, h - 1, acc)
  BY <1>3, <1>6
<1>8. Goes(frames, s, h - 1, acc, h, acc)
  <2>1. s[h - 1] # Sync0 \/ ((h - 1) + 1 <= Len(s) /\ s[(h - 1) + 1] # Sync1)
    BY <1>6
  <2> QED
    BY <1>6, <2>1 DEF Goes
<1> QED
  BY <1>4, <1>6, <1>7, <1>8, ReachSteps

\* What was decided stays so when more arrives and more is sent.
LEMMA GoesOn ==
  ASSUME NEW frames \in Seq(Frames), NEW frame \in Frames, NEW s \in Seq(Nat), NEW units \in Seq(Nat),
         \A x \in 1 .. Len(s) : s[x] <= MaxField + Len(frames),
         NEW i \in 1 .. Len(s), NEW acc, NEW j, NEW more, Goes(frames, s, i, acc, j, more)
  PROVE  Goes(Append(frames, frame), s \o units, i, acc, j, more)
<1> DEFINE t == s \o units
           all == Append(frames, frame)
           end == i + 1 + HeaderUnits + s[i + 2] + 1
           n == s[end] - MaxField
<1>1. /\ t \in Seq(Nat) /\ Len(t) = Len(s) + Len(units) /\ Len(s) \in Nat /\ Len(units) \in Nat
      /\ \A x \in 1 .. Len(s) : t[x] = s[x]
  BY ConcatFacts
<1>2. \A x \in 1 .. Len(s) : s[x] \in Nat
  BY ElementOfSeq
<1>3. /\ all \in Seq(Frames) /\ Len(frames) \in Nat /\ DOMAIN frames = 1 .. Len(frames)
      /\ DOMAIN all = 1 .. Len(frames) + 1 /\ \A m \in 1 .. Len(frames) : all[m] = frames[m]
  BY AppendProperties, LenProperties
<1> HIDE DEF t, all
<1>4. Len(s) <= Len(t) /\ HeaderUnits = 3
  BY <1>1 DEF HeaderUnits
<1>5. CASE s[i] # Sync0 \/ (i + 1 <= Len(s) /\ s[i + 1] # Sync1)
  <2>1. i + 1 <= Len(s) => i + 1 \in 1 .. Len(s)
    BY <1>1
  <2>2. t[i] = s[i] /\ (i + 1 <= Len(s) => t[i + 1] = s[i + 1] /\ i + 1 <= Len(t))
    BY <1>1, <1>4, <2>1
  <2>3. t[i] # Sync0 \/ (i + 1 <= Len(t) /\ t[i + 1] # Sync1)
    BY <1>5, <2>2
  <2>4. j = i + 1 /\ more = acc
    <3>1. ~(i + HeaderUnits + 1 <= Len(s) /\ s[i] = Sync0 /\ s[i + 1] = Sync1)
      <4> SUFFICES ASSUME i + HeaderUnits + 1 <= Len(s), s[i] = Sync0, s[i + 1] = Sync1 PROVE FALSE
        OBVIOUS
      <4> QED
        BY <1>5
    <3> QED
      BY <3>1 DEF Goes
  <2> QED
    BY <2>3, <2>4 DEF Goes, t
<1>6. CASE i + HeaderUnits + 1 <= Len(s) /\ s[i] = Sync0 /\ s[i + 1] = Sync1
  <2>1. i + 1 \in 1 .. Len(s) /\ i + 2 \in 1 .. Len(s) /\ i + HeaderUnits + 1 <= Len(t)
        /\ i + 1 <= Len(s)
    <3>1. /\ i \in 1 .. Len(s) /\ Len(s) \in Nat /\ Len(t) \in Nat /\ Len(s) <= Len(t)
          /\ HeaderUnits = 3 /\ i + HeaderUnits + 1 <= Len(s)
      BY <1>1, <1>4, <1>6, LenProperties
    <3> QED
      BY <3>1
  <2>2. t[i] = Sync0 /\ t[i + 1] = Sync1 /\ t[i + 2] = s[i + 2] /\ s[i + 2] \in Nat
    BY <1>1, <1>2, <1>6, <2>1
  <2>3. \/ ~LengthOk(s[i + 2]) /\ j = i + 2 /\ more = acc
        \/ LengthOk(s[i + 2]) /\ end <= Len(s) /\ ~Covered(frames, SubSeq(s, i + 2, end), n)
           /\ j = i + 2 /\ more = acc
        \/ LengthOk(s[i + 2]) /\ end <= Len(s) /\ Covered(frames, SubSeq(s, i + 2, end), n)
           /\ j = end + 1 /\ more = Append(acc, n)
    BY <1>6, <2>1 DEF Goes
  <2>4. ASSUME end <= Len(s)
        PROVE  /\ end <= Len(t) /\ t[end] = s[end]
               /\ Covered(all, SubSeq(t, i + 2, end), n) <=> Covered(frames, SubSeq(s, i + 2, end), n)
    <3>1. end \in Nat /\ end \in 1 .. Len(s) /\ i + 2 <= end
      <4> DEFINE size == s[i + 2]
      <4>1. size \in Nat /\ i \in Nat /\ HeaderUnits = 3 /\ Len(s) \in Nat
        BY <1>1, <1>4, <2>2
      <4> HIDE DEF size
      <4>2. i + 1 + HeaderUnits + size + 1 \in Nat /\ 1 <= i + 1 + HeaderUnits + size + 1
            /\ i + 2 <= i + 1 + HeaderUnits + size + 1
        BY <4>1
      <4> QED
        BY <2>4, <4>1, <4>2 DEF size
    <3> HIDE DEF end
    <3>2. SubSeq(t, i + 2, end) = SubSeq(s, i + 2, end)
      <4>1. \A x \in i + 2 .. end : x \in 1 .. Len(s) /\ x \in 1 .. Len(t)
        BY <1>1, <1>4, <3>1, SMTT(30)
      <4> DEFINE b == i + 2
      <4>2. b \in Int /\ end \in Int /\ b \in Nat /\ b <= end
        BY <3>1
      <4>3. \A x \in b .. end : s[x] \in Nat /\ t[x] = s[x]
        BY <1>1, <1>2, <4>1
      <4> HIDE DEF b
      <4>4. /\ SubSeq(s, b, end) \in Seq(Nat)
            /\ Len(SubSeq(s, b, end)) = IF b <= end THEN end - b + 1 ELSE 0
            /\ \A x \in 1 .. end - b + 1 : SubSeq(s, b, end)[x] = s[b + x - 1]
        BY <4>2, <4>3, SubSeqProperties
      <4>5. /\ SubSeq(t, b, end) \in Seq(Nat)
            /\ Len(SubSeq(t, b, end)) = IF b <= end THEN end - b + 1 ELSE 0
            /\ \A x \in 1 .. end - b + 1 : SubSeq(t, b, end)[x] = t[b + x - 1]
        <5>1. \A x \in b .. end : t[x] \in Nat
          BY <4>3
        <5> QED
          BY <4>2, <5>1, SubSeqProperties
      <4>6. \A x \in 1 .. end - b + 1 : b + x - 1 \in b .. end
        BY <4>2
      <4>7. \A x \in 1 .. end - b + 1 : SubSeq(t, b, end)[x] = SubSeq(s, b, end)[x]
        BY <4>3, <4>4, <4>5, <4>6
      <4>8. Len(SubSeq(s, b, end)) = end - b + 1 /\ Len(SubSeq(t, b, end)) = end - b + 1
        BY <4>2, <4>4, <4>5
      <4>9. SubSeq(t, b, end) = SubSeq(s, b, end)
        BY <4>4, <4>5, <4>7, <4>8, SeqEqual
      <4> QED
        BY <4>9 DEF b
    <3>3. n \in 1 .. Len(frames) + 1 <=> n \in 1 .. Len(frames)
      <4>1. s[end] \in Nat /\ s[end] <= MaxField + Len(frames) /\ MaxField \in Nat
        BY <1>2, <3>1 DEF MaxField
      <4> QED
        BY <1>3, <4>1
    <3>4. t[end] = s[end] /\ end <= Len(t)
      BY <1>1, <1>4, <3>1
    <3> HIDE DEF n
    <3> QED
      BY <1>3, <3>2, <3>3, <3>4 DEF Covered
  <2>5. i + 1 + HeaderUnits + t[i + 2] + 1 = end
    BY <2>2
  <2> HIDE DEF end, n
  <2>6. i + HeaderUnits + 1 <= Len(t) /\ t[i] = Sync0 /\ t[i + 1] = Sync1
    BY <2>1, <2>2
  <2>7. CASE ~LengthOk(s[i + 2]) /\ j = i + 2 /\ more = acc
    BY <2>2, <2>6, <2>7 DEF Goes, t
  <2>8. CASE /\ LengthOk(s[i + 2]) /\ end <= Len(s) /\ ~Covered(frames, SubSeq(s, i + 2, end), n)
             /\ j = i + 2 /\ more = acc
    <3>1. /\ LengthOk(t[i + 2]) /\ end <= Len(t)
          /\ ~Covered(all, SubSeq(t, i + 2, end), t[end] - MaxField)
      BY <2>2, <2>4, <2>8 DEF n
    <3> QED
      BY <2>5, <2>6, <2>8, <3>1 DEF Goes, t, all
  <2>9. CASE /\ LengthOk(s[i + 2]) /\ end <= Len(s) /\ Covered(frames, SubSeq(s, i + 2, end), n)
             /\ j = end + 1 /\ more = Append(acc, n)
    <3>1. /\ LengthOk(t[i + 2]) /\ end <= Len(t)
          /\ Covered(all, SubSeq(t, i + 2, end), t[end] - MaxField)
          /\ more = Append(acc, t[end] - MaxField)
      BY <2>2, <2>4, <2>9 DEF n
    <3> QED
      BY <2>5, <2>6, <2>9, <3>1 DEF Goes, t, all
  <2> QED
    BY <2>3, <2>7, <2>8, <2>9
<1> QED
  BY <1>5, <1>6 DEF Goes

\* So does what was reached.
LEMMA ReachesOn ==
  ASSUME NEW frames \in Seq(Frames), NEW frame \in Frames, NEW s \in Seq(Nat), NEW units \in Seq(Nat),
         \A x \in 1 .. Len(s) : s[x] <= MaxField + Len(frames),
         NEW a, NEW old, NEW i, NEW acc, Reaches(frames, s, a, old, i, acc)
  PROVE  Reaches(Append(frames, frame), s \o units, a, old, i, acc)
<1> SUFFICES ASSUME NEW R, <<a, old>> \in R, Closed(Append(frames, frame), s \o units, R)
             PROVE  <<i, acc>> \in R
  BY DEF Reaches
<1>1. Closed(frames, s, R)
  <2> SUFFICES ASSUME NEW b \in 1 .. Len(s), NEW had, NEW j, NEW more, <<b, had>> \in R,
                      Goes(frames, s, b, had, j, more)
               PROVE  <<j, more>> \in R
    BY DEF Closed
  <2>1. Goes(Append(frames, frame), s \o units, b, had, j, more)
    BY GoesOn
  <2>2. b \in 1 .. Len(s \o units)
    <3>1. Len(s \o units) = Len(s) + Len(units) /\ Len(s) \in Nat /\ Len(units) \in Nat
      BY ConcatFacts
    <3> QED
      BY <3>1
  <2> QED
    BY <2>1, <2>2 DEF Closed
<1> QED
  BY <1>1 DEF Reaches

\* what the parser holds of the first k units of s: those after the first b
Held(s, k, b, p) ==
  \/ p.state = "sync0" /\ b = k
  \/ p.state = "sync1" /\ b + 1 = k /\ s[b + 1] = Sync0
  \/ /\ p.state = "frame" /\ b + 2 + Len(p.units) = k
     /\ s[b + 1] = Sync0 /\ s[b + 2] = Sync1
     /\ \A c \in 1 .. Len(p.units) : s[b + 2 + c] = p.units[c]

\* the parser read k units of s, and the reference that went from unit a, with old
\* found, found what it accepted and is where its candidate begins
Tracks(frames, s, k, a, old, p) ==
  /\ p \in Parser /\ Shape(p)
  /\ \E b \in Nat : Held(s, k, b, p) /\ a <= b + 1 /\ Reaches(frames, s, a, old, b + 1, p.accepted)

\* What the reference finds are numbers.
LEMMA FoundNumbers ==
  ASSUME NEW s \in Seq(Nat), sent \in Seq(Frames), NEW f,
         \A i \in 1 .. Len(s) + 1 : f[i] = FoundFrom(s, f, i)
  PROVE  \A i \in 1 .. Len(s) + 1 : f[i] \in Seq(Nat)
<1> DEFINE len == Len(s)
           Wrong == {k \in 0 .. len : f[len + 1 - k] \notin Seq(Nat)}
<1>1. len \in Nat /\ HeaderUnits = 3 /\ \A j \in 1 .. len : s[j] \in Nat
  BY LenProperties, ElementOfSeq DEF HeaderUnits
<1>2. \A i \in 1 .. len + 1 : f[i] = FoundFrom(s, f, i)
  OBVIOUS
<1> HIDE DEF len
<1>3. Wrong = {}
  <2> SUFFICES ASSUME Wrong # {} PROVE FALSE
    OBVIOUS
  <2>1. PICK k \in Wrong : \A m \in Wrong : k <= m
    <3>1. Wrong \in SUBSET Nat
      BY <1>1
    <3> HIDE DEF Wrong
    <3> QED
      BY <3>1, LeastNumber
  <2>2. k \in 0 .. len /\ f[len + 1 - k] \notin Seq(Nat)
    BY <2>1
  <2> DEFINE i == len + 1 - k
             end == i + 1 + HeaderUnits + s[i + 2] + 1
             n == s[end] - MaxField
  <2>3. i \in 1 .. len + 1
    BY <1>1, <2>2
  <2>4. ASSUME NEW j \in i + 1 .. len + 1 PROVE f[j] \in Seq(Nat)
    <3> DEFINE m == len + 1 - j
    <3>1. m \in 0 .. len /\ ~(k <= m) /\ len + 1 - m = j
      BY <1>1, <2>2, <2>3
    <3> HIDE DEF m
    <3>2. m \notin Wrong
      BY <2>1, <3>1
    <3> QED
      BY <3>1, <3>2
  <2>5. f[i] = FoundFrom(s, f, i) /\ f[i] \notin Seq(Nat)
    BY <1>2, <2>2, <2>3
  <2> HIDE DEF i
  <2>6. ~(i + HeaderUnits + 1 > len)
    <3>1. <<>> \in Seq(Nat)
      BY EmptySeq
    <3> QED
      BY <2>5, <3>1 DEF FoundFrom, len
  <2>7. i + 1 \in i + 1 .. len + 1 /\ i + 2 \in i + 1 .. len + 1 /\ i + 2 \in 1 .. len
    BY <1>1, <2>3, <2>6
  <2>8. f[i + 1] \in Seq(Nat) /\ f[i + 2] \in Seq(Nat)
    BY <2>4, <2>7
  <2>9. /\ end <= len /\ Covered(sent, SubSeq(s, i + 2, end), n)
        /\ f[i] = <<n>> \o f[end + 1]
    <3>1. <<>> \in Seq(Nat)
      BY EmptySeq
    <3>2. ~(end > len)
      BY <2>5, <2>6, <2>8, <3>1, Zenon DEF FoundFrom, len
    <3>3. Covered(sent, SubSeq(s, i + 2, end), n) /\ f[i] = <<n>> \o f[end + 1]
      BY <2>5, <2>6, <2>8, <3>1, <3>2, Zenon DEF FoundFrom, len
    <3>4. end \in Nat
      <4>1. s[i + 2] \in Nat
        BY <1>1, <2>7
      <4> QED
        BY <1>1, <2>3, <4>1
    <3> HIDE DEF end
    <3> QED
      BY <1>1, <3>2, <3>3, <3>4
  <2>10. end + 1 \in i + 1 .. len + 1
    <3> DEFINE size == s[i + 2]
    <3>1. size \in Nat /\ HeaderUnits = 3 /\ len \in Nat /\ i \in Nat
      BY <1>1, <2>3, <2>7
    <3> HIDE DEF size
    <3>2. i < i + 1 + HeaderUnits + size + 1 /\ i + 1 + HeaderUnits + size + 1 \in Nat
      BY <3>1
    <3>3. i + 1 + HeaderUnits + size + 1 <= len
      BY <2>9 DEF size
    <3>4. (i + 1 + HeaderUnits + size + 1) + 1 \in i + 1 .. len + 1
      BY <3>1, <3>2, <3>3
    <3> QED
      BY <3>4 DEF size
  <2>11. n \in Nat
    <3>1. n \in DOMAIN sent
      BY <2>9 DEF Covered
    <3> HIDE DEF n
    <3> QED
      BY <3>1, LinesAreUnits
  <2> HIDE DEF n
  <2>12. f[end + 1] \in Seq(Nat) /\ <<n>> \in Seq(Nat)
    BY <2>4, <2>10, <2>11
  <2> DEFINE rest == f[end + 1]
             first == <<n>>
  <2>13. first \in Seq(Nat) /\ rest \in Seq(Nat)
    BY <2>12
  <2> HIDE DEF first, rest
  <2>14. first \o rest \in Seq(Nat)
    BY <2>13, ConcatProperties
  <2> QED
    BY <2>5, <2>9, <2>14 DEF first, rest
<1>4. ASSUME NEW i \in 1 .. len + 1 PROVE f[i] \in Seq(Nat)
  <2> DEFINE k == len + 1 - i
  <2>1. k \in 0 .. len /\ len + 1 - k = i
    BY <1>1
  <2> HIDE DEF k
  <2> QED
    BY <1>3, <2>1
<1> QED
  BY <1>4 DEF len

\* A sequence goes on with a number.
LEMMA ConcatPush ==
  ASSUME NEW s \in Seq(Nat), NEW n \in Nat, NEW t \in Seq(Nat)
  PROVE  s \o (<<n>> \o t) = Append(s, n) \o t
<1>1. <<n>> \in Seq(Nat)
  OBVIOUS
<1>2. Append(s, n) = s \o <<n>>
  BY AppendIsConcat
<1>3. (s \o <<n>>) \o t = s \o (<<n>> \o t)
  BY <1>1, ConcatAssociative
<1> QED
  BY <1>2, <1>3

\* the reference finds acc, and what it finds from unit i on
Finds(s, i, acc) ==
  \E f : /\ \A x \in 1 .. Len(s) + 1 : f[x] = FoundFrom(s, f, x)
        /\ i \in 1 .. Len(s) + 1 /\ acc \in Seq(Nat) /\ Reference(s) = acc \o f[i]

\* Where the reference goes it finds what it had not found before.
LEMMA ReferenceReached ==
  ASSUME NEW s \in Seq(Nat), sent \in Seq(Frames), NEW i, NEW acc,
         Reaches(sent, s, 1, <<>>, i, acc)
  PROVE  Finds(s, i, acc)
<1>1. PICK f : /\ \A x \in 1 .. Len(s) + 1 : f[x] = FoundFrom(s, f, x)
               /\ Reference(s) = f[1]
  BY ReferenceIs
<1>2. \A x \in 1 .. Len(s) + 1 : f[x] \in Seq(Nat)
  BY <1>1, FoundNumbers
<1>3. Len(s) \in Nat /\ HeaderUnits = 3 /\ \A x \in 1 .. Len(s) : s[x] \in Nat
  BY LenProperties, ElementOfSeq DEF HeaderUnits
<1> DEFINE R == {e \in (1 .. Len(s) + 1) \X Seq(Nat) : f[1] = e[2] \o f[e[1]]}
<1>4. <<1, <<>>>> \in R
  <2>1. 1 \in 1 .. Len(s) + 1 /\ <<>> \in Seq(Nat)
    BY <1>3, EmptySeq
  <2>2. <<>> \o f[1] = f[1]
    BY <1>2, <2>1, ConcatEmptySeq
  <2> QED
    BY <2>1, <2>2
<1>5. Closed(sent, s, R)
  <2> SUFFICES ASSUME NEW x \in 1 .. Len(s), NEW had, NEW j, NEW more, <<x, had>> \in R,
                      Goes(sent, s, x, had, j, more)
               PROVE  <<j, more>> \in R
    BY DEF Closed
  <2>1. x \in 1 .. Len(s) + 1 /\ had \in Seq(Nat) /\ f[1] = had \o f[x]
    OBVIOUS
  <2>2. SUFFICES j \in 1 .. Len(s) + 1 /\ more \in Seq(Nat) /\ f[1] = more \o f[j]
    OBVIOUS
  <2> HIDE DEF R
  <2> DEFINE end == x + 1 + HeaderUnits + s[x + 2] + 1
             n == s[end] - MaxField
             good == Covered(sent, SubSeq(s, x + 2, end), n)
  <2>3. f[x] = FoundFrom(s, f, x)
    BY <1>1, <2>1
  <2>4. CASE /\ s[x] # Sync0 \/ (x + 1 <= Len(s) /\ s[x + 1] # Sync1)
             /\ j = x + 1 /\ more = had
    <3>1. j \in 1 .. Len(s) + 1
      BY <1>3, <2>4
    <3>2. f[x] = f[j]
      <4>1. CASE x + HeaderUnits + 1 > Len(s)
        <5>1. f[x] = <<>>
          BY <2>3, <4>1 DEF FoundFrom
        <5>2. j + HeaderUnits + 1 > Len(s)
          BY <1>3, <2>4, <4>1
        <5>3. f[j] = FoundFrom(s, f, j)
          BY <1>1, <3>1
        <5> QED
          BY <5>1, <5>2, <5>3 DEF FoundFrom
      <4>2. CASE ~(x + HeaderUnits + 1 > Len(s))
        BY <2>3, <2>4, <4>2 DEF FoundFrom
      <4> QED
        BY <4>1, <4>2
    <3> QED
      BY <2>1, <2>4, <3>1, <3>2
  <2>5. CASE /\ x + HeaderUnits + 1 <= Len(s) /\ s[x] = Sync0 /\ s[x + 1] = Sync1
             /\ \/ ~LengthOk(s[x + 2]) /\ j = x + 2 /\ more = had
                \/ LengthOk(s[x + 2]) /\ end <= Len(s) /\ ~good /\ j = x + 2 /\ more = had
                \/ LengthOk(s[x + 2]) /\ end <= Len(s) /\ good /\ j = end + 1 /\ more = Append(had, n)
    <3>1. /\ ~(x + HeaderUnits + 1 > Len(s)) /\ ~(s[x] # Sync0 \/ s[x + 1] # Sync1)
          /\ x + 2 \in 1 .. Len(s) + 1 /\ s[x + 2] \in Nat
      <4>1. x + 2 \in 1 .. Len(s)
        BY <1>3, <2>5
      <4>2. x + 2 \in 1 .. Len(s) + 1 /\ ~(x + HeaderUnits + 1 > Len(s))
        <5>1. Len(s) \in Nat /\ HeaderUnits = 3 /\ x \in Nat /\ x + HeaderUnits + 1 <= Len(s)
          BY <1>3, <2>5
        <5> QED
          BY <4>1, <5>1
      <4> QED
        BY <1>3, <2>5, <4>1, <4>2
    <3>2. end \in Nat /\ (end <= Len(s) => ~(end > Len(s)))
      <4>1. end \in Nat
        <5> DEFINE size == s[x + 2]
        <5>1. size \in Nat /\ HeaderUnits = 3 /\ x \in Nat
          BY <1>3, <3>1
        <5> HIDE DEF size
        <5>2. x + 1 + HeaderUnits + size + 1 \in Nat
          BY <5>1
        <5> QED
          BY <5>2 DEF size
      <4> HIDE DEF end
      <4> QED
        BY <1>3, <4>1
    <3>3. CASE /\ j = x + 2 /\ more = had
               /\ ~LengthOk(s[x + 2]) \/ (LengthOk(s[x + 2]) /\ end <= Len(s) /\ ~good)
      <4>1. f[x] = f[j]
        BY <2>3, <3>1, <3>2, <3>3, Zenon DEF FoundFrom
      <4> QED
        BY <2>1, <3>1, <3>3, <4>1
    <3>4. CASE LengthOk(s[x + 2]) /\ end <= Len(s) /\ good /\ j = end + 1 /\ more = Append(had, n)
      <4>1. f[x] = <<n>> \o f[j]
        BY <2>3, <3>1, <3>2, <3>4, Zenon DEF FoundFrom
      <4>2. n \in Nat
        <5>1. n \in DOMAIN sent
          BY <3>4 DEF Covered
        <5> HIDE DEF n
        <5> QED
          BY <5>1, LinesAreUnits
      <4> HIDE DEF n, good
      <4>3. j \in 1 .. Len(s) + 1
        <5> HIDE DEF end
        <5> QED
          BY <1>3, <3>2, <3>4
      <4> HIDE DEF end
      <4> DEFINE rest == f[j]
      <4>4. rest \in Seq(Nat)
        BY <1>2, <4>3
      <4> HIDE DEF rest
      <4>5. had \o (<<n>> \o rest) = Append(had, n) \o rest
        BY <2>1, <4>2, <4>4, ConcatPush
      <4>6. Append(had, n) \in Seq(Nat)
        BY <2>1, <4>2, AppendFacts
      <4> QED
        BY <2>1, <3>4, <4>1, <4>3, <4>5, <4>6 DEF rest
    <3> QED
      BY <2>5, <3>3, <3>4
  <2> QED
    BY <2>4, <2>5 DEF Goes
<1>6. <<i, acc>> \in R
  BY <1>4, <1>5 DEF Reaches
<1>7. i \in 1 .. Len(s) + 1 /\ acc \in Seq(Nat) /\ f[1] = acc \o f[i]
  BY <1>6
<1> QED
  BY <1>1, <1>7 DEF Finds

\* From an open candidate on the reference finds nothing yet.
LEMMA NoneYet ==
  ASSUME NEW s \in Seq(Nat), NEW p \in Parser, Shape(p), NEW b \in Nat, Held(s, Len(s), b, p), NEW f
  PROVE  FoundFrom(s, f, b + 1) = <<>>
<1> DEFINE i == b + 1
           size == s[i + 2]
           end == i + 1 + HeaderUnits + size + 1
<1>1. Len(s) \in Nat /\ HeaderUnits = 3 /\ p.units \in Seq(Nat) /\ Len(p.units) \in Nat
  BY LenProperties DEF HeaderUnits, Parser
<1>2. CASE i + HeaderUnits + 1 > Len(s)
  BY <1>2 DEF FoundFrom
<1>3. CASE ~(i + HeaderUnits + 1 > Len(s))
  <2>1. p.state = "frame"
    BY <1>1, <1>3 DEF Held
  <2>2. /\ b + 2 + Len(p.units) = Len(s) /\ s[b + 1] = Sync0 /\ s[b + 2] = Sync1
        /\ \A c \in 1 .. Len(p.units) : s[b + 2 + c] = p.units[c]
    BY <2>1 DEF Held
  <2>3. Len(p.units) >= HeaderUnits /\ 1 \in 1 .. Len(p.units) /\ b + 2 + 1 = i + 2 /\ b + 2 = i + 1
    <3> DEFINE long == Len(p.units)
               all == Len(s)
    <3>1. long \in Nat /\ all \in Nat /\ HeaderUnits = 3 /\ ~(i + HeaderUnits + 1 > all) /\ b + 2 + long = all
      BY <1>1, <1>3, <2>2
    <3> HIDE DEF long, all
    <3>2. long >= HeaderUnits /\ 1 \in 1 .. long /\ b + 2 + 1 = i + 2 /\ b + 2 = i + 1
      BY <3>1
    <3> QED
      BY <3>2 DEF long
  <2>4. size = p.units[1]
    <3>1. s[b + 2 + 1] = p.units[1]
      BY <2>2, <2>3
    <3> QED
      BY <2>3, <3>1
  <2>5. LengthOk(size) /\ Len(p.units) < HeaderUnits + size + 1 /\ size \in Nat
    <3>1. p.units[1] \in Nat
      BY <1>1, <2>3, ElementOfSeq
    <3> HIDE DEF size
    <3> QED
      BY <2>3, <2>4, <3>1 DEF Shape
  <2>6. s[i] = Sync0 /\ s[i + 1] = Sync1
    <3>1. i + 1 = b + 2
      BY <1>1
    <3> QED
      BY <2>2, <3>1
  <2>8. LengthOk(s[i + 2])
    BY <2>5
  <2> HIDE DEF size
  <2>7. end > Len(s)
    <3> DEFINE long == Len(p.units)
               all == Len(s)
    <3>1. long \in Nat /\ all \in Nat /\ HeaderUnits = 3 /\ b + 2 + long = all
          /\ long < HeaderUnits + size + 1 /\ size \in Nat
      BY <1>1, <2>2, <2>5
    <3> HIDE DEF long, all
    <3>2. end > all
      BY <3>1
    <3> QED
      BY <3>2 DEF all
  <2> QED
    BY <1>3, <2>6, <2>7, <2>8, Zenon DEF FoundFrom, size
<1> QED
  BY <1>2, <1>3

\* Who tracks the reference from the first unit on has accepted what it finds.
LEMMA TracksReference ==
  ASSUME NEW s \in Seq(Nat), sent \in Seq(Frames), NEW p, Tracks(sent, s, Len(s), 1, <<>>, p)
  PROVE  p.accepted = Reference(s)
<1>1. PICK b \in Nat : Held(s, Len(s), b, p) /\ Reaches(sent, s, 1, <<>>, b + 1, p.accepted)
  BY DEF Tracks
<1>2. PICK f : /\ \A x \in 1 .. Len(s) + 1 : f[x] = FoundFrom(s, f, x)
               /\ b + 1 \in 1 .. Len(s) + 1 /\ p.accepted \in Seq(Nat)
               /\ Reference(s) = p.accepted \o f[b + 1]
  <2>1. Finds(s, b + 1, p.accepted)
    BY <1>1, ReferenceReached, Zenon
  <2> QED
    BY <2>1, Zenon DEF Finds
<1>3. FoundFrom(s, f, b + 1) = <<>>
  BY <1>1, NoneYet DEF Tracks
<1>4. f[b + 1] = <<>>
  BY <1>2, <1>3
<1> QED
  BY <1>2, <1>4, ConcatEmptySeq

-----------------------------------------------------------------------------
(* The parser and the reference, unit by unit                              *)

\* The candidate with the next unit is a stretch of the stream.
LEMMA CandidateHeld ==
  ASSUME NEW s \in Seq(Nat), NEW k \in Nat, k < Len(s), NEW p \in Parser, p.state = "frame",
         NEW b \in Nat, Held(s, k, b, p)
  PROVE  LET units == Append(p.units, s[k + 1])
         IN /\ units \in Seq(Nat) /\ Len(units) = Len(p.units) + 1 /\ Len(p.units) \in Nat
            /\ b + 2 + Len(units) = k + 1 /\ s[b + 1] = Sync0 /\ s[b + 2] = Sync1
            /\ \A c \in 1 .. Len(units) : s[b + 2 + c] = units[c] /\ units[c] \in Nat
            /\ units[Len(units)] = s[k + 1] /\ \A c \in 1 .. Len(p.units) : units[c] = p.units[c]
            /\ SubSeq(s, b + 3, k + 1) = units
            /\ s[k + 1] \in Nat /\ k + 1 \in 1 .. Len(s)
<1> DEFINE unit == s[k + 1]
           w == p.units
           units == Append(w, unit)
           long == Len(w)
           all == Len(s)
<1>1. all \in Nat /\ (\A x \in 1 .. all : s[x] \in Nat) /\ w \in Seq(Nat) /\ k \in Nat /\ k < all /\ b \in Nat
  BY LenProperties, ElementOfSeq DEF Parser
<1>2. /\ b + 2 + long = k /\ s[b + 1] = Sync0 /\ s[b + 2] = Sync1
      /\ \A c \in 1 .. long : s[b + 2 + c] = w[c]
  BY DEF Held
<1> HIDE DEF all
<1>3. k + 1 \in 1 .. all /\ unit \in Nat
  BY <1>1
<1> HIDE DEF unit, w
<1>4. /\ units \in Seq(Nat) /\ Len(units) = long + 1 /\ long \in Nat /\ units[long + 1] = unit
      /\ \A c \in 1 .. long : units[c] = w[c] /\ w[c] \in Nat
  BY <1>1, <1>3, AppendFacts
<1> HIDE DEF units, long
<1>5. ASSUME NEW c \in 1 .. long + 1 PROVE s[b + 2 + c] = units[c] /\ units[c] \in Nat
  <2>1. CASE c \in 1 .. long
    BY <1>2, <1>4, <2>1
  <2>2. CASE c = long + 1
    <3>1. b + 2 + c = k + 1
      BY <1>1, <1>2, <1>4, <2>2
    <3> QED
      BY <1>3, <1>4, <2>2, <3>1 DEF unit
  <2> QED
    BY <1>4, <2>1, <2>2
<1>6. SubSeq(s, b + 3, k + 1) = units
  <2> DEFINE i == b + 3
             end == k + 1
             t == SubSeq(s, i, end)
  <2>1. i \in Int /\ end \in Int /\ i <= end /\ end - i + 1 = long + 1
    BY <1>1, <1>2, <1>4
  <2>2. \A x \in i .. end : s[x] \in Nat
    <3>1. \A x \in i .. end : x \in 1 .. all
      BY <1>1, <1>3
    <3> QED
      BY <1>1, <3>1
  <2>3. \A x \in 1 .. long + 1 : i + x - 1 = b + 2 + x
    BY <1>1, <1>4
  <2> HIDE DEF i, end
  <2>4. /\ t \in Seq(Nat) /\ Len(t) = IF i <= end THEN end - i + 1 ELSE 0
        /\ \A x \in 1 .. end - i + 1 : t[x] = s[i + x - 1]
    BY <2>1, <2>2, SubSeqProperties
  <2> HIDE DEF t
  <2>5. Len(t) = long + 1 /\ \A x \in 1 .. long + 1 : t[x] = s[i + x - 1]
    BY <2>1, <2>4
  <2>6. \A x \in 1 .. long + 1 : t[x] = units[x]
    BY <1>5, <2>3, <2>5
  <2>7. t = units
    BY <1>4, <2>4, <2>5, <2>6, SeqEqual
  <2> QED
    BY <2>7 DEF t, i, end
<1>7. b + 2 + (long + 1) = k + 1
  BY <1>1, <1>2, <1>4
<1>8. \A c \in 1 .. Len(units) : s[b + 2 + c] = units[c] /\ units[c] \in Nat
  BY <1>4, <1>5
<1>9. units[Len(units)] = unit /\ b + 2 + Len(units) = k + 1
  BY <1>4, <1>7
<1> QED
  BY <1>2, <1>3, <1>4, <1>6, <1>8, <1>9 DEF units, unit, long, w, all

\* Rejecting a candidate, the reference goes on after its sync word.
LEMMA RejectedGoes ==
  ASSUME NEW s \in Seq(Nat), NEW k \in Nat, k < Len(s), NEW p \in Parser, Shape(p),
         NEW b \in Nat, Held(s, k, b, p), Rejects(p, s[k + 1]), NEW acc
  PROVE  Goes(sent', s, b + 1, acc, b + 3, acc) /\ b + 1 \in 1 .. Len(s)
<1> DEFINE unit == s[k + 1]
           w == p.units
           units == Append(w, unit)
           long == Len(units)
           all == Len(s)
           i == b + 1
           size == units[1]
           end == i + 1 + HeaderUnits + s[i + 2] + 1
<1>1. p.state = "frame"
  BY DEF Rejects
<1>2. /\ units \in Seq(Nat) /\ long = Len(w) + 1 /\ Len(w) \in Nat
      /\ b + 2 + long = k + 1 /\ s[b + 1] = Sync0 /\ s[b + 2] = Sync1
      /\ \A c \in 1 .. long : s[b + 2 + c] = units[c] /\ units[c] \in Nat
      /\ units[long] = unit /\ \A c \in 1 .. Len(w) : units[c] = w[c]
      /\ SubSeq(s, b + 3, k + 1) = units
      /\ unit \in Nat /\ k + 1 \in 1 .. all
  BY <1>1, CandidateHeld, Zenon
<1>3. /\ long >= HeaderUnits
      /\ ~LengthOk(size) \/ (long >= HeaderUnits + size + 1 /\ ~CrcOk(units))
  BY DEF Rejects
<1>4. /\ Len(w) >= HeaderUnits => Len(w) < HeaderUnits + w[1] + 1
  BY DEF Shape
<1>5. all \in Nat /\ HeaderUnits = 3
  BY LenProperties DEF HeaderUnits
<1> HIDE DEF w, units, unit, all, long
<1>6. 1 \in 1 .. long /\ i + HeaderUnits + 1 <= all /\ i \in 1 .. all /\ i + 1 = b + 2 /\ i + 2 = b + 3
      /\ b + 2 + 1 = i + 2
  BY <1>2, <1>3, <1>5
<1>7. s[i] = Sync0 /\ s[i + 1] = Sync1 /\ s[i + 2] = size /\ size \in Nat
  <2>1. s[b + 2 + 1] = size /\ size \in Nat
    BY <1>2, <1>6
  <2> QED
    BY <1>2, <1>6, <2>1
<1>8. CASE ~LengthOk(size)
  BY <1>6, <1>7, <1>8 DEF Goes, all
<1>9. CASE LengthOk(size) /\ long >= HeaderUnits + size + 1 /\ ~CrcOk(units)
  <2>1. long = HeaderUnits + size + 1
    <3> DEFINE had == Len(w)
    <3>0. long = had + 1 /\ had \in Nat /\ HeaderUnits = 3 /\ size \in Nat /\ long >= HeaderUnits + size + 1
      BY <1>2, <1>5, <1>7, <1>9
    <3>1. had >= HeaderUnits
      <4> HIDE DEF had, size
      <4> QED
        BY <3>0
    <3>2. 1 \in 1 .. Len(w)
      BY <1>5, <3>0, <3>1
    <3>3. w[1] = size
      BY <1>2, <3>2
    <3>4. had < HeaderUnits + size + 1
      BY <1>4, <3>1, <3>3
    <3> HIDE DEF size, had
    <3> QED
      BY <3>0, <3>4
  <2>2. end = k + 1 /\ end <= all
    <3>1. end = i + 1 + HeaderUnits + size + 1
      BY <1>7
    <3> HIDE DEF size, end
    <3> QED
      BY <1>2, <1>5, <1>7, <2>1, <3>1
  <2>3. ~Covered(sent', SubSeq(s, i + 2, end), s[end] - MaxField)
    <3>1. SubSeq(s, i + 2, end) = units /\ s[end] = unit
      <4>1. i + 2 = b + 3 /\ end = k + 1
        BY <1>6, <2>2
      <4> HIDE DEF i, end
      <4> QED
        BY <1>2, <4>1 DEF unit
    <3>2. ~Covered(sent', units, unit - MaxField)
      BY <1>2, <1>9 DEF CrcOk, long
    <3> QED
      BY <3>1, <3>2
  <2>4. LengthOk(s[i + 2])
    BY <1>7, <1>9
  <2>5. b + 3 = i + 2
    BY <1>6
  <2> HIDE DEF i
  <2> QED
    BY <1>6, <1>7, <2>2, <2>3, <2>4, <2>5, Zenon DEF Goes, all, i
<1> QED
  BY <1>3, <1>8, <1>9

\* Accepting a candidate, the reference goes on after it.
LEMMA AcceptedGoes ==
  ASSUME sent' \in Seq(Frames), NEW s \in Seq(Nat), NEW k \in Nat, k < Len(s),
         NEW p \in Parser, Shape(p), NEW q, NEW b \in Nat, Held(s, k, b, p),
         Accepting(p, q, s[k + 1]), NEW acc
  PROVE  /\ Goes(sent', s, b + 1, acc, k + 2, Append(acc, s[k + 1] - MaxField))
         /\ b + 1 \in 1 .. Len(s)
<1> DEFINE unit == s[k + 1]
           w == p.units
           units == Append(w, unit)
           long == Len(units)
           all == Len(s)
           i == b + 1
           n == unit - MaxField
           size == units[1]
           end == i + 1 + HeaderUnits + s[i + 2] + 1
<1>1. p.state = "frame" /\ CrcOk(units) /\ Len(w) >= HeaderUnits
  BY DEF Accepting
<1>2. /\ units \in Seq(Nat) /\ long = Len(w) + 1 /\ Len(w) \in Nat
      /\ b + 2 + long = k + 1 /\ s[b + 1] = Sync0 /\ s[b + 2] = Sync1
      /\ \A c \in 1 .. long : s[b + 2 + c] = units[c] /\ units[c] \in Nat
      /\ units[long] = unit /\ \A c \in 1 .. Len(w) : units[c] = w[c]
      /\ SubSeq(s, b + 3, k + 1) = units
      /\ unit \in Nat /\ k + 1 \in 1 .. all
  BY <1>1, CandidateHeld, Zenon
<1>3. LengthOk(w[1])
  BY <1>1 DEF Shape
<1>4. Covered(sent', units, n)
  BY <1>1, <1>2 DEF CrcOk
<1>5. all \in Nat /\ HeaderUnits = 3
  BY LenProperties DEF HeaderUnits
<1>6. n \in DOMAIN sent' /\ n \in Nat /\ sent'[n] \in Frames /\ units = Append(Body(n, sent'[n]), Trailer(n))
  BY <1>4, LinesAreUnits DEF Covered
<1> HIDE DEF n
<1>7. /\ Body(n, sent'[n]) \in Seq(Nat) /\ Trailer(n) \in Nat
      /\ Len(Body(n, sent'[n])) = HeaderUnits + Len(sent'[n].payload)
      /\ Body(n, sent'[n])[1] = Len(sent'[n].payload) /\ Len(sent'[n].payload) \in Nat
  BY <1>6, LineFacts, Zenon
<1> HIDE DEF w, units, unit, all, long
<1>8. long = HeaderUnits + size + 1
  <2> DEFINE body == Body(n, sent'[n])
             l == Len(sent'[n].payload)
  <2>1. body \in Seq(Nat) /\ Trailer(n) \in Nat /\ Len(body) = HeaderUnits + l /\ body[1] = l /\ l \in Nat
        /\ units = Append(body, Trailer(n))
    BY <1>6, <1>7
  <2> HIDE DEF body, l
  <2>2. Len(units) = Len(body) + 1 /\ \A x \in 1 .. Len(body) : units[x] = body[x]
    BY <2>1, AppendFacts
  <2>3. 1 \in 1 .. Len(body)
    BY <1>5, <2>1
  <2> QED
    BY <1>5, <2>1, <2>2, <2>3 DEF long
<1>9. 1 \in 1 .. long /\ 1 \in 1 .. Len(w) /\ i + HeaderUnits + 1 <= all /\ i \in 1 .. all
      /\ i + 1 = b + 2 /\ i + 2 = b + 3 /\ b + 2 + 1 = i + 2
  <2> DEFINE had == Len(w)
  <2>1. long = had + 1 /\ had \in Nat /\ HeaderUnits = 3 /\ had >= HeaderUnits /\ all \in Nat
        /\ b + 2 + long = k + 1 /\ k + 1 \in 1 .. all
    BY <1>1, <1>2, <1>5
  <2> HIDE DEF had
  <2>2. 1 \in 1 .. long /\ 1 \in 1 .. had /\ i + HeaderUnits + 1 <= all /\ i \in 1 .. all
        /\ i + 1 = b + 2 /\ i + 2 = b + 3 /\ b + 2 + 1 = i + 2
    BY <2>1
  <2> QED
    BY <2>2 DEF had
<1>10. s[i] = Sync0 /\ s[i + 1] = Sync1 /\ s[i + 2] = size /\ size \in Nat /\ size = w[1]
  <2>1. s[b + 2 + 1] = size /\ size \in Nat
    BY <1>2, <1>9
  <2> QED
    BY <1>2, <1>9, <2>1
<1>11. end = k + 1 /\ end <= all /\ k + 2 = end + 1
  <2>1. end = i + 1 + HeaderUnits + size + 1
    BY <1>10
  <2>2. long = HeaderUnits + size + 1 /\ size \in Nat /\ HeaderUnits = 3 /\ all \in Nat
        /\ b + 2 + long = k + 1 /\ k + 1 \in 1 .. all
    BY <1>2, <1>5, <1>8, <1>10
  <2> HIDE DEF size, end
  <2> QED
    BY <2>1, <2>2
<1>12. /\ Covered(sent', SubSeq(s, i + 2, end), s[end] - MaxField)
       /\ Append(acc, n) = Append(acc, s[end] - MaxField)
  <2>1. SubSeq(s, i + 2, end) = units /\ s[end] = unit
    <3>1. i + 2 = b + 3 /\ end = k + 1
      BY <1>9, <1>11
    <3> HIDE DEF i, end
    <3> QED
      BY <1>2, <3>1 DEF unit
  <2> QED
    BY <1>4, <2>1 DEF n
<1>13. LengthOk(s[i + 2])
  BY <1>3, <1>10
<1> HIDE DEF i
<1>14. Goes(sent', s, i, acc, k + 2, Append(acc, n))
  BY <1>9, <1>10, <1>11, <1>12, <1>13, Zenon DEF Goes, all
<1> QED
  BY <1>9, <1>14 DEF i, n, unit, all

\* A candidate that grows begins where it did.
LEMMA HeldGrows ==
  ASSUME NEW s \in Seq(Nat), NEW k \in Nat, k < Len(s), NEW p \in Parser, p.state = "frame",
         NEW b \in Nat, Held(s, k, b, p),
         NEW q, q.state = "frame", q.units = Append(p.units, s[k + 1])
  PROVE  Held(s, k + 1, b, q)
<1> DEFINE units == Append(p.units, s[k + 1])
<1>1. /\ units \in Seq(Nat) /\ Len(units) = Len(p.units) + 1 /\ Len(p.units) \in Nat
      /\ b + 2 + Len(units) = k + 1 /\ s[b + 1] = Sync0 /\ s[b + 2] = Sync1
      /\ \A c \in 1 .. Len(units) : s[b + 2 + c] = units[c] /\ units[c] \in Nat
      /\ units[Len(units)] = s[k + 1] /\ \A c \in 1 .. Len(p.units) : units[c] = p.units[c]
      /\ SubSeq(s, b + 3, k + 1) = units
      /\ s[k + 1] \in Nat /\ k + 1 \in 1 .. Len(s)
  BY CandidateHeld, Zenon
<1>2. q.units = units
  OBVIOUS
<1> HIDE DEF units
<1> QED
  BY <1>1, <1>2 DEF Held

\* A unit that is not rejected keeps the parser with the reference.
LEMMA TracksStep ==
  ASSUME sent' \in Seq(Frames), NEW s \in Seq(Nat), NEW k \in Nat, k < Len(s),
         NEW a \in Nat, NEW old, NEW p, Tracks(sent', s, k, a, old, p),
         NEW q \in Parser, Shape(q),
         \/ Advances(p, q, s[k + 1]) /\ q.accepted = p.accepted
         \/ /\ Accepting(p, q, s[k + 1]) /\ q.state = "sync0"
            /\ q.accepted = Append(p.accepted, s[k + 1] - MaxField)
  PROVE  Tracks(sent', s, k + 1, a, old, q)
<1> DEFINE unit == s[k + 1]
           acc == p.accepted
           all == Len(s)
<1>1. p \in Parser /\ Shape(p)
  BY DEF Tracks
<1>2. PICK b \in Nat : Held(s, k, b, p) /\ a <= b + 1 /\ Reaches(sent', s, a, old, b + 1, acc)
  BY DEF Tracks
<1>3. all \in Nat /\ k + 1 <= all /\ Sync0 # Sync1
  BY LenProperties, SyncAssumption DEF SyncAssumption
<1>4. ASSUME NEW i \in 1 .. all, NEW j, NEW more, Reaches(sent', s, a, old, i, acc),
             Goes(sent', s, i, acc, j, more)
      PROVE  Reaches(sent', s, a, old, j, more)
  BY <1>4, ReachSteps
<1>5. SUFFICES \E c \in Nat : Held(s, k + 1, c, q) /\ a <= c + 1 /\ Reaches(sent', s, a, old, c + 1, q.accepted)
  BY DEF Tracks
<1>6. CASE Advances(p, q, unit) /\ q.accepted = acc
  <2>1. CASE p.state = "sync0" /\ unit # Sync0 /\ q.state = "sync0"
    <3>1. b = k
      BY <1>2, <2>1 DEF Held
    <3>2. Goes(sent', s, b + 1, acc, b + 2, acc)
      <4>1. s[b + 1] # Sync0 /\ b + 2 = (b + 1) + 1
        BY <2>1, <3>1
      <4> QED
        BY <4>1 DEF Goes
    <3>3. Reaches(sent', s, a, old, (b + 1) + 1, acc)
      <4>1. b + 1 \in 1 .. all /\ (b + 1) + 1 = b + 2
        BY <1>3, <3>1
      <4> QED
        BY <1>2, <1>4, <3>2, <4>1
    <3>4. Held(s, k + 1, b + 1, q)
      BY <2>1, <3>1 DEF Held
    <3> QED
      BY <1>2, <1>6, <3>3, <3>4
  <2>2. CASE p.state = "sync0" /\ unit = Sync0 /\ q.state = "sync1"
    <3>1. b = k
      BY <1>2, <2>2 DEF Held
    <3>2. Held(s, k + 1, b, q)
      BY <2>2, <3>1 DEF Held
    <3> QED
      BY <1>2, <1>6, <3>2
  <2>3. CASE p.state = "sync1" /\ unit = Sync0 /\ q.state = "sync1"
    <3>1. b + 1 = k /\ s[b + 1] = Sync0
      BY <1>2, <2>3 DEF Held
    <3>2. Goes(sent', s, b + 1, acc, b + 2, acc)
      <4>1. (b + 1) + 1 <= Len(s) /\ s[(b + 1) + 1] # Sync1 /\ b + 2 = (b + 1) + 1
        BY <1>3, <2>3, <3>1
      <4> QED
        BY <4>1 DEF Goes
    <3>3. Reaches(sent', s, a, old, (b + 1) + 1, acc)
      <4>1. b + 1 \in 1 .. all /\ (b + 1) + 1 = b + 2
        BY <1>3, <3>1
      <4> QED
        BY <1>2, <1>4, <3>2, <4>1
    <3>4. Held(s, k + 1, b + 1, q)
      BY <2>3, <3>1 DEF Held
    <3> QED
      BY <1>2, <1>6, <3>3, <3>4
  <2>4. CASE p.state = "sync1" /\ unit = Sync1 /\ q.state = "frame" /\ q.units = <<>>
    <3>1. b + 1 = k /\ s[b + 1] = Sync0
      BY <1>2, <2>4 DEF Held
    <3>2. Len(q.units) = 0 /\ s[b + 2] = Sync1 /\ b + 2 + 0 = k + 1
      <4>1. b + 2 = k + 1
        BY <3>1
      <4> QED
        BY <2>4, <4>1, EmptySeq
    <3>3. \A c \in 1 .. Len(q.units) : s[b + 2 + c] = q.units[c]
      BY <3>2
    <3>4. Held(s, k + 1, b, q)
      BY <2>4, <3>1, <3>2, <3>3 DEF Held
    <3> QED
      BY <1>2, <1>6, <3>4
  <2>5. CASE p.state = "sync1" /\ unit \notin {Sync0, Sync1} /\ q.state = "sync0"
    <3>1. b + 1 = k /\ s[b + 1] = Sync0
      BY <1>2, <2>5 DEF Held
    <3>2. /\ (b + 1) + 1 <= Len(s) /\ s[(b + 1) + 1] # Sync1 /\ s[(b + 1) + 1] # Sync0
          /\ b + 1 \in 1 .. all /\ (b + 1) + 1 \in 1 .. all
      BY <1>3, <2>5, <3>1
    <3>3. Goes(sent', s, b + 1, acc, (b + 1) + 1, acc)
      BY <3>2 DEF Goes
    <3>4. Reaches(sent', s, a, old, (b + 1) + 1, acc)
      BY <1>2, <1>4, <3>2, <3>3
    <3>5. Goes(sent', s, (b + 1) + 1, acc, (b + 2) + 1, acc)
      <4>1. (b + 2) + 1 = ((b + 1) + 1) + 1
        OBVIOUS
      <4> QED
        BY <3>2, <4>1 DEF Goes
    <3>6. Reaches(sent', s, a, old, (b + 2) + 1, acc)
      BY <1>4, <3>2, <3>4, <3>5
    <3>7. Held(s, k + 1, b + 2, q)
      BY <2>5, <3>1 DEF Held
    <3> QED
      BY <1>2, <1>6, <3>6, <3>7
  <2>6. CASE /\ p.state = "frame" /\ q.state = "frame" /\ q.units = Append(p.units, unit)
    <3>1. Held(s, k + 1, b, q)
      BY <1>1, <1>2, <2>6, HeldGrows
    <3> QED
      BY <1>2, <1>6, <3>1
  <2> QED
    BY <1>1, <1>6, <2>1, <2>2, <2>3, <2>4, <2>5, <2>6 DEF Advances, Parser
<1>7. CASE Accepting(p, q, unit) /\ q.state = "sync0" /\ q.accepted = Append(acc, unit - MaxField)
  <2>1. Goes(sent', s, b + 1, acc, k + 2, Append(acc, unit - MaxField)) /\ b + 1 \in 1 .. all
    BY <1>1, <1>2, <1>7, AcceptedGoes
  <2>2. Reaches(sent', s, a, old, k + 2, q.accepted)
    BY <1>2, <1>4, <1>7, <2>1
  <2>3. Held(s, k + 1, k + 1, q)
    BY <1>7 DEF Held
  <2>4. a <= (k + 1) + 1 /\ (k + 1) + 1 = k + 2
    <3>1. b + 2 <= k
      <4>1. b + 2 + Len(p.units) = k /\ p.units \in Seq(Nat)
        BY <1>1, <1>2, <1>7 DEF Accepting, Held, Parser
      <4> DEFINE long == Len(p.units)
      <4>2. long \in Nat /\ b + 2 + long = k
        BY <4>1, LenProperties
      <4> HIDE DEF long
      <4> QED
        BY <4>2
    <3> QED
      BY <1>2, <3>1
  <2> QED
    BY <2>2, <2>3, <2>4
<1> QED
  BY <1>6, <1>7

\* Who goes with the reference from where it is, went with it all the way.
LEMMA TracksFrom ==
  ASSUME NEW frames, NEW s, NEW k, NEW a \in Nat, NEW old, NEW i \in Nat, NEW acc, NEW p,
         a <= i, Reaches(frames, s, a, old, i, acc), Tracks(frames, s, k, i, acc, p)
  PROVE  Tracks(frames, s, k, a, old, p)
<1>1. PICK b \in Nat : Held(s, k, b, p) /\ i <= b + 1 /\ Reaches(frames, s, i, acc, b + 1, p.accepted)
  BY DEF Tracks
<1>2. Reaches(frames, s, a, old, b + 1, p.accepted)
  BY <1>1, ReachSteps, Zenon
<1>3. a <= b + 1
  BY <1>1
<1> QED
  BY <1>1, <1>2, <1>3 DEF Tracks

\* What the parser holds it holds of a longer stream too.
LEMMA HeldOn ==
  ASSUME NEW s \in Seq(Nat), NEW units \in Seq(Nat), NEW p \in Parser, NEW b \in Nat, Held(s, Len(s), b, p)
  PROVE  Held(s \o units, Len(s), b, p)
<1> DEFINE t == s \o units
           all == Len(s)
           long == Len(p.units)
<1>1. all \in Nat /\ (\A x \in 1 .. all : t[x] = s[x])
  BY ConcatFacts
<1>2. p.units \in Seq(Nat) /\ long \in Nat
  BY LenProperties DEF Parser
<1>3. Held(s, all, b, p)
  OBVIOUS
<1> HIDE DEF t, all
<1> SUFFICES Held(t, all, b, p)
  BY DEF t, all
<1>4. CASE p.state = "sync0" /\ b = all
  BY <1>4 DEF Held
<1>5. CASE p.state = "sync1" /\ b + 1 = all /\ s[b + 1] = Sync0
  <2>1. b + 1 \in 1 .. all
    BY <1>5
  <2> QED
    BY <1>1, <1>5, <2>1 DEF Held
<1>6. CASE /\ p.state = "frame" /\ b + 2 + long = all
           /\ s[b + 1] = Sync0 /\ s[b + 2] = Sync1
           /\ \A c \in 1 .. long : s[b + 2 + c] = p.units[c]
  <2>1. b + 1 \in 1 .. all /\ b + 2 \in 1 .. all /\ \A c \in 1 .. long : b + 2 + c \in 1 .. all
    <3> HIDE DEF long
    <3> QED
      BY <1>1, <1>2, <1>6
  <2>2. t[b + 1] = Sync0 /\ t[b + 2] = Sync1 /\ \A c \in 1 .. long : t[b + 2 + c] = p.units[c]
    BY <1>1, <1>6, <2>1
  <2> QED
    BY <1>6, <2>2 DEF Held
<1> QED
  BY <1>3, <1>4, <1>5, <1>6 DEF Held

\* What tracks the reference does so when more arrives and more is sent.
LEMMA TracksOn ==
  ASSUME NEW frames \in Seq(Frames), NEW frame \in Frames, NEW s \in Seq(Nat), NEW units \in Seq(Nat),
         \A x \in 1 .. Len(s) : s[x] <= MaxField + Len(frames),
         NEW a, NEW old, NEW p, Tracks(frames, s, Len(s), a, old, p)
  PROVE  Tracks(Append(frames, frame), s \o units, Len(s), a, old, p)
<1>1. p \in Parser /\ Shape(p)
  BY DEF Tracks
<1>2. PICK b \in Nat : /\ Held(s, Len(s), b, p) /\ a <= b + 1
                       /\ Reaches(frames, s, a, old, b + 1, p.accepted)
  BY DEF Tracks
<1>3. Held(s \o units, Len(s), b, p)
  BY <1>1, <1>2, HeldOn
<1>4. Reaches(Append(frames, frame), s \o units, a, old, b + 1, p.accepted)
  BY <1>2, ReachesOn
<1> QED
  BY <1>1, <1>2, <1>3, <1>4 DEF Tracks

-----------------------------------------------------------------------------
(* A hurt line                                                             *)

\* dropping a candidate within the n units after the first c of s loses no sync word
Harmless(s, c, n) ==
  \A h \in Nat : PairAt(s, h) /\ c < h /\ h + 1 <= c + n =>
    \A g \in h + 2 .. c + n : s[g] # Sync0 \/ (g + 1 <= Len(s) /\ s[g + 1] # Sync1)

\* s is m units and the units of u
Ends(s, m, u) == Len(s) = m + Len(u) /\ \A i \in 1 .. Len(u) : s[m + i] = u[i]

\* In a hurt line, a drop while its first candidate is scanned again is harmless.
LEMMA HurtHarmless ==
  ASSUME NEW s \in Seq(Nat), NEW m \in Nat, NEW u \in Seq(Nat), Ends(s, m, u),
         NEW l, FewPairs(u, l), NEW b \in Nat, m <= b, PairAt(s, b + 1),
         NEW n \in Nat, b + 2 + n <= Len(s)
  PROVE  Harmless(s, b + 2, n)
<1> DEFINE all == Len(s)
           size == Len(u)
<1>1. all \in Nat /\ size \in Nat /\ all = m + size
  BY LenProperties DEF Ends
<1>2. \A i \in 1 .. size : s[m + i] = u[i]
  BY DEF Ends
<1>3. ASSUME NEW x \in Nat, PairAt(s, x), m < x PROVE PairAt(u, x - m)
  <2>1. x + 1 <= all /\ s[x] = Sync0 /\ s[x + 1] = Sync1
    BY <1>3 DEF PairAt
  <2> HIDE DEF all, size
  <2>2. /\ x - m \in 1 .. size /\ (x - m) + 1 \in 1 .. size /\ m + (x - m) = x
        /\ m + ((x - m) + 1) = x + 1
    BY <1>1, <1>3, <2>1
  <2>3. u[x - m] = Sync0 /\ u[(x - m) + 1] = Sync1
    <3> DEFINE y == x - m
    <3>1. y \in 1 .. size /\ y + 1 \in 1 .. size /\ m + y = x /\ m + (y + 1) = x + 1
      BY <2>2
    <3> HIDE DEF y
    <3>2. s[m + y] = u[y] /\ s[m + (y + 1)] = u[y + 1]
      BY <1>2, <3>1
    <3>3. u[y] = Sync0 /\ u[y + 1] = Sync1
      BY <2>1, <3>1, <3>2
    <3> QED
      BY <3>3 DEF y
  <2>4. x - m \in Nat /\ x - m # 0 /\ (x - m) + 1 <= size
    BY <1>1, <2>2
  <2> QED
    BY <2>3, <2>4 DEF PairAt, size
<1>4. SUFFICES ASSUME NEW h \in Nat, PairAt(s, h), b + 2 < h, h + 1 <= (b + 2) + n,
                      NEW g \in h + 2 .. (b + 2) + n, s[g] = Sync0,
                      ~(g + 1 <= Len(s) /\ s[g + 1] # Sync1)
               PROVE  FALSE
  BY DEF Harmless
<1>5. PairAt(u, (b + 1) - m) /\ PairAt(u, h - m)
  <2>1. b + 1 \in Nat /\ m < b + 1 /\ m < h
    BY <1>4
  <2> QED
    BY <1>3, <1>4, <2>1
<1>6. /\ b + 2 + n <= all /\ g \in Nat /\ m < g /\ h + 1 < g /\ g <= all /\ (b + 1) - m < h - m
      /\ h - m # 1
  <2>1. b + 2 + n <= all
    OBVIOUS
  <2> HIDE DEF all
  <2> QED
    BY <1>1, <1>4, <2>1, SMTT(30)
<1>7. CASE g + 1 <= all
  <2>1. PairAt(s, g)
    BY <1>4, <1>6, <1>7, SMTT(30) DEF PairAt
  <2>2. PairAt(u, g - m) /\ h - m < g - m
    BY <1>3, <1>6, <2>1
  <2> QED
    BY <1>5, <1>6, <2>2 DEF FewPairs
<1>8. CASE ~(g + 1 <= all)
  <2>1. g = all
    <3> HIDE DEF all, size
    <3> QED
      BY <1>1, <1>6, <1>8
  <2>2. (h - m) + 1 < size
    <3> HIDE DEF all, size
    <3> QED
      BY <1>1, <1>6, <2>1
  <2>3. u[size] # Sync0
    BY <1>5, <1>6, <2>2 DEF FewPairs
  <2>4. size \in 1 .. size /\ m + size = g
    <3> HIDE DEF all, size
    <3> QED
      BY <1>1, <1>6, <2>1
  <2>5. s[g] = u[size]
    BY <1>2, <2>4
  <2> QED
    BY <1>4, <2>3, <2>5
<1> QED
  BY <1>7, <1>8

\* A candidate dropped where that is harmless is passed by the reference too.
LEMMA DropTracks ==
  ASSUME NEW s \in Seq(Nat), NEW k \in Nat, k < Len(s), NEW a \in Nat, NEW old, NEW p,
         Tracks(sent', s, k, a, old, p), Rejects(p, s[k + 1]),
         NEW c \in Nat, NEW n \in Nat, c < a, k + 1 <= c + n, c + n <= Len(s), Harmless(s, c, n)
  PROVE  Tracks(sent', s, k + 1, a, old, Scanning(p))
<1> DEFINE all == Len(s)
           acc == p.accepted
           units == Append(p.units, s[k + 1])
           long == Len(units)
<1>1. p \in Parser /\ Shape(p)
  BY DEF Tracks
<1>2. PICK b \in Nat : Held(s, k, b, p) /\ a <= b + 1 /\ Reaches(sent', s, a, old, b + 1, acc)
  BY DEF Tracks
<1>3. p.state = "frame" /\ long >= HeaderUnits
  BY DEF Rejects
<1>4. /\ units \in Seq(Nat) /\ Len(units) = Len(p.units) + 1 /\ Len(p.units) \in Nat
      /\ b + 2 + Len(units) = k + 1 /\ s[b + 1] = Sync0 /\ s[b + 2] = Sync1
      /\ \A x \in 1 .. Len(units) : s[b + 2 + x] = units[x] /\ units[x] \in Nat
      /\ units[Len(units)] = s[k + 1] /\ \A x \in 1 .. Len(p.units) : units[x] = p.units[x]
      /\ SubSeq(s, b + 3, k + 1) = units
      /\ s[k + 1] \in Nat /\ k + 1 \in 1 .. Len(s)
  BY <1>1, <1>2, <1>3, CandidateHeld, Zenon
<1>5. long \in Nat /\ b + 2 + long = k + 1 /\ HeaderUnits = 3 /\ all \in Nat
  BY <1>4, LenProperties DEF HeaderUnits
<1>6. Reaches(sent', s, a, old, b + 3, acc)
  <2>1. Goes(sent', s, b + 1, acc, b + 3, acc) /\ b + 1 \in 1 .. Len(s)
    BY <1>1, <1>2, RejectedGoes
  <2>2. Reaches(sent', s, a, old, b + 1, acc)
    BY <1>2
  <2> DEFINE i == b + 1
             j == b + 3
  <2>3. Reaches(sent', s, a, old, i, acc) /\ Goes(sent', s, i, acc, j, acc) /\ i \in 1 .. Len(s)
    BY <2>1, <2>2
  <2> HIDE DEF i, j, acc
  <2>4. Reaches(sent', s, a, old, j, acc)
    BY <2>3, ReachSteps
  <2> QED
    BY <2>4 DEF j
<1> HIDE DEF units, long
<1>7. /\ b + 1 \in Nat /\ b + 1 # 0 /\ (b + 1) + 1 <= all /\ (b + 1) + 1 = b + 2
      /\ c < b + 1 /\ (b + 1) + 1 <= c + n /\ (b + 1) + 2 = b + 3
  <2>1. k < all /\ k + 1 <= c + n /\ c + n <= all /\ c < a /\ a <= b + 1
    BY <1>2
  <2> HIDE DEF all
  <2> QED
    BY <1>3, <1>5, <2>1
<1>8. PairAt(s, b + 1)
  BY <1>4, <1>7 DEF PairAt
<1>9. \A g \in b + 3 .. k + 1 : s[g] # Sync0 \/ (g + 1 <= Len(s) /\ s[g + 1] # Sync1)
  <2>1. \A g \in (b + 1) + 2 .. c + n : s[g] # Sync0 \/ (g + 1 <= Len(s) /\ s[g + 1] # Sync1)
    BY <1>7, <1>8 DEF Harmless
  <2>2. \A g \in b + 3 .. k + 1 : g \in (b + 1) + 2 .. c + n
    BY <1>7
  <2> QED
    BY <2>1, <2>2
<1>10. Reaches(sent', s, a, old, k + 2, acc)
  <2> DEFINE i == b + 3
             j == k + 2
  <2>1. i \in Nat /\ i # 0 /\ j \in Nat /\ i <= j /\ j <= all + 1 /\ j - 1 = k + 1
    <3>1. k < all
      OBVIOUS
    <3> HIDE DEF all
    <3> QED
      BY <1>3, <1>5, <3>1
  <2>2. \A h \in i .. j - 1 : s[h] # Sync0 \/ (h + 1 <= Len(s) /\ s[h + 1] # Sync1)
    BY <1>9, <2>1
  <2>3. Reaches(sent', s, a, old, i, acc)
    BY <1>6
  <2> HIDE DEF i, j
  <2>4. Reaches(sent', s, a, old, j, acc)
    BY <2>1, <2>2, <2>3, ReachesOver
  <2> QED
    BY <2>4 DEF j
<1>11. /\ Scanning(p) \in Parser /\ Shape(Scanning(p)) /\ Scanning(p).state = "sync0"
       /\ Scanning(p).accepted = acc
  BY <1>1, ScanningFacts
<1>12. Held(s, k + 1, k + 1, Scanning(p))
  BY <1>11 DEF Held
<1>13. a <= (k + 1) + 1 /\ (k + 1) + 1 = k + 2
  BY <1>2, <1>5
<1>14. Reaches(sent', s, a, old, (k + 1) + 1, Scanning(p).accepted)
  BY <1>10, <1>11, <1>13
<1>15. k + 1 \in Nat
  OBVIOUS
<1> QED
  BY <1>11, <1>12, <1>13, <1>14, <1>15, Zenon DEF Tracks

\* Units scanned again, where drops are harmless, are scanned as by the reference.
LEMMA ReplayTracks ==
  ASSUME sent' \in Seq(Frames), NEW s \in Seq(Nat), NEW c \in Nat, NEW p \in Parser,
         NEW units \in Seq(Nat), c + Len(units) <= Len(s),
         \A h \in 1 .. Len(units) : s[c + h] = units[h], Harmless(s, c, Len(units))
  PROVE  Tracks(sent', s, c + Len(units), c + 1, p.accepted, Replay(p, units))
<1> DEFINE n == Len(units)
           all == Len(s)
           acc == p.accepted
           G == [i \in 0 .. n |-> {q \in Parser : Tracks(sent', s, c + i, c + 1, acc, q)}]
<1>1. n \in Nat /\ all \in Nat /\ c + n <= all /\ \A i \in 1 .. n : units[i] \in Nat
  BY LenProperties, ElementOfSeq
<1>2. PICK f : Fed(TRUE, Scanning(p), units, f) /\ Replay(p, units) = f[n]
  BY ReplayIsFed
<1>3. Scanning(p) \in G[0]
  <2>1. /\ Scanning(p) \in Parser /\ Shape(Scanning(p)) /\ Scanning(p).state = "sync0"
        /\ Scanning(p).accepted = acc
    BY ScanningFacts
  <2>2. Held(s, c + 0, c, Scanning(p))
    BY <2>1 DEF Held
  <2>3. Reaches(sent', s, c + 1, acc, c + 1, Scanning(p).accepted)
    BY <2>1, ReachSteps
  <2>4. Tracks(sent', s, c + 0, c + 1, acc, Scanning(p))
    BY <2>1, <2>2, <2>3 DEF Tracks
  <2>5. 0 \in 0 .. n
    BY <1>1
  <2> HIDE DEF n, acc
  <2> QED
    BY <2>1, <2>4, <2>5
<1>4. ASSUME NEW i \in 1 .. n, NEW q \in G[i - 1]
      PROVE  Stepped(TRUE, q, units[i]) \in G[i]
  <2> DEFINE k == c + (i - 1)
             a == c + 1
             unit == units[i]
             o == Outcome(q, unit, Scanning(q))
  <2>1. /\ i - 1 \in 0 .. n /\ i \in 0 .. n /\ k \in Nat /\ k + 1 = c + i /\ k < all
        /\ a \in Nat /\ c < a /\ k + 1 <= c + n /\ n \in Nat
    <3> HIDE DEF n, all
    <3> QED
      BY <1>1
  <2>2. Tracks(sent', s, k, a, acc, q) /\ q \in Parser
    BY <1>4, <2>1
  <2> HIDE DEF G
  <2>3. s[k + 1] = unit /\ unit \in Nat
    BY <1>1, <2>1
  <2>4. Shape(q)
    BY <2>2 DEF Tracks
  <2> HIDE DEF unit, a, acc
  <2>5. \/ /\ Advances(q, o, unit) /\ ~Rejects(q, unit)
           /\ o \in Parser /\ Shape(o) /\ o.accepted = q.accepted
        \/ /\ Accepting(q, o, unit) /\ ~Rejects(q, unit)
           /\ o \in Parser /\ Shape(o) /\ o.state = "sync0" /\ o.units = <<>>
           /\ unit - MaxField \in Nat /\ o.accepted = Append(q.accepted, unit - MaxField)
        \/ Rejects(q, unit) /\ o = Scanning(q)
    BY <2>2, <2>3, <2>4, OutcomeCases, ZenonT(40)
  <2>6. Stepped(TRUE, q, unit) = o
    BY SteppedOutcome DEF Stepped
  <2> HIDE DEF o
  <2>7. CASE Rejects(q, unit) /\ o = Scanning(q)
    <3>1. Tracks(sent', s, k + 1, a, acc, Scanning(q))
      <4>1. Rejects(q, s[k + 1])
        BY <2>3, <2>7
      <4> HIDE DEF k
      <4> QED
        BY <1>1, <2>1, <2>2, <4>1, DropTracks
    <3> QED
      BY <2>1, <2>2, <2>6, <2>7, <3>1, ScanningFacts DEF G, a, unit
  <2>8. CASE \/ Advances(q, o, unit) /\ o \in Parser /\ Shape(o) /\ o.accepted = q.accepted
             \/ /\ Accepting(q, o, unit) /\ o \in Parser /\ Shape(o) /\ o.state = "sync0"
                /\ o.accepted = Append(q.accepted, unit - MaxField)
    <3>1. Tracks(sent', s, k + 1, a, acc, o)
      <4>1. /\ k \in Nat /\ k < Len(s) /\ a \in Nat /\ o \in Parser /\ Shape(o)
            /\ \/ Advances(q, o, s[k + 1]) /\ o.accepted = q.accepted
               \/ /\ Accepting(q, o, s[k + 1]) /\ o.state = "sync0"
                  /\ o.accepted = Append(q.accepted, s[k + 1] - MaxField)
        BY <2>1, <2>3, <2>8
      <4> HIDE DEF k
      <4> QED
        BY <2>2, <4>1, TracksStep
    <3> QED
      BY <2>1, <2>6, <2>8, <3>1 DEF G, a, unit
  <2> QED
    BY <2>5, <2>7, <2>8
<1> HIDE DEF G
<1>5. \A i \in 0 .. n : f[i] \in G[i]
  BY <1>2, <1>3, <1>4, FeedingInduction
<1>6. Replay(p, units) \in G[n] /\ n \in 0 .. n
  BY <1>1, <1>2, <1>5
<1> HIDE DEF n
<1>7. Tracks(sent', s, c + n, c + 1, acc, Replay(p, units))
  BY <1>6 DEF G
<1> QED
  BY <1>7 DEF n

\* A rejected candidate is scanned again from where the reference goes on.
LEMMA RescanTracks ==
  ASSUME NEW s \in Seq(Nat), NEW k \in Nat, k < Len(s), NEW a \in Nat, NEW old,
         NEW p \in Parser, Shape(p), NEW b \in Nat, Held(s, k, b, p), a <= b + 1,
         Reaches(sent', s, a, old, b + 1, p.accepted), Rejects(p, s[k + 1]),
         NEW q, Tracks(sent', s, k + 1, b + 3, p.accepted, q)
  PROVE  Tracks(sent', s, k + 1, a, old, q)
<1> DEFINE i == b + 1
           j == b + 3
           acc == p.accepted
           here == k + 1
<1>1. Goes(sent', s, i, acc, j, acc) /\ i \in 1 .. Len(s)
  BY RejectedGoes
<1>2. Reaches(sent', s, a, old, i, acc) /\ Tracks(sent', s, here, j, acc, q) /\ a <= j /\ j \in Nat
  OBVIOUS
<1> HIDE DEF i, j, acc, here
<1>3. Reaches(sent', s, a, old, j, acc)
  BY <1>1, <1>2, ReachSteps
<1>4. Tracks(sent', s, here, a, old, q)
  BY <1>2, <1>3, TracksFrom
<1> QED
  BY <1>4 DEF here

\* A candidate of a hurt line, scanned again, is scanned as by the reference.
LEMMA HurtReplay ==
  ASSUME sent' \in Seq(Frames), NEW s \in Seq(Nat), NEW m \in Nat, NEW u \in Seq(Nat), Ends(s, m, u),
         NEW l, FewPairs(u, l), NEW b \in Nat, m <= b, PairAt(s, b + 1), NEW p \in Parser,
         NEW units \in Seq(Nat), b + 2 + Len(units) <= Len(s),
         \A h \in 1 .. Len(units) : s[b + 2 + h] = units[h]
  PROVE  Tracks(sent', s, b + 2 + Len(units), b + 3, p.accepted, Replay(p, units))
<1> DEFINE c == b + 2
           n == Len(units)
<1>1. n \in Nat /\ c \in Nat /\ c + 1 = b + 3
  BY LenProperties, SMTT(30)
<1>2. Harmless(s, c, n)
  BY <1>1, HurtHarmless
<1>3. c + Len(units) <= Len(s) /\ \A h \in 1 .. Len(units) : s[c + h] = units[h]
  OBVIOUS
<1> HIDE DEF c
<1>4. Tracks(sent', s, c + Len(units), c + 1, p.accepted, Replay(p, units))
  BY <1>1, <1>2, <1>3, ReplayTracks
<1> QED
  BY <1>1, <1>4 DEF c

\* So is a hurt line that the parser met at its first unit.
LEMMA HurtTracks ==
  ASSUME sent' \in Seq(Frames), NEW s \in Seq(Nat), NEW m \in Nat, NEW u \in Seq(Nat), Ends(s, m, u),
         NEW l, FewPairs(u, l), NEW p \in Parser, Shape(p), p.state = "sync0"
  PROVE  Tracks(sent', s, Len(s), m + 1, p.accepted, Drain(p, u))
<1> DEFINE n == Len(u)
           all == Len(s)
           acc == p.accepted
           a == m + 1
           G == [i \in 0 .. n |-> {q \in Parser : Tracks(sent', s, m + i, a, acc, q)}]
<1>1. /\ n \in Nat /\ all \in Nat /\ all = m + n /\ a \in Nat
      /\ \A i \in 1 .. n : s[m + i] = u[i] /\ u[i] \in Nat
  BY LenProperties, ElementOfSeq, SMTT(30) DEF Ends
<1>2. PICK f : Fed(FALSE, p, u, f) /\ Drain(p, u) = f[n]
  BY DrainIsFed
<1>3. p \in G[0]
  <2>1. Held(s, m + 0, m, p)
    BY DEF Held
  <2>2. Reaches(sent', s, a, acc, m + 1, p.accepted)
    BY ReachSteps
  <2>3. Tracks(sent', s, m + 0, a, acc, p)
    <3>1. a <= m + 1
      BY <1>1
    <3> QED
      BY <2>1, <2>2, <3>1 DEF Tracks
  <2>4. 0 \in 0 .. n
    BY <1>1
  <2> HIDE DEF n, acc, a
  <2> QED
    BY <2>3, <2>4
<1>4. ASSUME NEW i \in 1 .. n, NEW q \in G[i - 1]
      PROVE  Stepped(FALSE, q, u[i]) \in G[i]
  <2> DEFINE k == m + (i - 1)
             unit == u[i]
             units == Append(q.units, unit)
             rejected == Replay(q, units)
             o == Outcome(q, unit, rejected)
  <2>1. /\ i - 1 \in 0 .. n /\ i \in 0 .. n /\ k \in Nat /\ k + 1 = m + i /\ k < all
    <3> HIDE DEF n, all
    <3> QED
      BY <1>1
  <2>2. Tracks(sent', s, k, a, acc, q) /\ q \in Parser
    BY <1>4, <2>1
  <2> HIDE DEF G
  <2>3. s[k + 1] = unit /\ unit \in Nat
    BY <1>1, <2>1
  <2>4. Shape(q)
    BY <2>2 DEF Tracks
  <2> HIDE DEF unit, acc, rejected
  <2>5. \/ /\ Advances(q, o, unit) /\ ~Rejects(q, unit)
           /\ o \in Parser /\ Shape(o) /\ o.accepted = q.accepted
        \/ /\ Accepting(q, o, unit) /\ ~Rejects(q, unit)
           /\ o \in Parser /\ Shape(o) /\ o.state = "sync0" /\ o.units = <<>>
           /\ unit - MaxField \in Nat /\ o.accepted = Append(q.accepted, unit - MaxField)
        \/ Rejects(q, unit) /\ o = rejected
    BY <2>2, <2>3, <2>4, OutcomeCases, ZenonT(40)
  <2>6. Stepped(FALSE, q, unit) = o
    BY SteppedOutcome DEF Stepped, rejected
  <2> HIDE DEF o
  <2>7. CASE Rejects(q, unit) /\ o = rejected
    <3>1. PICK b \in Nat : Held(s, k, b, q) /\ a <= b + 1 /\ Reaches(sent', s, a, acc, b + 1, q.accepted)
      BY <2>2 DEF Tracks
    <3>2. q.state = "frame" /\ Rejects(q, s[k + 1]) /\ k < Len(s)
      BY <2>1, <2>3, <2>7 DEF Rejects
    <3> HIDE DEF k
    <3>3. /\ units \in Seq(Nat) /\ b + 2 + Len(units) = k + 1 /\ s[b + 1] = Sync0 /\ s[b + 2] = Sync1
          /\ \A c \in 1 .. Len(units) : s[b + 2 + c] = units[c] /\ units[c] \in Nat
          /\ k + 1 \in 1 .. Len(s)
      <4> DEFINE w == Append(q.units, s[k + 1])
      <4>1. /\ w \in Seq(Nat) /\ Len(w) = Len(q.units) + 1 /\ Len(q.units) \in Nat
            /\ b + 2 + Len(w) = k + 1 /\ s[b + 1] = Sync0 /\ s[b + 2] = Sync1
            /\ \A c \in 1 .. Len(w) : s[b + 2 + c] = w[c] /\ w[c] \in Nat
            /\ w[Len(w)] = s[k + 1] /\ \A c \in 1 .. Len(q.units) : w[c] = q.units[c]
            /\ SubSeq(s, b + 3, k + 1) = w
            /\ s[k + 1] \in Nat /\ k + 1 \in 1 .. Len(s)
        BY <2>1, <2>2, <3>1, <3>2, CandidateHeld, Zenon
      <4>2. w = units
        BY <2>3
      <4> HIDE DEF w, units
      <4> QED
        BY <4>1, <4>2
    <3> HIDE DEF units
    <3>4. PairAt(s, b + 1) /\ m <= b /\ b + 2 + Len(units) <= Len(s)
      <4>1. m <= b
        BY <1>1, <3>1
      <4>2. Len(units) \in Nat /\ k \in Nat /\ k + 1 <= all /\ all \in Nat
        BY <1>1, <2>1, <3>3, LenProperties
      <4> DEFINE long == Len(units)
      <4>3. long \in Nat /\ b + 2 + long = k + 1
        BY <3>3, <4>2
      <4> HIDE DEF long, all
      <4>4. (b + 1) + 1 <= all /\ b + 1 \in Nat /\ b + 1 # 0 /\ (b + 1) + 1 = b + 2 /\ b + 2 + long <= all
        BY <4>2, <4>3
      <4> QED
        BY <3>3, <4>1, <4>4 DEF PairAt, all, long
    <3>5. Tracks(sent', s, b + 2 + Len(units), b + 3, q.accepted, Replay(q, units))
      BY <2>2, <3>3, <3>4, HurtReplay
    <3>6. Tracks(sent', s, k + 1, b + 3, q.accepted, o)
      BY <2>7, <3>3, <3>5 DEF rejected
    <3>7. Tracks(sent', s, k + 1, a, acc, o)
      <4> HIDE DEF a
      <4> QED
        BY <1>1, <2>1, <2>2, <2>4, <3>1, <3>2, <3>6, RescanTracks
    <3> HIDE DEF a
    <3> QED
      BY <2>1, <2>6, <3>7 DEF G, unit, Tracks
  <2>8. CASE \/ Advances(q, o, unit) /\ o \in Parser /\ Shape(o) /\ o.accepted = q.accepted
             \/ /\ Accepting(q, o, unit) /\ o \in Parser /\ Shape(o) /\ o.state = "sync0"
                /\ o.accepted = Append(q.accepted, unit - MaxField)
    <3> HIDE DEF a
    <3>1. Tracks(sent', s, k + 1, a, acc, o)
      <4>1. /\ k \in Nat /\ k < Len(s) /\ a \in Nat /\ o \in Parser /\ Shape(o)
            /\ \/ Advances(q, o, s[k + 1]) /\ o.accepted = q.accepted
               \/ /\ Accepting(q, o, s[k + 1]) /\ o.state = "sync0"
                  /\ o.accepted = Append(q.accepted, s[k + 1] - MaxField)
        BY <1>1, <2>1, <2>3, <2>8
      <4> HIDE DEF k
      <4> QED
        BY <2>2, <4>1, TracksStep
    <3> QED
      BY <2>1, <2>6, <2>8, <3>1 DEF G, unit
  <2> QED
    BY <2>5, <2>7, <2>8
<1> HIDE DEF G
<1>5. \A i \in 0 .. n : f[i] \in G[i]
  BY <1>2, <1>3, <1>4, FeedingInduction
<1>6. Drain(p, u) \in G[n] /\ n \in 0 .. n
  BY <1>1, <1>2, <1>5
<1> HIDE DEF n
<1>7. Tracks(sent', s, m + n, a, acc, Drain(p, u))
  BY <1>6 DEF G
<1> QED
  BY <1>1, <1>7 DEF n

-----------------------------------------------------------------------------
(* An intact line                                                          *)

\* a parser with the reference that read j units of the line of frame n: aligned,
\* or over-reading a candidate whose replay is aligned and with the reference
OnReference(s, m, n, frame, j, p) ==
  /\ p \in Parser /\ Shape(p)
  /\ \E b \in Nat :
       /\ Held(s, m + j, b, p) /\ Reaches(sent', s, 1, <<>>, b + 1, p.accepted)
       /\ \/ Aligned(n, frame, {}, j, p)
          \/ /\ p.state = "frame" /\ Len(p.units) >= j
             /\ Aligned(n, frame, {}, j, Replay(p, p.units))
             /\ Tracks(sent', s, m + j, b + 3, p.accepted, Replay(p, p.units))

\* A unit of an intact line that a parser aligned with it takes.
LEMMA AlignedTracks ==
  ASSUME sent' \in Seq(Frames), NEW n \in DOMAIN sent', LengthOk(Len(sent'[n].payload)),
         NEW s \in Seq(Nat), NEW k \in Nat, k < Len(s), NEW i \in Nat, i < Len(Line(n, sent'[n])),
         NEW unit \in Nat, unit = Line(n, sent'[n])[i + 1], s[k + 1] = unit,
         NEW a \in Nat, NEW old, NEW p, Tracks(sent', s, k, a, old, p),
         Aligned(n, sent'[n], {}, i, p), NEW rejected
  PROVE  /\ Tracks(sent', s, k + 1, a, old, Outcome(p, unit, rejected))
         /\ Aligned(n, sent'[n], {}, i + 1, Outcome(p, unit, rejected))
<1> DEFINE o == Outcome(p, unit, rejected)
<1>1. p \in Parser /\ Shape(p)
  BY DEF Tracks
<1>2. ~Rejects(p, unit) /\ Aligned(n, sent'[n], {}, i + 1, o)
  BY LineStep
<1>3. \/ /\ Advances(p, o, unit) /\ ~Rejects(p, unit)
         /\ o \in Parser /\ Shape(o) /\ o.accepted = p.accepted
      \/ /\ Accepting(p, o, unit) /\ ~Rejects(p, unit)
         /\ o \in Parser /\ Shape(o) /\ o.state = "sync0" /\ o.units = <<>>
         /\ unit - MaxField \in Nat /\ o.accepted = Append(p.accepted, unit - MaxField)
      \/ Rejects(p, unit) /\ o = rejected
  BY <1>1, OutcomeCases, Zenon
<1> HIDE DEF o
<1>4. /\ o \in Parser /\ Shape(o)
      /\ \/ Advances(p, o, s[k + 1]) /\ o.accepted = p.accepted
         \/ /\ Accepting(p, o, s[k + 1]) /\ o.state = "sync0"
            /\ o.accepted = Append(p.accepted, s[k + 1] - MaxField)
  <2>1. s[k + 1] = unit
    OBVIOUS
  <2> QED
    BY <1>2, <1>3, <2>1, Zenon
<1>5. Tracks(sent', s, k + 1, a, old, o)
  BY <1>4, TracksStep
<1> QED
  BY <1>2, <1>5 DEF o

\* A unit of an intact line keeps the parser with the reference.
LEMMA ReferenceStep ==
  ASSUME sent' \in Seq(Frames), NEW n \in DOMAIN sent', LengthOk(Len(sent'[n].payload)),
         NEW s \in Seq(Nat), NEW m \in Nat, Ends(s, m, Line(n, sent'[n])),
         NEW i \in Nat, i < Len(Line(n, sent'[n])), NEW p, OnReference(s, m, n, sent'[n], i, p)
  PROVE  OnReference(s, m, n, sent'[n], i + 1, RxByte(p, Line(n, sent'[n])[i + 1]))
<1> DEFINE frame == sent'[n]
           line == Line(n, frame)
           unit == line[i + 1]
           units == Append(p.units, unit)
           again == Replay(p, units)
           k == m + i
           q == RxByte(p, unit)
<1>1. line \in Seq(Nat) /\ Len(line) \in Nat /\ Len(s) \in Nat
  BY LinesAreUnits, LenProperties
<1>2. i < Len(line) /\ Len(s) = m + Len(line) /\ \A x \in 1 .. Len(line) : s[m + x] = line[x]
  BY DEF Ends
<1> HIDE DEF line
<1>3. i + 1 \in 1 .. Len(line) /\ k \in Nat /\ k < Len(s) /\ k + 1 = m + (i + 1)
  <2> DEFINE long == Len(line)
             all == Len(s)
  <2>1. long \in Nat /\ all \in Nat /\ i < long /\ all = m + long
    BY <1>1, <1>2
  <2> HIDE DEF long, all
  <2>2. i + 1 \in 1 .. long /\ k \in Nat /\ k < all /\ k + 1 = m + (i + 1)
    BY <2>1
  <2> QED
    BY <2>2 DEF long, all
<1>4. unit \in Nat /\ s[k + 1] = unit /\ unit = Line(n, sent'[n])[i + 1]
  <2>1. unit \in Nat
    BY <1>1, <1>3, ElementOfSeq
  <2>2. s[k + 1] = unit
    BY <1>2, <1>3
  <2> QED
    BY <2>1, <2>2 DEF line
<1>5. p \in Parser /\ Shape(p)
  BY DEF OnReference
<1>6. PICK b \in Nat :
        /\ Held(s, k, b, p) /\ Reaches(sent', s, 1, <<>>, b + 1, p.accepted)
        /\ \/ Aligned(n, frame, {}, i, p)
           \/ /\ p.state = "frame" /\ Len(p.units) >= i
              /\ Aligned(n, frame, {}, i, Replay(p, p.units))
              /\ Tracks(sent', s, k, b + 3, p.accepted, Replay(p, p.units))
  BY DEF OnReference
<1> HIDE DEF unit
<1>7. q = Outcome(p, unit, again)
  BY SteppedOutcome
<1>8. ASSUME Aligned(n, frame, {}, i + 1, q), Tracks(sent', s, k + 1, 1, <<>>, q)
      PROVE  OnReference(s, m, n, frame, i + 1, q)
  <2> HIDE DEF q, frame
  <2>1. PICK c \in Nat : Held(s, m + (i + 1), c, q) /\ Reaches(sent', s, 1, <<>>, c + 1, q.accepted)
    BY <1>3, <1>8 DEF Tracks
  <2>2. q \in Parser /\ Shape(q)
    BY <1>8 DEF Tracks
  <2> QED
    BY <1>8, <2>1, <2>2 DEF OnReference
<1>9. SUFFICES OnReference(s, m, n, frame, i + 1, q)
  BY DEF unit, line
<1>10. CASE Aligned(n, frame, {}, i, p)
  <2>1. Tracks(sent', s, k, 1, <<>>, p)
    <3>1. 1 <= b + 1
      OBVIOUS
    <3> QED
      BY <1>5, <1>6, <3>1, Zenon DEF Tracks
  <2> HIDE DEF k, again
  <2>2. Tracks(sent', s, k + 1, 1, <<>>, q) /\ Aligned(n, frame, {}, i + 1, q)
    <3>1. 1 \in Nat
      OBVIOUS
    <3>2. i < Len(Line(n, sent'[n]))
      OBVIOUS
    <3>3. /\ Tracks(sent', s, k + 1, 1, <<>>, Outcome(p, unit, again))
          /\ Aligned(n, sent'[n], {}, i + 1, Outcome(p, unit, again))
      <4>1. Aligned(n, sent'[n], {}, i, p)
        BY <1>10
      <4> HIDE DEF frame, q
      <4> QED
        BY <1>3, <1>4, <2>1, <3>1, <3>2, <4>1, AlignedTracks
    <3> QED
      BY <1>7, <3>3
  <2> QED
    BY <1>8, <2>2 DEF k
<1>11. CASE /\ p.state = "frame" /\ Len(p.units) >= i
            /\ Aligned(n, frame, {}, i, Replay(p, p.units))
            /\ Tracks(sent', s, k, b + 3, p.accepted, Replay(p, p.units))
  <2> DEFINE r == Replay(p, p.units)
             j == b + 3
             acc == p.accepted
             here == k + 1
  <2>1. p.units \in Seq(Nat) /\ j \in Nat
    BY <1>5 DEF Parser
  <2>2. again = Outcome(r, unit, Scanning(r))
    BY <1>4, <2>1, ReplayMore, SteppedOutcome
  <2>3. Tracks(sent', s, here, j, acc, again) /\ Aligned(n, frame, {}, i + 1, again)
    <3> DEFINE o == Outcome(r, unit, Scanning(r))
               dropped == Scanning(r)
    <3>1. /\ Tracks(sent', s, k, j, acc, r) /\ Aligned(n, sent'[n], {}, i, r)
          /\ i < Len(Line(n, sent'[n]))
      BY <1>11
    <3> HIDE DEF r, j, acc, frame, again, dropped, k
    <3>2. /\ Tracks(sent', s, k + 1, j, acc, Outcome(r, unit, dropped))
          /\ Aligned(n, sent'[n], {}, i + 1, Outcome(r, unit, dropped))
      BY <1>3, <1>4, <2>1, <3>1, AlignedTracks
    <3> QED
      BY <2>2, <3>2 DEF dropped, frame
  <2>4. ~Accepting(p, q, unit)
    <3>1. ~Accepting(p, q, Line(n, sent'[n])[i + 1])
      BY <1>5, <1>11, NoneAccepted
    <3> QED
      BY <1>4, <3>1
  <2>5. \/ /\ Advances(p, q, unit) /\ ~Rejects(p, unit)
           /\ q \in Parser /\ Shape(q) /\ q.accepted = p.accepted
        \/ Rejects(p, unit) /\ q = again
    <3> HIDE DEF again
    <3>1. LET o == Outcome(p, unit, again)
          IN \/ /\ Advances(p, o, unit) /\ ~Rejects(p, unit)
                /\ o \in Parser /\ Shape(o) /\ o.accepted = p.accepted
             \/ /\ Accepting(p, o, unit) /\ ~Rejects(p, unit)
                /\ o \in Parser /\ Shape(o) /\ o.state = "sync0" /\ o.units = <<>>
                /\ unit - MaxField \in Nat /\ o.accepted = Append(p.accepted, unit - MaxField)
             \/ Rejects(p, unit) /\ o = again
      <4>1. p \in Parser /\ Shape(p) /\ unit \in Nat
        BY <1>4, <1>5
      <4> QED
        BY <4>1, OutcomeCases, ZenonT(40)
    <3> HIDE DEF q
    <3> QED
      BY <1>7, <2>4, <3>1, Zenon
  <2>6. CASE /\ Advances(p, q, unit) /\ q \in Parser /\ Shape(q) /\ q.accepted = p.accepted
    <3>1. q = [p EXCEPT !.units = units] /\ q.state = "frame" /\ q.units = units
      BY <1>11, <2>6 DEF Advances
    <3>2. Replay(q, q.units) = again
      <4> HIDE DEF q, units
      <4>1. Replay(q, units) = Replay(p, units)
        BY <1>5, <3>1, ReplayForgets, ZenonT(40)
      <4> QED
        BY <3>1, <4>1
    <3>3. Len(q.units) >= i + 1
      <4>1. Len(units) = Len(p.units) + 1 /\ Len(p.units) \in Nat /\ Len(p.units) >= i
        BY <1>4, <1>11, <2>1, AppendFacts
      <4> HIDE DEF units
      <4> QED
        BY <3>1, <4>1
    <3>4. Held(s, k + 1, b, q)
      <4>1. q.state = "frame" /\ q.units = Append(p.units, s[k + 1]) /\ p.state = "frame"
        BY <1>4, <1>11, <3>1
      <4> HIDE DEF q, k
      <4> QED
        BY <1>3, <1>5, <1>6, <4>1, HeldGrows
    <3> HIDE DEF q, again, frame
    <3>5. Held(s, m + (i + 1), b, q) /\ Reaches(sent', s, 1, <<>>, b + 1, q.accepted)
      BY <1>3, <1>6, <2>6, <3>4
    <3>6. Tracks(sent', s, m + (i + 1), b + 3, q.accepted, Replay(q, q.units))
      BY <1>3, <2>3, <2>6, <3>2
    <3>7. Aligned(n, frame, {}, i + 1, Replay(q, q.units))
      BY <2>3, <3>2
    <3> QED
      BY <2>6, <3>1, <3>3, <3>5, <3>6, <3>7 DEF OnReference
  <2>7. CASE Rejects(p, unit) /\ q = again
    <3>1. Tracks(sent', s, k + 1, 1, <<>>, q)
      <4> HIDE DEF q, again
      <4>1. Tracks(sent', s, k + 1, b + 3, p.accepted, q)
        BY <2>3, <2>7
      <4>2. Rejects(p, s[k + 1]) /\ 1 <= b + 1 /\ 1 \in Nat
        BY <1>4, <2>7
      <4> HIDE DEF k
      <4> QED
        BY <1>3, <1>5, <1>6, <4>1, <4>2, RescanTracks
    <3> QED
      BY <1>8, <2>3, <2>7, <3>1
  <2> QED
    BY <2>5, <2>6, <2>7
<1> QED
  BY <1>6, <1>10, <1>11

\* An intact line keeps the parser with the reference to its end.
LEMMA DrainOnReference ==
  ASSUME sent' \in Seq(Frames), NEW n \in DOMAIN sent', LengthOk(Len(sent'[n].payload)),
         NEW s \in Seq(Nat), NEW m \in Nat, Ends(s, m, Line(n, sent'[n])),
         NEW p, OnReference(s, m, n, sent'[n], 0, p)
  PROVE  OnReference(s, m, n, sent'[n], Len(Line(n, sent'[n])), Drain(p, Line(n, sent'[n])))
<1> DEFINE line == Line(n, sent'[n])
           G == [i \in 0 .. Len(line) |-> {q \in Parser : OnReference(s, m, n, sent'[n], i, q)}]
<1>1. line \in Seq(Nat) /\ Len(line) \in Nat
  BY LinesAreUnits, LenProperties
<1>2. PICK f : Fed(FALSE, p, line, f) /\ Drain(p, line) = f[Len(line)]
  BY <1>1, DrainIsFed
<1>3. p \in G[0]
  BY <1>1 DEF OnReference
<1>4. ASSUME NEW i \in 1 .. Len(line), NEW q \in G[i - 1]
      PROVE  Stepped(FALSE, q, line[i]) \in G[i]
  <2>1. i - 1 \in Nat /\ i - 1 \in 0 .. Len(line) /\ i \in 0 .. Len(line) /\ i - 1 < Len(line)
        /\ (i - 1) + 1 = i
    BY <1>1
  <2>2. OnReference(s, m, n, sent'[n], i - 1, q)
    BY <1>4, <2>1
  <2> HIDE DEF G
  <2>3. OnReference(s, m, n, sent'[n], (i - 1) + 1, RxByte(q, line[(i - 1) + 1]))
    BY <2>1, <2>2, ReferenceStep
  <2>4. OnReference(s, m, n, sent'[n], i, RxByte(q, line[i]))
    BY <2>1, <2>3
  <2> HIDE DEF line
  <2> QED
    BY <2>1, <2>4 DEF G, OnReference, Stepped
<1> HIDE DEF G
<1>5. \A i \in 0 .. Len(line) : f[i] \in G[i]
  BY <1>1, <1>2, <1>3, <1>4, FeedingInduction
<1>6. Drain(p, line) \in G[Len(line)] /\ Len(line) \in 0 .. Len(line)
  BY <1>1, <1>2, <1>5
<1> HIDE DEF line
<1>7. OnReference(s, m, n, sent'[n], Len(line), Drain(p, line))
  BY <1>6 DEF G
<1> QED
  BY <1>7 DEF line

-----------------------------------------------------------------------------
(* The parser stays with the reference                                     *)

\* the parser accepted what the reference finds before the candidate; rejected, the
\* candidate would be scanned as the reference does
Referred(frames, s, p) ==
  \E b \in Nat :
    /\ Held(s, Len(s), b, p) /\ Reaches(frames, s, 1, <<>>, b + 1, p.accepted)
    /\ p.state = "frame" =>
         \E r : /\ Replays(frames, p, p.units, r) /\ r.state # "frame"
                /\ Tracks(frames, s, Len(s), b + 3, p.accepted, r)

\* with one fault at most the parser is with the reference
ReferenceInv == Mild => Referred(sent, arrived, rx)

\* The parser is with the reference when the next frame begins.
LEMMA ReferredBegins ==
  ASSUME IInv, NEW frame \in Frames, sent' = Append(sent, frame), NEW units \in Seq(Nat),
         arrived' = arrived \o units, Referred(sent, arrived, rx)
  PROVE  OnReference(arrived', Len(arrived), Len(sent) + 1, frame, 0, rx)
<1> DEFINE n == Len(sent) + 1
           m == Len(arrived)
           t == arrived \o units
           more == Append(sent, frame)
<1>1. n \in Nat /\ n # 0 /\ Len(sent) \in Nat /\ sent \in Seq(Frames)
  BY NextNumber DEF IInv
<1>2. Len(Line(n, frame)) = 6 + Len(frame.payload) /\ Len(frame.payload) \in Nat
  BY <1>1, LineUnits, Zenon
<1>3. /\ rx \in Parser /\ Shape(rx) /\ rx.units \in Seq(Nat) /\ arrived \in Seq(Nat) /\ m \in Nat
      /\ \A x \in 1 .. Len(arrived) : arrived[x] <= MaxField + Len(sent)
  <2>1. rx \in Parser /\ Shape(rx) /\ rx.units \in Seq(Nat) /\ arrived \in Seq(Nat)
    BY DEF IInv, Follows, Sound, Parser
  <2>2. DOMAIN arrived = 1 .. Len(arrived) /\ Len(arrived) \in Nat
    BY <2>1, LenProperties
  <2> QED
    BY <2>1, <2>2 DEF IInv, StreamInv
<1> HIDE DEF n
<1>4. ASSUME NEW p \in Parser, Shape(p), p.state # "frame"
      PROVE  Aligned(n, frame, {}, 0, p)
  <2>1. p.units = <<>>
    BY <1>4 DEF Shape
  <2>2. 0 # Len(Line(n, frame)) /\ ~(0 >= 2) /\ 0 # 1
    BY <1>2
  <2> QED
    BY <1>4, <2>1, <2>2 DEF Aligned
<1>5. PICK b \in Nat :
        /\ Held(arrived, m, b, rx) /\ Reaches(sent, arrived, 1, <<>>, b + 1, rx.accepted)
        /\ rx.state = "frame" =>
             \E r : /\ Replays(sent, rx, rx.units, r) /\ r.state # "frame"
                    /\ Tracks(sent, arrived, m, b + 3, rx.accepted, r)
  BY DEF Referred
<1>6. Held(t, m, b, rx)
  BY <1>3, <1>5, HeldOn
<1>7. Reaches(more, t, 1, <<>>, b + 1, rx.accepted)
  BY <1>1, <1>3, <1>5, ReachesOn
<1>8. m + 0 = m /\ sent' = more /\ arrived' = t
  BY <1>3
<1> HIDE DEF t, more, m
<1>9. Held(t, m + 0, b, rx) /\ Reaches(sent', t, 1, <<>>, b + 1, rx.accepted)
  BY <1>6, <1>7, <1>8
<1>10. CASE rx.state # "frame"
  BY <1>3, <1>4, <1>8, <1>9, <1>10 DEF OnReference, n, m
<1>11. CASE rx.state = "frame"
  <2>1. PICK r : /\ Replays(sent, rx, rx.units, r) /\ r.state # "frame"
                 /\ Tracks(sent, arrived, m, b + 3, rx.accepted, r)
    BY <1>5, <1>11
  <2>2. r = Replay(rx, rx.units)
    BY <1>1, <1>3, <1>11, <2>1, CandidateArrived, ReplaysMore
  <2>3. Tracks(more, t, m, b + 3, rx.accepted, r)
    BY <1>1, <1>3, <2>1, TracksOn DEF more, t, m
  <2>4. Aligned(n, frame, {}, 0, r)
    BY <1>4, <2>1 DEF Tracks
  <2>5. Len(rx.units) >= 0
    BY <1>3, LenProperties
  <2>6. Tracks(sent', t, m + 0, b + 3, rx.accepted, Replay(rx, rx.units))
    BY <1>8, <2>2, <2>3
  <2>7. Aligned(n, frame, {}, 0, Replay(rx, rx.units))
    BY <2>2, <2>4
  <2> QED
    BY <1>3, <1>8, <1>9, <1>11, <2>5, <2>6, <2>7, Zenon DEF OnReference, n, m
<1> QED
  BY <1>10, <1>11

\* A whole line keeps it there.
LEMMA WholeReferred ==
  ASSUME IInv, ReferenceInv, NEW frame \in Frames, LengthOk(Len(frame.payload)), ReceiveWhole(frame)
  PROVE  ReferenceInv'
<1> DEFINE n == Len(sent) + 1
           line == Line(n, frame)
           m == Len(arrived)
           s == arrived'
           q == rx'
<1>1. SUFFICES ASSUME Mild' PROVE Referred(sent', s, q)
  BY DEF ReferenceInv
<1>2. /\ sent' = Append(sent, frame) /\ arrived' = arrived \o line /\ rx' = Drain(rx, line)
      /\ faults' = faults
  BY DEF ReceiveWhole, Receive
<1>3. /\ sent' \in Seq(Frames) /\ n \in DOMAIN sent' /\ sent'[n] = frame /\ n \in Nat /\ n # 0
      /\ arrived \in Seq(Nat) /\ line \in Seq(Nat)
  <2>1. /\ sent \in Seq(Frames) /\ Len(sent) \in Nat /\ sent' \in Seq(Frames)
        /\ Len(sent') = n /\ sent'[n] = frame /\ DOMAIN sent' = 1 .. n
    BY <1>2, AppendProperties, LenProperties DEF IInv
  <2>2. n \in DOMAIN sent' /\ n \in Nat /\ n # 0
    BY <2>1
  <2> QED
    BY <2>1, <2>2, LineUnits DEF IInv
<1>4. Mild
  <2>1. faults \in Nat /\ faults' = faults + 0
    BY <1>2 DEF IInv
  <2> QED
    BY <1>1, <1>2, <2>1, MildBefore
<1>5. OnReference(s, m, n, frame, 0, rx)
  BY <1>2, <1>3, <1>4, ReferredBegins DEF ReferenceInv
<1>6. s \in Seq(Nat) /\ Len(s) = m + Len(line) /\ m \in Nat /\ Ends(s, m, line)
  <2> HIDE DEF line
  <2>1. /\ arrived \o line \in Seq(Nat) /\ Len(arrived \o line) = Len(arrived) + Len(line)
        /\ Len(arrived) \in Nat /\ \A i \in 1 .. Len(line) : (arrived \o line)[Len(arrived) + i] = line[i]
    BY <1>3, ConcatFacts, SMTT(30)
  <2> QED
    BY <1>2, <2>1 DEF Ends
<1>7. Len(line) = 6 + Len(frame.payload) /\ Len(frame.payload) \in Nat
  BY <1>3, LineUnits, Zenon
<1> HIDE DEF n, m, s
<1>8. OnReference(s, m, n, frame, Len(line), q)
  BY <1>2, <1>3, <1>5, <1>6, DrainOnReference
<1> HIDE DEF line, q
<1>9. q \in Parser /\ Shape(q)
  BY <1>8 DEF OnReference
<1>10. PICK b \in Nat :
         /\ Held(s, m + Len(line), b, q) /\ Reaches(sent', s, 1, <<>>, b + 1, q.accepted)
         /\ \/ Aligned(n, frame, {}, Len(line), q)
            \/ /\ q.state = "frame"
               /\ Aligned(n, frame, {}, Len(line), Replay(q, q.units))
               /\ Tracks(sent', s, m + Len(line), b + 3, q.accepted, Replay(q, q.units))
  BY <1>8 DEF OnReference
<1>11. \A p : Aligned(n, frame, {}, Len(line), p) => p.state = "sync0"
  BY DEF Aligned, line
<1>12. CASE Aligned(n, frame, {}, Len(line), q)
  <2>1. q.state = "sync0"
    BY <1>11, <1>12
  <2> QED
    BY <1>6, <1>10, <2>1 DEF Referred
<1>13. CASE /\ Aligned(n, frame, {}, Len(line), Replay(q, q.units))
            /\ Tracks(sent', s, m + Len(line), b + 3, q.accepted, Replay(q, q.units))
  <2> DEFINE r == Replay(q, q.units)
  <2>1. r.state # "frame"
    BY <1>11, <1>13
  <2>2. Replays(sent', q, q.units, r)
    <3>1. q.units \in Seq(Nat)
      BY <1>9 DEF Parser
    <3> QED
      BY <3>1, ReplaysIn
  <2>3. Tracks(sent', s, Len(s), b + 3, q.accepted, r)
    BY <1>6, <1>13
  <2> HIDE DEF r
  <2>4. Held(s, Len(s), b, q)
    BY <1>6, <1>10
  <2> QED
    BY <1>10, <2>1, <2>2, <2>3, <2>4 DEF Referred
<1> QED
  BY <1>10, <1>12, <1>13

\* So does the first hurt line.
LEMMA HurtReferred ==
  ASSUME IInv, LocalInv, ReferenceInv, NEW frame \in Frames, NEW units \in Seq(Nat),
         Receive(frame, units), Hurt,
         Free(Len(sent) + 1, frame) => FewPairs(units, Len(frame.payload))
  PROVE  ReferenceInv'
<1> DEFINE m == Len(arrived)
           s == arrived'
           q == rx'
           l == Len(frame.payload)
<1>1. SUFFICES ASSUME Mild' PROVE Referred(sent', s, q)
  BY DEF ReferenceInv
<1>2. /\ sent' = Append(sent, frame) /\ rx' = Drain(rx, units) /\ arrived' = arrived \o units
      /\ faults' = faults + 1
  BY DEF Receive, Hurt
<1>3. /\ sent' \in Seq(Frames) /\ Len(sent) \in Nat /\ faults \in Nat /\ faults' # 0 /\ faults = 0
      /\ sent \in Seq(Frames) /\ arrived \in Seq(Nat)
  <2>1. sent \in Seq(Frames) /\ Len(sent) \in Nat /\ sent' \in Seq(Frames) /\ arrived \in Seq(Nat)
    BY <1>2, AppendProperties, LenProperties DEF IInv
  <2>2. faults \in Nat /\ faults' <= 1
    BY <1>1 DEF IInv, Mild
  <2> QED
    BY <1>2, <2>1, <2>2
<1>4. Mild /\ Free(Len(sent) + 1, frame)
  <2>1. faults' \in Nat /\ 1 \in Nat
    BY <1>2, <1>3
  <2> QED
    BY <1>1, <1>2, <2>1, MildBefore
<1>5. rx \in Parser /\ Shape(rx) /\ rx.state = "sync0" /\ Candidate(rx) = <<>>
  BY <1>3, <1>4 DEF LocalInv, Candidate, IInv, Follows, Sound
<1>6. l \in Nat /\ FewPairs(units, l)
  <2>1. Len(sent) + 1 \in Nat /\ Len(sent) + 1 # 0
    BY <1>3
  <2>2. Len(frame.payload) \in Nat
    BY <2>1, LineUnits, Zenon
  <2> QED
    BY <1>4, <2>2
<1>7. s \in Seq(Nat) /\ m \in Nat /\ Ends(s, m, units)
  <2>1. /\ arrived \o units \in Seq(Nat) /\ Len(arrived \o units) = Len(arrived) + Len(units)
        /\ Len(arrived) \in Nat
        /\ \A i \in 1 .. Len(units) : (arrived \o units)[Len(arrived) + i] = units[i]
    BY <1>3, ConcatFacts
  <2> QED
    BY <1>2, <2>1 DEF Ends
<1>8. Reaches(sent', s, 1, <<>>, m + 1, rx.accepted)
  <2>1. PICK b \in Nat : /\ Held(arrived, Len(arrived), b, rx)
                         /\ Reaches(sent, arrived, 1, <<>>, b + 1, rx.accepted)
    BY <1>4 DEF ReferenceInv, Referred
  <2>2. b = m
    BY <1>5, <2>1 DEF Held
  <2>3. \A x \in 1 .. Len(arrived) : arrived[x] <= MaxField + Len(sent)
    <3>1. DOMAIN arrived = 1 .. Len(arrived)
      BY <1>3, LenProperties
    <3> QED
      BY <3>1 DEF IInv, StreamInv
  <2>4. Reaches(Append(sent, frame), arrived \o units, 1, <<>>, b + 1, rx.accepted)
    BY <1>3, <2>1, <2>3, ReachesOn
  <2> QED
    BY <1>2, <2>2, <2>4
<1>9. Tracks(sent', s, Len(s), m + 1, rx.accepted, q)
  <2> HIDE DEF m, s, l
  <2> QED
    BY <1>2, <1>3, <1>5, <1>6, <1>7, HurtTracks
<1> HIDE DEF m, s, q, l
<1>10. q \in Parser /\ Shape(q)
  BY <1>9 DEF Tracks
<1>11. PICK b \in Nat : /\ Held(s, Len(s), b, q) /\ m + 1 <= b + 1
                        /\ Reaches(sent', s, m + 1, rx.accepted, b + 1, q.accepted)
  BY <1>9 DEF Tracks
<1>12. Reaches(sent', s, 1, <<>>, b + 1, q.accepted)
  <2> DEFINE i == m + 1
             j == b + 1
             old == rx.accepted
             acc == q.accepted
  <2>1. Reaches(sent', s, 1, <<>>, i, old) /\ Reaches(sent', s, i, old, j, acc)
    BY <1>8, <1>11
  <2> HIDE DEF i, j, old, acc
  <2>2. Reaches(sent', s, 1, <<>>, j, acc)
    BY <2>1, ReachSteps
  <2> QED
    BY <2>2 DEF j, acc
<1>13. CASE q.state # "frame"
  BY <1>11, <1>12, <1>13 DEF Referred
<1>14. CASE q.state = "frame"
  <2> DEFINE w == q.units
             r == Replay(q, w)
  <2>1. w \in Seq(Nat)
    BY <1>10 DEF Parser
  <2>2. Quiet(w)
    <3> QED
      BY <1>2, <1>3, <1>5, <1>6, <1>14, HurtEnd DEF q
  <2>3. r.state # "frame"
    BY <1>3, <1>10, <2>1, <2>2, QuietScan
  <2>4. Replays(sent', q, w, r)
    BY <2>1, ReplaysIn
  <2>5. /\ b + 2 + Len(w) = Len(s) /\ s[b + 1] = Sync0 /\ s[b + 2] = Sync1
        /\ \A c \in 1 .. Len(w) : s[b + 2 + c] = w[c]
    BY <1>11, <1>14 DEF Held
  <2>6. m <= b /\ PairAt(s, b + 1) /\ b + 2 + Len(w) <= Len(s)
    <3> DEFINE long == Len(w)
               all == Len(s)
    <3>1. long \in Nat /\ b + 2 + long = all /\ m + 1 <= b + 1 /\ all \in Nat
      BY <1>7, <1>11, <2>1, <2>5, LenProperties
    <3> HIDE DEF long, all
    <3>2. m <= b /\ b + 1 \in Nat /\ b + 1 # 0 /\ (b + 1) + 1 <= all /\ (b + 1) + 1 = b + 2
          /\ b + 2 + long <= all
      BY <1>7, <3>1
    <3> QED
      BY <2>5, <3>2 DEF PairAt, long, all
  <2> HIDE DEF w
  <2>7. Tracks(sent', s, b + 2 + Len(w), b + 3, q.accepted, r)
    BY <1>3, <1>6, <1>7, <1>10, <2>1, <2>5, <2>6, HurtReplay
  <2>8. Tracks(sent', s, Len(s), b + 3, q.accepted, r)
    BY <2>5, <2>7
  <2> HIDE DEF r
  <2> QED
    BY <1>11, <1>12, <2>3, <2>4, <2>8 DEF Referred, w
<1> QED
  BY <1>13, <1>14

\* Every step keeps the parser with the reference.
LEMMA ReferenceKeeps ==
  ASSUME IInv, LocalInv, ReferenceInv, Sendable, [Next]_vars
  PROVE  ReferenceInv'
<1>1. CASE UNCHANGED vars
  <2>1. sent' = sent /\ arrived' = arrived /\ faults' = faults /\ rx' = rx
    BY <1>1 DEF vars
  <2>2. Numbers' = Numbers /\ \A n : SyncFree(n)' <=> SyncFree(n)
    BY <2>1 DEF Numbers, SyncFree
  <2>3. Mild' <=> Mild
    BY <2>1, <2>2 DEF Mild
  <2> QED
    BY <2>1, <2>3 DEF ReferenceInv
<1>2. CASE Next
  <2>1. PICK frame \in Frames :
          ReceiveWhole(frame) \/ ReceiveDamaged(frame) \/ ReceiveShort(frame)
    BY <1>2 DEF Next
  <2> DEFINE n == Len(sent) + 1
             line == Line(n, frame)
  <2>2. n \in Nat /\ n # 0 /\ LengthOk(Len(frame.payload))
    <3>1. Len(sent) \in Nat /\ n \in Nat
      BY NextNumber
    <3> QED
      BY <3>1 DEF Sendable
  <2>3. CASE ReceiveWhole(frame)
    BY <2>2, <2>3, WholeReferred
  <2>4. CASE ReceiveDamaged(frame)
    <3>1. PICK d \in DOMAIN line, unit \in Noise :
            /\ unit # line[d]
            /\ Receive(frame, [line EXCEPT ![d] = unit])
            /\ Hurt
      BY <2>4 DEF ReceiveDamaged
    <3> DEFINE u == [line EXCEPT ![d] = unit]
    <3>2. u \in Seq(Nat)
      BY <2>2, <3>1, DamagedFacts
    <3>3. Free(n, frame) => FewPairs(u, Len(frame.payload))
      BY <2>2, DamagedPairs
    <3>4. Receive(frame, u)
      BY <3>1
    <3> HIDE DEF u
    <3> QED
      BY <3>1, <3>2, <3>3, <3>4, HurtReferred
  <2>5. CASE ReceiveShort(frame)
    <3>1. PICK first \in DOMAIN line, last \in DOMAIN line :
            /\ first <= last
            /\ Receive(frame, SubSeq(line, 1, first - 1) \o SubSeq(line, last + 1, Len(line)))
            /\ Hurt
      BY <2>5 DEF ReceiveShort
    <3> DEFINE u == SubSeq(line, 1, first - 1) \o SubSeq(line, last + 1, Len(line))
    <3>2. u \in Seq(Nat)
      BY <2>2, <3>1, ShortFacts
    <3>3. Free(n, frame) => FewPairs(u, Len(frame.payload))
      BY <2>2, <3>1, ShortPairs
    <3>4. Receive(frame, u)
      BY <3>1
    <3> HIDE DEF u
    <3> QED
      BY <3>1, <3>2, <3>3, <3>4, HurtReferred
  <2> QED
    BY <2>1, <2>3, <2>4, <2>5
<1> QED
  BY <1>1, <1>2

\* At first nothing arrived and nothing is found.
LEMMA ReferenceInit == ASSUME Init PROVE ReferenceInv
<1>1. sent = <<>> /\ arrived = <<>> /\ rx.state = "sync0" /\ rx.accepted = <<>>
  BY DEF Init
<1>2. Held(arrived, Len(arrived), 0, rx)
  BY <1>1, EmptySeq DEF Held
<1>3. Reaches(sent, arrived, 1, <<>>, 0 + 1, rx.accepted)
  BY <1>1, ReachSteps
<1>4. 0 \in Nat
  OBVIOUS
<1> QED
  BY <1>1, <1>2, <1>3, <1>4 DEF ReferenceInv, Referred

\* With the reference, the parser accepted what it finds.
LEMMA ReferenceEnough ==
  ASSUME IInv, ReferenceInv
  PROVE  AgreesWithReference
<1>1. SUFFICES ASSUME Mild PROVE rx.accepted = Reference(arrived)
  BY DEF AgreesWithReference, Mild
<1>2. rx \in Parser /\ Shape(rx) /\ arrived \in Seq(Nat) /\ sent \in Seq(Frames)
  BY DEF IInv, Follows, Sound
<1>3. Tracks(sent, arrived, Len(arrived), 1, <<>>, rx)
  <2>1. PICK b \in Nat : /\ Held(arrived, Len(arrived), b, rx)
                         /\ Reaches(sent, arrived, 1, <<>>, b + 1, rx.accepted)
    BY <1>1 DEF ReferenceInv, Referred
  <2>2. 1 <= b + 1
    OBVIOUS
  <2> QED
    BY <1>2, <2>1, <2>2, Zenon DEF Tracks
<1> QED
  BY <1>2, <1>3, TracksReference
-----------------------------------------------------------------------------
(* Theorems                                                                *)

\* However often units are scanned again, what the parser holds is the end of
\* the stream, its counts are those of the frames accepted, and each of these
\* arrived whole and in its turn; for any line, damages and number of frames.
THEOREM Inductive == Spec => []IInv
<1>1. Init => IInv
  BY InitKeeps
<1>2. IInv /\ [Next]_vars => IInv'
  BY NextKeeps
<1> QED
  BY <1>1, <1>2, PTL DEF Spec

\* Every variable holds a value of its kind, and no stream makes the candidate
\* outgrow g_rx_header, g_rx_payload and g_rx_crc.
THEOREM TypeCorrect == Spec => []TypeOK
<1>1. IInv => TypeOK
  <2> SUFFICES ASSUME IInv PROVE TypeOK
    OBVIOUS
  <2>1. rx \in Parser /\ Shape(rx) /\ rx.accepted \in Seq(Nat) /\ rx.units \in Seq(Nat)
    BY DEF IInv, Follows, Sound, Parser
  <2>2. rx.state \in {"sync0", "sync1", "frame"} /\ rx.gaps \in Nat /\ Len(rx.units) \in Nat
    BY <2>1, LenProperties DEF Parser
  <2>3. MaxPayload \in Nat
    BY SizesAssumption DEF SizesAssumption
  <2>4. Len(rx.units) < FrameMax - 2 /\ (rx.state # "frame" => rx.units = <<>>)
    BY <2>1, <2>2, <2>3 DEF Shape, FrameMax, HeaderUnits
  <2>5. Len(rx.last) <= 1
    <3>1. rx.last = IF rx.accepted = <<>> THEN <<>>
                    ELSE <<rx.accepted[Len(rx.accepted)] % SeqWrap>>
      BY DEF IInv, Follows, Sound
    <3> DEFINE seq == rx.accepted[Len(rx.accepted)] % SeqWrap
    <3>2. Len(<<>>) <= 1 /\ Len(<<seq>>) <= 1
      OBVIOUS
    <3> QED
      BY <3>1, <3>2
  <2> QED
    BY <2>2, <2>4, <2>5 DEF IInv, TypeOK
<1> QED
  BY <1>1, Inductive, PTL

\* The gaps counted are the holes in the frames accepted, but for holes of a
\* multiple of what the sequence number wraps at, whatever was scanned again.
THEOREM GapsCounted == Spec => []GapsAreHoles
<1>1. IInv => GapsAreHoles
  BY DEF IInv, Follows, Sound, Holes, GapsAreHoles
<1> QED
  BY <1>1, Inductive, PTL

\* what is published came whole, on the topic and in the size, once and in order
ArrivedWhole ==
  /\ \A n \in Members(rx.published) :
       n \in Numbers /\ Carried(sent, arrived, n) /\ Wanted(sent[n].topic, Len(sent[n].payload))
  /\ Ascending(rx.published)

\* With any number of damages and losses, whatever is published arrived whole,
\* as it was sent, on the inbound topic in the catalog's size, each frame once
\* and in order.
THEOREM NothingInvented == Spec => []ArrivedWhole
<1>1. IInv => ArrivedWhole
  <2> SUFFICES ASSUME IInv PROVE ArrivedWhole
    OBVIOUS
  <2>1. \A n \in Members(rx.published) :
          n \in Members(rx.accepted) /\ Wanted(sent[n].topic, Len(sent[n].payload))
    BY DEF IInv, Follows, Sound
  <2>2. \A n \in Members(rx.accepted) : Carried(sent, arrived, n)
    BY DEF IInv, Follows
  <2>3. DOMAIN sent = Numbers
    BY LenProperties DEF IInv, Numbers
  <2> QED
    BY <2>1, <2>2, <2>3 DEF ArrivedWhole, Carried, IInv, Follows, Sound
<1> QED
  BY <1>1, Inductive, PTL

\* With at most one unit damaged or one stretch lost, no frame that was hurt is
\* published: what is published is what was sent, on the inbound topic in the
\* catalog's size, each frame once and in order.
THEOREM PublishedCorrect == ASSUME MaxFaults <= 1 PROVE Spec => []PublishedAsSent
<1>1. Init => HurtInv
  BY InitKeeps
<1>2. IInv /\ HurtInv /\ [Next]_vars => HurtInv'
  BY NextKeeps
<1>3. HurtInv /\ ArrivedWhole => PublishedAsSent
  BY DEF HurtInv, ArrivedWhole, Members, Ascending, PublishedAsSent
<1> QED
  BY <1>1, <1>2, <1>3, Inductive, NothingInvented, PTL DEF Spec

\* One damage costs the frame it hits and no other, for any frames the parser
\* takes and whatever the sizes: every other frame is accepted as soon as as many
\* units as a frame can have have followed it.
THEOREM DamageStaysLocal == ASSUME Sendable PROVE Spec => []DamageIsLocal
<1>1. Init => RisingInv /\ LocalInv
  BY LocalInit
<1>2. IInv /\ RisingInv /\ LocalInv /\ [Next]_vars => RisingInv' /\ LocalInv'
  BY LocalKeeps
<1>3. IInv /\ RisingInv /\ LocalInv => DamageIsLocal
  BY LocalEnough
<1> QED
  BY <1>1, <1>2, <1>3, Inductive, PTL DEF Spec

\* For any frames the parser takes, and any bounds: the rescan of one level accepts
\* exactly what the ground side's decoder, which rescans without limit, finds in the
\* same stream, as long as one damage or loss at most hit the line and no frame
\* can be made to spell the sync word by it.
THEOREM RescanIsEnough == ASSUME Sendable PROVE Spec => []AgreesWithReference
<1>1. Init => IInv /\ LocalInv /\ RisingInv /\ ReferenceInv
  BY InitKeeps, LocalInit, ReferenceInit
<1>2. IInv /\ LocalInv /\ RisingInv /\ ReferenceInv /\ [Next]_vars
        => (IInv /\ LocalInv /\ RisingInv /\ ReferenceInv)'
  BY NextKeeps, LocalKeeps, ReferenceKeeps
<1>3. IInv /\ ReferenceInv => AgreesWithReference
  BY ReferenceEnough
<1> QED
  BY <1>1, <1>2, <1>3, PTL DEF Spec

=============================================================================
