-------------------------- MODULE ImuStream_proofs --------------------------
(***************************************************************************)
(* Restarts from two threads, for any pool of entries and any number of    *)
(* faults: the streams no handle names are no more than the restarts in    *)
(* which the watchdog came between the loop's cancel and its start.        *)
(***************************************************************************)
EXTENDS ImuStream, FiniteSetTheorems, TLAPS

-----------------------------------------------------------------------------
(* The strengthened invariant                                              *)

\* between its cancel and its start the loop counts on no handle
Restarting == loop \in {"drain", "start"}
\* the streams that the next cancel will not end
Leaked == IF Restarting THEN Uncancelled ELSE Uncancelled \ {handle}

LeakInv == Cardinality(Leaked) <= overtaken

IInv == TypeOK /\ LeakInv

-----------------------------------------------------------------------------
(* Sets of entries                                                         *)

\* Every set of entries is finite and has a size.
LEMMA EntriesFinite ==
  ASSUME NEW S \in SUBSET Entries
  PROVE  IsFiniteSet(S) /\ Cardinality(S) \in Nat
BY StreamAssumption, FS_Subset, FS_CardinalityType DEF StreamAssumption

\* A set with at most one entry more is larger by one at most.
LEMMA OneMore ==
  ASSUME NEW S \in SUBSET Entries, NEW T \in SUBSET Entries, NEW e, T \subseteq S \cup {e}
  PROVE  Cardinality(T) <= Cardinality(S) + 1
<1>1. IsFiniteSet(S) /\ Cardinality(S) \in Nat /\ Cardinality(T) \in Nat
  BY EntriesFinite
<1>2. IsFiniteSet(S \cup {e}) /\ Cardinality(S \cup {e}) <= Cardinality(S) + 1
  BY <1>1, FS_AddElement
<1>3. Cardinality(T) <= Cardinality(S \cup {e})
  BY <1>2, FS_Subset
<1> QED
  BY <1>1, <1>2, <1>3, FS_CardinalityType

\* A smaller set is no larger.
LEMMA NoMore ==
  ASSUME NEW S \in SUBSET Entries, NEW T \in SUBSET S
  PROVE  Cardinality(T) <= Cardinality(S)
BY EntriesFinite, FS_Subset

\* What cancelling does to the entries: the handle's stream is ended, no
\* other changes.
LEMMA CancelFacts ==
  ASSUME TypeOK
  PROVE  /\ Cancel(sqe) \in [Entries -> {"free", "live", "silent", "cancelled"}]
         /\ {e \in Entries : Cancel(sqe)[e] \in {"live", "silent"}} = Uncancelled \ {handle}
BY DEF TypeOK, Cancel, Uncancelled

\* What a start does: one entry more at most, and that one is the handle.
LEMMA StartFacts ==
  ASSUME TypeOK, NEW entries \in [Entries -> {"free", "live", "silent", "cancelled"}],
         Start(entries)
  PROVE  LET before == {e \in Entries : entries[e] \in {"live", "silent"}}
         IN /\ sqe' \in [Entries -> {"free", "live", "silent", "cancelled"}]
            /\ handle' \in Entries /\ faults' \in 0 .. MaxFaults
            /\ Uncancelled' \subseteq before \cup {handle'}
            /\ handle' # handle \/ sqe'[handle'] = "live" \/ sqe' = entries
            /\ Uncancelled' \ {handle'} \subseteq before
<1>1. CASE \E entry \in Entries : /\ entries[entry] = "free"
                                  /\ sqe' = [entries EXCEPT ![entry] = "live"]
                                  /\ handle' = entry
                                  /\ UNCHANGED faults
  BY <1>1 DEF TypeOK, Uncancelled
<1>2. CASE sqe' = entries /\ handle' = handle /\ faults' \in 0 .. MaxFaults
  BY <1>2 DEF TypeOK, Uncancelled
<1> QED
  BY <1>1, <1>2, StreamAssumption DEF Start, TypeOK, StreamAssumption

-----------------------------------------------------------------------------
(* The steps                                                               *)

\* What comes in is posted if the queue has room.
LEMMA PostFacts ==
  ASSUME TypeOK, NEW result \in {"good", "bad"}
  PROVE  Post(cq, result) \in Seq({"good", "bad"}) /\ Len(Post(cq, result)) <= CqCount
BY StreamAssumption DEF TypeOK, Post, StreamAssumption

\* The queue keeps its type and its bound when it is emptied or its head is taken.
LEMMA TakeFacts ==
  ASSUME TypeOK
  PROVE  /\ <<>> \in Seq({"good", "bad"}) /\ Len(<<>>) <= CqCount
         /\ cq # <<>> => Tail(cq) \in Seq({"good", "bad"}) /\ Len(Tail(cq)) <= CqCount
BY StreamAssumption DEF TypeOK, StreamAssumption

\* A step of the stream starts nothing.
LEMMA StreamInv ==
  ASSUME IInv, NEW entry \in Entries,
         Deliver(entry) \/ Misdeliver(entry) \/ FallSilent(entry) \/ Release(entry)
  PROVE  IInv'
<1>1. TypeOK'
  <2>1. cq' \in Seq({"good", "bad"}) /\ Len(cq') <= CqCount
    BY PostFacts DEF IInv, TypeOK, Deliver, Misdeliver, FallSilent, Release
  <2>2. sqe' \in [Entries -> {"free", "live", "silent", "cancelled"}] /\ faults' \in 0 .. MaxFaults
    BY StreamAssumption
    DEF IInv, TypeOK, Deliver, Misdeliver, FallSilent, Release, StreamAssumption
  <2>3. posted' \in BOOLEAN
    BY DEF IInv, TypeOK, Deliver, Misdeliver, FallSilent, Release
  <2>4. UNCHANGED <<handle, loop, imuOk, watchdog, history>>
    BY DEF Deliver, Misdeliver, FallSilent, Release
  <2> QED
    BY <2>1, <2>2, <2>3, <2>4 DEF IInv, TypeOK, watchdog, history
<1>2. Uncancelled' \subseteq Uncancelled /\ handle' = handle /\ loop' = loop
      /\ overtaken' = overtaken
  BY DEF IInv, TypeOK, Deliver, Misdeliver, FallSilent, Release, history, Uncancelled
<1>3. Leaked' \subseteq Leaked /\ Leaked \in SUBSET Entries
  BY <1>2 DEF Leaked, Restarting, Uncancelled
<1>4. Cardinality(Leaked') <= Cardinality(Leaked)
  BY <1>3, NoMore
<1> QED
  BY <1>1, <1>2, <1>3, <1>4, EntriesFinite DEF IInv, LeakInv, TypeOK

\* The loop's cancel ends the handle's stream, and its start makes the handle
\* name the new one.
LEMMA LoopInv ==
  ASSUME IInv, Loop
  PROVE  IInv'
<1>1. CASE ConsumeGood \/ ConsumeBad \/ LoopDrain
  <2>1. TypeOK'
    <3>1. cq' \in Seq({"good", "bad"}) /\ Len(cq') <= CqCount
      BY <1>1, TakeFacts DEF IInv, ConsumeGood, ConsumeBad, LoopDrain
    <3>2. CASE ConsumeGood
      BY <3>1, <3>2 DEF IInv, TypeOK, ConsumeGood
    <3>3. CASE ConsumeBad
      BY <3>1, <3>3 DEF IInv, TypeOK, ConsumeBad, watchdog, history
    <3>4. CASE LoopDrain
      BY <3>1, <3>4 DEF IInv, TypeOK, LoopDrain, watchdog, history
    <3> QED
      BY <1>1, <3>2, <3>3, <3>4
  <2>2. Leaked' = Leaked /\ overtaken' = overtaken
    BY <1>1 DEF ConsumeGood, ConsumeBad, LoopDrain, history, Leaked, Restarting, Uncancelled
  <2> QED
    BY <2>1, <2>2 DEF IInv, LeakInv
<1>2. CASE LoopCancel
  <2>1. TypeOK'
    BY <1>2, CancelFacts DEF IInv, TypeOK, LoopCancel, watchdog, history
  <2>2. Leaked' = Leaked /\ overtaken' = overtaken
    BY <1>2, CancelFacts DEF IInv, LoopCancel, history, Leaked, Restarting, Uncancelled
  <2> QED
    BY <2>1, <2>2 DEF IInv, LeakInv
<1>3. CASE LoopStart
  <2>1. TypeOK /\ Start(sqe) /\ sqe \in [Entries -> {"free", "live", "silent", "cancelled"}]
    BY <1>3 DEF LoopStart, IInv, TypeOK
  <2>2. TypeOK'
    BY <1>3, <2>1, StartFacts DEF TypeOK, LoopStart, watchdog, history
  <2>3. Leaked' \subseteq Leaked /\ overtaken' = overtaken
    BY <1>3, <2>1, StartFacts DEF LoopStart, history, Leaked, Restarting, Uncancelled
  <2>4. Cardinality(Leaked') <= Cardinality(Leaked)
    BY <2>3, NoMore DEF Leaked, Uncancelled
  <2>5. Cardinality(Leaked) \in Nat /\ Cardinality(Leaked') \in Nat
    BY <2>3, EntriesFinite DEF Leaked, Uncancelled
  <2> QED
    BY <2>2, <2>3, <2>4, <2>5 DEF IInv, LeakInv, TypeOK
<1> QED
  BY <1>1, <1>2, <1>3 DEF Loop

\* A check's flags and counts keep their types.
LEMMA CheckFacts ==
  ASSUME TypeOK, WatchdogCheck
  PROVE  /\ due' \in BOOLEAN /\ primed' \in BOOLEAN /\ moved' \in BOOLEAN /\ posted' \in BOOLEAN
         /\ overtaken' \in Nat /\ silent' \in 0 .. 2
<1>1. due' \in BOOLEAN /\ primed' \in BOOLEAN /\ moved' \in BOOLEAN /\ posted' \in BOOLEAN
  BY DEF TypeOK, WatchdogCheck, Primed
<1>2. overtaken' \in Nat /\ silent' \in 0 .. 2
  BY DEF TypeOK, WatchdogCheck
<1> QED
  BY <1>1, <1>2

\* The watchdog replaces the handle's stream, or adds one inside the loop's
\* restart, and then it is counted.
LEMMA WatchdogInv ==
  ASSUME IInv, WatchdogCheck
  PROVE  IInv'
<1>1. CASE Trips
  <2>1. TypeOK /\ Start(Cancel(sqe))
        /\ Cancel(sqe) \in [Entries -> {"free", "live", "silent", "cancelled"}]
    BY <1>1, CancelFacts DEF WatchdogCheck, IInv
  <2>2. TypeOK'
    <3>1. /\ sqe' \in [Entries -> {"free", "live", "silent", "cancelled"}]
          /\ handle' \in Entries /\ faults' \in 0 .. MaxFaults
      BY <2>1, StartFacts
    <3>2. cq' \in Seq({"good", "bad"}) /\ Len(cq') <= CqCount
      BY <1>1, <2>1, TakeFacts DEF WatchdogCheck
    <3> QED
      BY <2>1, <3>1, <3>2, CheckFacts DEF TypeOK, WatchdogCheck
  <2>3. /\ Uncancelled' \subseteq (Uncancelled \ {handle}) \cup {handle'}
        /\ Uncancelled' \ {handle'} \subseteq Uncancelled \ {handle}
        /\ handle' \in Entries
    BY <2>1, StartFacts, CancelFacts
  <2>4. Cardinality(Leaked) \in Nat /\ Cardinality(Leaked') \in Nat /\ overtaken \in Nat
    BY <2>1, <2>3, EntriesFinite DEF Leaked, Uncancelled, TypeOK
  <2>5. CASE Restarting
    <3>1. Leaked' \subseteq Leaked \cup {handle'} /\ overtaken' = overtaken + 1
      BY <1>1, <2>3, <2>5 DEF Leaked, Restarting, WatchdogCheck
    <3>2. Cardinality(Leaked') <= Cardinality(Leaked) + 1
      BY <3>1, OneMore DEF Leaked, Uncancelled
    <3> QED
      BY <2>2, <2>4, <3>1, <3>2 DEF IInv, LeakInv
  <2>6. CASE ~Restarting
    <3>1. Leaked' \subseteq Leaked /\ overtaken' = overtaken
      BY <1>1, <2>3, <2>6 DEF Leaked, Restarting, WatchdogCheck
    <3>2. Cardinality(Leaked') <= Cardinality(Leaked)
      BY <3>1, NoMore DEF Leaked, Uncancelled
    <3> QED
      BY <2>2, <2>4, <3>1, <3>2 DEF IInv, LeakInv
  <2> QED
    BY <2>5, <2>6
<1>2. CASE ~Trips
  <2>1. TypeOK'
    BY <1>2, CheckFacts DEF IInv, TypeOK, WatchdogCheck, stream
  <2>2. Leaked' = Leaked /\ overtaken' = overtaken
    BY <1>2 DEF WatchdogCheck, stream, Leaked, Restarting, Uncancelled
  <2> QED
    BY <2>1, <2>2 DEF IInv, LeakInv
<1> QED
  BY <1>1, <1>2

-----------------------------------------------------------------------------
(* The theorems                                                            *)

\* Every behaviour keeps the invariant.
THEOREM Inductive == Spec => []IInv
<1>1. Init => IInv
  <2> SUFFICES ASSUME Init PROVE IInv
    OBVIOUS
  <2>1. TypeOK
    <3>1. cq \in Seq({"good", "bad"}) /\ Len(cq) <= CqCount
      BY StreamAssumption DEF Init, StreamAssumption
    <3>2. sqe \in [Entries -> {"free", "live", "silent", "cancelled"}]
      BY DEF Init
    <3>3. faults \in 0 .. MaxFaults /\ overtaken \in Nat /\ silent \in 0 .. 2
      BY StreamAssumption DEF Init, StreamAssumption
    <3> QED
      BY <3>1, <3>2, <3>3 DEF Init, TypeOK
  <2>2. Leaked = {}
    BY DEF Init, Leaked, Restarting, Uncancelled
  <2> QED
    BY <2>1, <2>2, FS_EmptySet DEF Init, IInv, LeakInv
<1>2. IInv /\ [Next]_vars => IInv'
  <2> SUFFICES ASSUME IInv, [Next]_vars PROVE IInv'
    OBVIOUS
  <2>1. CASE \E entry \in Entries :
               Deliver(entry) \/ Misdeliver(entry) \/ FallSilent(entry) \/ Release(entry)
    BY <2>1, StreamInv
  <2>2. CASE Loop
    BY <2>2, LoopInv
  <2>3. CASE Elapse \/ UNCHANGED vars
    <3>1. TypeOK'
      BY <2>3 DEF IInv, TypeOK, Elapse, vars, stream, watchdog, history
    <3>2. Leaked' = Leaked /\ overtaken' = overtaken
      BY <2>3 DEF Elapse, vars, stream, history, Leaked, Restarting, Uncancelled
    <3> QED
      BY <3>1, <3>2 DEF IInv, LeakInv
  <2>4. CASE WatchdogCheck
    BY <2>4, WatchdogInv
  <2> QED
    BY <2>1, <2>2, <2>3, <2>4 DEF Next
<1> QED
  BY <1>1, <1>2, PTL DEF Spec

\* Every variable holds a value of its kind and the completion queue never
\* outgrows its size.
THEOREM TypeCorrect == Spec => []TypeOK
<1>1. IInv => TypeOK
  BY DEF IInv
<1> QED
  BY <1>1, Inductive, PTL

\* At most one stream runs that nobody has cancelled, and one more for each
\* restart of the loop's that the watchdog overtook.
THEOREM LeaksCounted == Spec => []LeakBounded
<1>1. IInv => LeakBounded
  <2> SUFFICES ASSUME IInv PROVE LeakBounded
    OBVIOUS
  <2>1. Leaked \in SUBSET Entries /\ Uncancelled \in SUBSET Entries
        /\ Uncancelled \subseteq Leaked \cup {handle}
    BY DEF Leaked, Uncancelled
  <2>2. Cardinality(Uncancelled) <= Cardinality(Leaked) + 1
    BY <2>1, OneMore
  <2> QED
    BY <2>1, <2>2, EntriesFinite DEF IInv, TypeOK, LeakInv, LeakBounded
<1> QED
  BY <1>1, Inductive, PTL

=============================================================================
