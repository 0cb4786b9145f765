--------------------------- MODULE SerialTx_proofs ---------------------------
(***************************************************************************)
(* The safety properties of the transmit half for any number of topics,    *)
(* any ring and any frame size.  The properties about the samples rest on  *)
(* how a generation moves through one turn of tx_topic_if_due, the one     *)
(* about the scan on the phases rdd2_zros_serial_pause goes through.       *)
(***************************************************************************)
EXTENDS SerialTx, SequenceTheorems, TLAPS

-----------------------------------------------------------------------------
(* The strengthened invariants                                             *)

Composing == thread \in {"put", "enable", "record"}

\* the kinds of values the arguments below compute with
KindsInv ==
  /\ generation \in [Topics -> Nat]
  /\ slot \in [Topics -> [generation : Nat, waiting : BOOLEAN]]
  /\ composed \in [Topics -> Nat] /\ repeats \in [Topics -> Nat]
  /\ at \in Topics /\ sampled \in Nat /\ frame \in Nat
  /\ ctrl \in Enables /\ copy \in Enables

\* no sample is recorded before it is composed, nor composed before it is
\* published, and a turn's generation lies between what the topic had
\* composed when the turn began and what it has now
SampleInv ==
  /\ \A topic \in Topics : slot[topic].generation <= composed[topic]
  /\ \A topic \in Topics : composed[topic] <= generation[topic]
  /\ thread = "read" => composed[at] <= sampled /\ sampled <= generation[at]
                        /\ slot[at].generation < sampled
  /\ Composing => sampled <= composed[at] /\ slot[at].generation < sampled

\* a sample composed twice is recorded, or is about to be
RepeatInv ==
  \A topic \in Topics :
    /\ repeats[topic] <= 2
    /\ composed[topic] = 0 => repeats[topic] = 0
    /\ repeats[topic] = 2 =>
         \/ slot[topic].generation = composed[topic]
         \/ Composing /\ at = topic /\ sampled = composed[topic]

\* what each phase of a scan has already switched off
ScanInv ==
  /\ shell # "idle" => paused /\ thread = "sleep"
  /\ shell \in {"reset", "open", "rx off", "listen", "rx on", "resume"} => ~ctrl.tx
  /\ shell \in {"open", "rx off", "listen", "rx on", "resume"} => ring = <<>> /\ taken = 0
  /\ shell \in {"rx off", "rx on"} => ~copy.tx
  /\ shell \in {"listen", "rx on"} /\ own => ~ctrl.rx
  /\ shell \in {"open", "rx off", "rx on"} => own

IInv == KindsInv /\ SampleInv /\ RepeatInv /\ ScanInv

-----------------------------------------------------------------------------
(* The initial state                                                       *)

LEMMA InitInv == SerialTxAssumption /\ Init => IInv
  BY DEF SerialTxAssumption, Init, IInv, KindsInv, SampleInv, RepeatInv, ScanInv, Composing,
         Topics, Enables

-----------------------------------------------------------------------------
(* Publishers and time                                                     *)

LEMMA PublishInv == ASSUME IInv, NEW topic \in Topics, Publish(topic) PROVE IInv'
<1>1. generation' = [generation EXCEPT ![topic] = generation[topic] + 1]
  BY DEF Publish
<1>2. UNCHANGED <<threadVars, ring, taken, ctrl, shellVars>>
  BY DEF Publish
<1>3. KindsInv'
  BY <1>1, <1>2 DEF IInv, KindsInv, threadVars, shellVars
<1>4. \A other \in Topics : generation[other] <= generation'[other]
  BY <1>1 DEF IInv, KindsInv
<1>5. SampleInv'
  BY <1>2, <1>3, <1>4 DEF IInv, KindsInv, SampleInv, Composing, threadVars
<1>6. RepeatInv' /\ ScanInv'
  BY <1>2 DEF IInv, RepeatInv, ScanInv, Composing, threadVars, shellVars
<1>7. QED
  BY <1>3, <1>5, <1>6 DEF IInv

LEMMA ElapseInv == ASSUME IInv, NEW topic \in Topics, Elapse(topic) PROVE IInv'
<1>1. slot' = [slot EXCEPT ![topic].waiting = FALSE]
  BY DEF Elapse
<1>2. UNCHANGED <<generation, thread, at, sampled, frame, composed, repeats, ring, taken, ctrl,
                  shellVars>>
  BY DEF Elapse
<1>3. KindsInv'
  BY <1>1, <1>2 DEF IInv, KindsInv, shellVars
<1>4. \A other \in Topics : slot'[other].generation = slot[other].generation
  BY <1>1 DEF IInv, KindsInv
<1>5. SampleInv' /\ RepeatInv'
  BY <1>2, <1>4 DEF IInv, KindsInv, SampleInv, RepeatInv, Composing
<1>6. ScanInv'
  BY <1>2 DEF IInv, ScanInv, shellVars
<1>7. QED
  BY <1>3, <1>5, <1>6 DEF IInv

-----------------------------------------------------------------------------
(* The transport thread                                                    *)

\* A thread step never meets a scan: the scan's phases need the thread asleep,
\* and a paused thread does not poll.
LEMMA ThreadScan == ASSUME IInv, Thread PROVE ScanInv'
<1>1. shell = "idle"
  BY DEF IInv, ScanInv, Thread, ThreadPoll, MayPoll, ThreadSample, ThreadRead, ThreadPut,
         ThreadEnable, ThreadRecord
<1>2. UNCHANGED shellVars
  BY DEF Thread, ThreadPoll, ThreadSample, ThreadRead, ThreadPut, ThreadEnable, ThreadRecord
<1>3. QED
  BY <1>1, <1>2 DEF ScanInv, shellVars

LEMMA AdvanceType ==
  ASSUME at \in Topics, SerialTxAssumption, Advance
  PROVE  at' \in Topics /\ thread' \in {"topic", "sleep"}
  BY DEF SerialTxAssumption, Advance, Topics

LEMMA ThreadInv == ASSUME SerialTxAssumption, IInv, Thread PROVE IInv'
<1>1. ScanInv'
  BY ThreadScan
<1>2. CASE ThreadPoll
  <2>1. UNCHANGED <<generation, slot, at, sampled, frame, ctrl, copy, composed, repeats>>
    BY <1>2 DEF ThreadPoll, shellVars
  <2>2. ~Composing /\ ~Composing' /\ thread' # "read"
    BY <1>2 DEF ThreadPoll, Composing
  <2>3. QED
    BY <1>1, <2>1, <2>2 DEF IInv, KindsInv, SampleInv, RepeatInv
<1>3. CASE ThreadSample /\ Due
  <2>1. UNCHANGED <<generation, slot, at, frame, ctrl, copy, composed, repeats>>
    BY <1>3 DEF ThreadSample, shellVars
  <2>2. sampled' = generation[at] /\ thread = "topic" /\ thread' = "read"
    BY <1>3 DEF ThreadSample
  <2>3. slot[at].generation < generation[at]
    <3>1. /\ at \in Topics /\ slot[at].generation \in Nat /\ composed[at] \in Nat
          /\ generation[at] \in Nat
      BY DEF IInv, KindsInv
    <3>2. slot[at].generation <= composed[at] /\ composed[at] <= generation[at]
      BY <3>1 DEF IInv, SampleInv
    <3>3. generation[at] # slot[at].generation
      BY <1>3 DEF Due
    <3>4. QED
      BY <3>1, <3>2, <3>3
  <2>4. KindsInv' /\ SampleInv'
    BY <2>1, <2>2, <2>3 DEF IInv, KindsInv, SampleInv, Composing
  <2>5. RepeatInv'
    BY <2>1, <2>2 DEF IInv, RepeatInv, Composing
  <2>6. QED
    BY <1>1, <2>4, <2>5 DEF IInv
<1>4. CASE ThreadSample /\ ~Due
  <2>1. UNCHANGED <<generation, slot, sampled, frame, ctrl, copy, composed, repeats>>
    BY <1>4 DEF ThreadSample, shellVars
  <2>2. at' \in Topics /\ ~Composing /\ ~Composing' /\ thread' # "read"
    BY <1>4, AdvanceType DEF ThreadSample, Composing, IInv, KindsInv
  <2>3. QED
    BY <1>1, <2>1, <2>2 DEF IInv, KindsInv, SampleInv, RepeatInv
<1>5. CASE ThreadRead
  <2>1. UNCHANGED <<generation, slot, at, sampled, ctrl, copy>>
    BY <1>5 DEF ThreadRead, shellVars
  <2>2. /\ frame' = generation[at] /\ thread = "read" /\ thread' = "put"
        /\ composed' = [composed EXCEPT ![at] = generation[at]]
        /\ repeats' = [repeats EXCEPT ![at] = IF composed[at] = generation[at]
                                              THEN repeats[at] + 1 ELSE 1]
    BY <1>5 DEF ThreadRead
  <2>3. KindsInv'
    BY <2>1, <2>2 DEF IInv, KindsInv
  <2>4. SampleInv'
    BY <2>1, <2>2, <2>3 DEF IInv, KindsInv, SampleInv, Composing
  <2>5. /\ at \in Topics /\ slot[at].generation \in Nat /\ composed[at] \in Nat
        /\ generation[at] \in Nat /\ sampled \in Nat /\ repeats[at] \in Nat
        /\ composed[at] <= sampled /\ sampled <= generation[at]
        /\ slot[at].generation < sampled
    BY <2>2 DEF IInv, KindsInv, SampleInv
  <2>6. generation[at] # 0
    BY <2>5
  <2>7. composed[at] = generation[at] => sampled = generation[at] /\ repeats[at] < 2
    <3>1. repeats[at] <= 2
      BY <2>5 DEF IInv, RepeatInv
    <3>2. repeats[at] = 2 => slot[at].generation = composed[at]
      BY <2>2, <2>5 DEF IInv, RepeatInv, Composing
    <3>3. QED
      BY <2>5, <3>1, <3>2
  <2>8. ASSUME NEW topic \in Topics
        PROVE  /\ repeats'[topic] <= 2
               /\ composed'[topic] = 0 => repeats'[topic] = 0
               /\ repeats'[topic] = 2 =>
                    \/ slot'[topic].generation = composed'[topic]
                    \/ Composing' /\ at' = topic /\ sampled' = composed'[topic]
    <3>1. CASE topic = at
      BY <2>1, <2>2, <2>5, <2>6, <2>7, <3>1 DEF IInv, KindsInv, Composing
    <3>2. CASE topic # at
      BY <2>1, <2>2, <3>2 DEF IInv, KindsInv, RepeatInv, Composing
    <3>3. QED
      BY <3>1, <3>2
  <2>9. RepeatInv'
    BY <2>8 DEF RepeatInv
  <2>10. QED
    BY <1>1, <2>3, <2>4, <2>9 DEF IInv
<1>6. CASE ThreadPut \/ ThreadEnable
  <2>1. UNCHANGED <<generation, slot, at, sampled, frame, copy, composed, repeats>>
    BY <1>6 DEF ThreadPut, ThreadEnable, shellVars
  <2>2. ctrl' \in Enables
    BY <1>6 DEF ThreadPut, ThreadEnable, IInv, KindsInv, Enables
  <2>3. Composing /\ Composing' /\ thread' # "read"
    BY <1>6 DEF ThreadPut, ThreadEnable, Composing
  <2>4. QED
    BY <1>1, <2>1, <2>2, <2>3 DEF IInv, KindsInv, SampleInv, RepeatInv
<1>7. CASE ThreadRecord
  <2>1. UNCHANGED <<generation, sampled, frame, ctrl, copy, composed, repeats>>
    BY <1>7 DEF ThreadRecord, shellVars
  <2>2. slot' = [slot EXCEPT ![at] = [generation |-> sampled, waiting |-> TRUE]]
    BY <1>7 DEF ThreadRecord, Recorded
  <2>3. at' \in Topics /\ Composing /\ ~Composing' /\ thread' # "read"
    BY <1>7, AdvanceType DEF ThreadRecord, Composing, IInv, KindsInv
  <2>4. KindsInv'
    BY <2>1, <2>2, <2>3 DEF IInv, KindsInv
  <2>5. SampleInv'
    BY <2>1, <2>2, <2>3 DEF IInv, KindsInv, SampleInv
  <2>6. RepeatInv'
    <3>1. slot'[at].generation = sampled /\ at \in Topics
      BY <2>2 DEF IInv, KindsInv
    <3>2. \A topic \in Topics \ {at} : slot'[topic] = slot[topic]
      BY <2>2 DEF IInv, KindsInv
    <3>3. ASSUME NEW topic \in Topics
          PROVE  /\ repeats[topic] <= 2
                 /\ composed[topic] = 0 => repeats[topic] = 0
                 /\ repeats[topic] = 2 => slot'[topic].generation = composed[topic]
      <4>1. CASE topic = at
        <5>1. repeats[topic] <= 2 /\ (composed[topic] = 0 => repeats[topic] = 0)
          BY DEF IInv, RepeatInv
        <5>2. slot[at].generation # composed[at]
          BY <2>3, <3>1 DEF IInv, SampleInv, KindsInv
        <5>3. repeats[topic] = 2 => sampled = composed[topic]
          BY <4>1, <5>2 DEF IInv, RepeatInv
        <5>4. QED
          BY <3>1, <4>1, <5>1, <5>3
      <4>2. CASE topic # at
        BY <3>2, <4>2 DEF IInv, RepeatInv
      <4>3. QED
        BY <4>1, <4>2
    <3>4. QED
      BY <2>1, <3>3 DEF RepeatInv
  <2>7. QED
    BY <1>1, <2>4, <2>5, <2>6 DEF IInv
<1>8. QED
  BY <1>2, <1>3, <1>4, <1>5, <1>6, <1>7 DEF Thread

-----------------------------------------------------------------------------
(* The handler and the shell                                               *)

\* Neither touches what the thread keeps about samples.
LEMMA SamplesKept ==
  ASSUME IInv, UNCHANGED <<generation, threadVars>>, ctrl' \in Enables, copy' \in Enables
  PROVE  KindsInv' /\ SampleInv' /\ RepeatInv'
  BY DEF IInv, KindsInv, SampleInv, RepeatInv, Composing, threadVars

LEMMA InterruptInv == ASSUME IInv, Interrupt PROVE IInv'
<1>1. UNCHANGED <<generation, threadVars, shellVars>>
  BY DEF Interrupt, Drain, DrainEmpty
<1>2. ctrl' \in Enables /\ copy' \in Enables
  BY <1>1 DEF Interrupt, Drain, DrainEmpty, IInv, KindsInv, Enables, shellVars
<1>3. ctrl.tx
  BY DEF Interrupt, Drain, DrainEmpty
<1>4. shell \in {"idle", "settle", "tx off"} \/ shell \notin {"reset", "open", "rx off", "listen",
                                                             "rx on", "resume"}
  BY <1>3 DEF IInv, ScanInv
<1>5. ScanInv'
  BY <1>1, <1>3, <1>4 DEF IInv, ScanInv, shellVars, threadVars
<1>6. QED
  BY <1>1, <1>2, <1>5, SamplesKept DEF IInv

LEMMA ScanStep == ASSUME IInv, Scan PROVE IInv'
<1>1. UNCHANGED <<generation, threadVars>> /\ thread = "sleep"
  BY DEF Scan, PauseBegin, PauseTxLoad, PauseTxStore, PauseReset, OpenLoad, OpenStore, CloseLoad,
         CloseStore, PauseEnd, LoadCtrl, StoreCtrl, Shell, ShellMayRun
<1>2. ctrl' \in Enables /\ copy' \in Enables
  BY DEF Scan, PauseBegin, PauseTxLoad, PauseTxStore, PauseReset, OpenLoad, OpenStore, CloseLoad,
         CloseStore, PauseEnd, LoadCtrl, StoreCtrl, IInv, KindsInv, Enables
<1>3. SUFFICES ScanInv'
  BY <1>1, <1>2, SamplesKept DEF IInv
<1>4. CASE PauseBegin
  BY <1>1, <1>4 DEF PauseBegin, Shell, IInv, ScanInv, threadVars
<1>5. CASE PauseTxLoad \/ OpenLoad \/ CloseLoad
  BY <1>1, <1>5 DEF PauseTxLoad, OpenLoad, CloseLoad, LoadCtrl, Shell, IInv, ScanInv, threadVars
<1>6. CASE PauseTxStore \/ OpenStore \/ CloseStore
  BY <1>1, <1>6 DEF PauseTxStore, OpenStore, CloseStore, StoreCtrl, Shell, IInv, KindsInv, Enables,
                    ScanInv, threadVars
<1>7. CASE PauseReset
  BY <1>1, <1>7 DEF PauseReset, EmptiedRing, IInv, ScanInv, threadVars
<1>8. CASE PauseEnd
  BY <1>1, <1>8 DEF PauseEnd, IInv, ScanInv, threadVars
<1>9. QED
  BY <1>4, <1>5, <1>6, <1>7, <1>8 DEF Scan

-----------------------------------------------------------------------------
(* Type correctness                                                        *)

\* a frame that is about to be put holds a sample that was published
TypeInv ==
  /\ TypeOK
  /\ thread = "read" => generation[at] # 0
  /\ thread = "put" => frame # 0

\* The parts of the type invariant the arguments about the ring use.
LEMMA RingFacts ==
  ASSUME TypeOK
  PROVE  ring \in Seq(Frames) /\ taken \in 0 .. FrameUnits - 1 /\ Used \in 0 .. RingUnits
BY Zenon DEF TypeOK

\* A frame that fits leaves the ring within its size.
LEMMA RingPut ==
  ASSUME SerialTxAssumption, TypeOK, Fits,
         NEW one \in Frames, ring' = Append(ring, one), taken' = taken
  PROVE  ring' \in Seq(Frames) /\ Used' \in 0 .. RingUnits
<1>1. Len(ring) \in Nat /\ Len(ring') = Len(ring) + 1 /\ ring' \in Seq(Frames)
  BY RingFacts, AppendProperties, LenProperties
<1>2. FrameUnits \in Nat /\ RingUnits \in Nat /\ taken \in Nat /\ Used \in Nat
  BY RingFacts DEF SerialTxAssumption
<1>3. (Len(ring) + 1) * FrameUnits = Len(ring) * FrameUnits + FrameUnits
  BY <1>1, <1>2
<1>4. Len(ring) * FrameUnits \in Nat
  BY <1>1, <1>2
<1>5. Used' = Used + FrameUnits
  BY <1>1, <1>2, <1>3, <1>4 DEF Used
<1> QED
  BY <1>1, <1>2, <1>5 DEF Fits

\* A unit drained is one less used, and a ring in use holds a whole frame of them.
LEMMA RingDrain ==
  ASSUME SerialTxAssumption, TypeOK, Drain
  PROVE  /\ ring' \in Seq(Frames) /\ taken' \in 0 .. FrameUnits - 1 /\ Used' \in 0 .. RingUnits
         /\ shown' \in [Topics -> Samples]
<1>1. /\ ring \in Seq(Frames) /\ ring # <<>> /\ Len(ring) \in Nat /\ Len(ring) >= 1
      /\ FrameUnits \in Nat /\ FrameUnits >= 1 /\ RingUnits \in Nat
      /\ taken \in Nat /\ taken < FrameUnits /\ Used <= RingUnits
  <2>1. ring # <<>>
    BY DEF Drain
  <2> QED
    BY <2>1, RingFacts, EmptySeq DEF SerialTxAssumption
<1>2. PICK rest \in Nat : Len(ring) = rest + 1
  <2>1. Len(ring) - 1 \in Nat /\ Len(ring) = (Len(ring) - 1) + 1
    BY <1>1
  <2> QED
    BY <2>1
<1>3. Len(ring) * FrameUnits = rest * FrameUnits + FrameUnits /\ rest * FrameUnits \in Nat
  BY <1>1, <1>2
<1>4. CASE taken + 1 = FrameUnits
  <2>1. /\ ring' = Tail(ring) /\ taken' = 0
        /\ shown' = [shown EXCEPT ![Head(ring).topic] = Head(ring).sample]
    BY <1>4 DEF Drain
  <2>2. ring' \in Seq(Frames) /\ Len(ring') = rest /\ Head(ring) \in Frames
    BY <1>1, <1>2, <2>1, HeadTailProperties
  <2>3. Used' = rest * FrameUnits
    BY <1>1, <1>3, <2>1, <2>2 DEF Used
  <2>4. Used = rest * FrameUnits + 1
    BY <1>1, <1>3, <1>4 DEF Used
  <2>5. shown' \in [Topics -> Samples]
    <3>1. shown \in [Topics -> Samples]
      BY Zenon DEF TypeOK
    <3>2. Head(ring).topic \in Topics /\ Head(ring).sample \in Samples
      BY <2>2, SerialTxAssumption DEF Frames, Samples, SerialTxAssumption
    <3> QED
      BY <2>1, <3>1, <3>2
  <2> QED
    BY <1>1, <1>3, <2>1, <2>2, <2>3, <2>4, <2>5
<1>5. CASE taken + 1 # FrameUnits
  <2>1. ring' = ring /\ taken' = taken + 1 /\ shown' = shown
    BY <1>5 DEF Drain
  <2>2. Used' = rest * FrameUnits + FrameUnits - taken - 1
    BY <1>1, <1>3, <2>1 DEF Used
  <2>3. Used = rest * FrameUnits + FrameUnits - taken
    BY <1>1, <1>3 DEF Used
  <2> QED
    <3>1. shown \in [Topics -> Samples]
      BY Zenon DEF TypeOK
    <3>2. taken' \in 0 .. FrameUnits - 1
      BY <1>1, <1>5, <2>1
    <3>3. Used' \in 0 .. RingUnits
      BY <1>1, <1>3, <2>2, <2>3
    <3> QED
      BY <1>1, <2>1, <3>1, <3>2, <3>3
<1> QED
  BY <1>4, <1>5

\* A publish counts its topic on.
LEMMA TypePublish ==
  ASSUME SerialTxAssumption, TypeInv, NEW topic \in Topics, Publish(topic)
  PROVE  TypeInv'
<1>3. generation \in [Topics -> Samples] /\ at \in Topics
  BY Zenon DEF TypeInv, TypeOK
<1>4. generation[topic] < MaxPublish /\ generation' = [generation EXCEPT ![topic] = @ + 1]
  BY DEF Publish
<1>5. generation[topic] + 1 \in Samples /\ generation[topic] + 1 # 0
  BY <1>3, <1>4 DEF Samples, SerialTxAssumption
<1>1. generation' \in [Topics -> Samples]
  BY <1>3, <1>4, <1>5
<1>2. thread = "read" => generation'[at] # 0
  BY <1>3, <1>4, <1>5 DEF TypeInv
<1> QED
  BY <1>1, <1>2 DEF TypeInv, TypeOK, Publish, threadVars, shellVars, Used

LEMMA TypeElapse == ASSUME TypeInv, NEW topic \in Topics, Elapse(topic) PROVE TypeInv'
<1>1. slot' \in [Topics -> [generation : Samples, waiting : BOOLEAN]]
  BY DEF TypeInv, TypeOK, Elapse
<1> QED
  BY <1>1 DEF TypeInv, TypeOK, Elapse, shellVars, Used

\* One step of the transport thread.
LEMMA TypeThread == ASSUME SerialTxAssumption, TypeInv, Thread PROVE TypeInv'
<1>1. UNCHANGED <<generation, shellVars, shown>>
  BY DEF Thread, ThreadPoll, ThreadSample, ThreadRead, ThreadPut, ThreadEnable, ThreadRecord
<1>2. CASE ThreadPoll
  BY <1>1, <1>2 DEF TypeInv, TypeOK, ThreadPoll, shellVars, Used
<1>3. CASE ThreadSample /\ Due
  <2>1. /\ sampled' = generation[at] /\ thread' = "read" /\ generation[at] # 0
        /\ UNCHANGED <<slot, at, frame, ring, taken, ctrl, composed, repeats, lost>>
    BY <1>3 DEF ThreadSample, Due
  <2> QED
    BY <1>1, <2>1 DEF TypeInv, TypeOK, shellVars, Used
<1>4. CASE ThreadSample /\ ~Due
  <2>1. /\ Advance
        /\ UNCHANGED <<sampled, slot, frame, ring, taken, ctrl, composed, repeats, lost>>
    BY <1>4 DEF ThreadSample
  <2>2. at' \in Topics /\ thread' \in {"topic", "sleep"}
    BY <2>1, AdvanceType DEF TypeInv, TypeOK
  <2> QED
    BY <1>1, <2>1, <2>2 DEF TypeInv, TypeOK, shellVars, Used
<1>5. CASE ThreadRead
  <2>1. /\ frame' = generation[at] /\ generation[at] # 0 /\ generation[at] \in Samples
        /\ thread' = "put" /\ UNCHANGED <<slot, at, sampled, ring, taken, ctrl, lost>>
    BY <1>5 DEF ThreadRead, TypeInv, TypeOK
  <2>2. repeats' \in [Topics -> Nat] /\ composed' \in [Topics -> Samples]
    <3>1. at \in Topics /\ repeats \in [Topics -> Nat] /\ composed \in [Topics -> Samples]
      BY Zenon DEF TypeInv, TypeOK
    <3>2. /\ repeats' = [repeats EXCEPT ![at] = IF composed[at] = frame' THEN @ + 1 ELSE 1]
          /\ composed' = [composed EXCEPT ![at] = frame']
      BY <1>5 DEF ThreadRead
    <3> QED
      BY <2>1, <3>1, <3>2
  <2> QED
    BY <1>1, <2>1, <2>2 DEF TypeInv, TypeOK, shellVars, Used
<1>6. CASE ThreadPut /\ Fits
  <2>1. /\ ring' = Append(ring, [topic |-> at, sample |-> frame]) /\ thread' = "enable"
        /\ lost' = lost \ {at}
        /\ UNCHANGED <<slot, at, sampled, frame, taken, ctrl, composed, repeats>>
    BY <1>6 DEF ThreadPut
  <2>2. [topic |-> at, sample |-> frame] \in Frames
    <3>1. at \in Topics /\ frame \in Samples /\ frame # 0
      BY <1>6, Zenon DEF ThreadPut, TypeInv, TypeOK
    <3> QED
      BY <3>1 DEF Frames, Samples, SerialTxAssumption
  <2>3. ring' \in Seq(Frames) /\ Used' \in 0 .. RingUnits
    BY <1>6, <2>1, <2>2, RingPut DEF TypeInv
  <2> QED
    BY <1>1, <2>1, <2>3 DEF TypeInv, TypeOK, shellVars
<1>7. CASE ThreadPut /\ ~Fits
  <2>1. /\ thread' = "record" /\ lost' = lost \cup {at}
        /\ UNCHANGED <<slot, at, sampled, frame, ring, taken, ctrl, composed, repeats>>
    BY <1>7 DEF ThreadPut
  <2> QED
    BY <1>1, <2>1 DEF TypeInv, TypeOK, shellVars, Used
<1>8. CASE ThreadEnable
  <2>1. ctrl' \in Enables
    BY <1>8 DEF ThreadEnable, TypeInv, TypeOK, Enables
  <2> QED
    BY <1>1, <1>8, <2>1 DEF ThreadEnable, TypeInv, TypeOK, shellVars, Used
<1>9. CASE ThreadRecord
  <2>1. slot' \in [Topics -> [generation : Samples, waiting : BOOLEAN]]
    BY <1>9 DEF ThreadRecord, Recorded, TypeInv, TypeOK
  <2>2. at' \in Topics /\ thread' \in {"topic", "sleep"}
    BY <1>9, AdvanceType DEF ThreadRecord, TypeInv, TypeOK
  <2> QED
    BY <1>1, <1>9, <2>1, <2>2 DEF ThreadRecord, TypeInv, TypeOK, shellVars, Used
<1> QED
  BY <1>2, <1>3, <1>4, <1>5, <1>6, <1>7, <1>8, <1>9 DEF Thread, ThreadSample, ThreadPut

LEMMA TypeInterrupt == ASSUME SerialTxAssumption, TypeInv, Interrupt PROVE TypeInv'
<1>1. CASE Drain
  <2>1. UNCHANGED <<generation, threadVars, ctrl, shellVars, lost>>
    BY <1>1 DEF Drain
  <2> QED
    BY <1>1, <2>1, RingDrain DEF TypeInv, TypeOK, threadVars, shellVars
<1>2. CASE DrainEmpty
  <2>1. ctrl' \in Enables
    BY <1>2 DEF DrainEmpty, TypeInv, TypeOK, Enables
  <2> QED
    BY <1>2, <2>1 DEF DrainEmpty, TypeInv, TypeOK, threadVars, shellVars, Used
<1> QED
  BY <1>1, <1>2 DEF Interrupt

\* One step of a scan.
LEMMA TypeScan == ASSUME SerialTxAssumption, TypeInv, Scan PROVE TypeInv'
<1>1. UNCHANGED <<generation, threadVars, shown>>
  BY DEF Scan, PauseBegin, PauseTxLoad, PauseTxStore, PauseReset, OpenLoad, OpenStore, CloseLoad,
         CloseStore, PauseEnd, LoadCtrl, StoreCtrl, Shell
<1>2. CASE PauseBegin
  BY <1>1, <1>2
  DEF PauseBegin, Shell, TypeInv, TypeOK, threadVars, Used, SerialTxAssumption
<1>3. CASE PauseTxLoad \/ OpenLoad \/ CloseLoad
  BY <1>1, <1>3
  DEF PauseTxLoad, OpenLoad, CloseLoad, LoadCtrl, Shell, TypeInv, TypeOK, threadVars, Used
<1>4. CASE PauseTxStore \/ OpenStore \/ CloseStore
  <2>1. ctrl' \in Enables
    BY <1>4
    DEF PauseTxStore, OpenStore, CloseStore, StoreCtrl, TypeInv, TypeOK, Enables
  <2> QED
    BY <1>1, <1>4, <2>1
    DEF PauseTxStore, OpenStore, CloseStore, StoreCtrl, Shell, TypeInv, TypeOK, threadVars, Used
<1>5. CASE PauseReset
  <2>1. ring' = <<>> /\ taken' = 0 /\ UNCHANGED <<ctrl, paused, own, copy, scans>>
    BY <1>5 DEF PauseReset, EmptiedRing
  <2>2. shell' \in {"open", "listen"}
    BY <1>5 DEF PauseReset
  <2>3. lost' \in SUBSET Topics
    <3>1. ring \in Seq(Frames) /\ lost \in SUBSET Topics
      BY Zenon DEF TypeInv, TypeOK
    <3>2. \A n \in DOMAIN ring : ring[n].topic \in Topics
      <4>1. \A n \in DOMAIN ring : ring[n] \in Frames
        BY <3>1, ElementOfSeq, LenProperties
      <4> QED
        BY <4>1 DEF Frames
    <3>3. lost' = lost \cup {ring[n].topic : n \in DOMAIN ring \ DOMAIN EmptiedRing.ring}
      BY <1>5 DEF PauseReset
    <3> QED
      BY <3>1, <3>2, <3>3
  <2>4. ring' \in Seq(Frames) /\ taken' \in 0 .. FrameUnits - 1 /\ Used' \in 0 .. RingUnits
    BY <2>1 DEF Used, SerialTxAssumption
  <2> QED
    BY <1>1, <2>1, <2>2, <2>3, <2>4 DEF TypeInv, TypeOK, threadVars
<1>6. CASE PauseEnd
  BY <1>1, <1>6 DEF PauseEnd, TypeInv, TypeOK, threadVars, Used
<1> QED
  BY <1>2, <1>3, <1>4, <1>5, <1>6 DEF Scan

-----------------------------------------------------------------------------
(* The theorems                                                            *)

\* Every variable holds a value of its kind, and the ring is never overfilled,
\* whatever its size and the frames'.
THEOREM TypeCorrect == Spec => []TypeOK
<1>1. Init => TypeInv
  <2> SUFFICES ASSUME Init PROVE TypeInv
    OBVIOUS
  <2>1. /\ 1 \in Topics /\ 0 \in Samples /\ 0 \in 0 .. MaxScans /\ 0 \in 0 .. FrameUnits - 1
        /\ FrameUnits \in Nat /\ RingUnits \in Nat
    BY SerialTxAssumption DEF SerialTxAssumption, Topics, Samples
  <2>2. ring \in Seq(Frames) /\ Used \in 0 .. RingUnits
    <3>1. ring = <<>> /\ taken = 0 /\ Len(<<>>) = 0
      BY EmptySeq DEF Init
    <3> QED
      BY <2>1, <3>1 DEF Used
  <2> QED
    BY <2>1, <2>2 DEF Init, TypeInv, TypeOK, Enables
<1>2. TypeInv /\ [Next]_vars => TypeInv'
  <2> SUFFICES ASSUME TypeInv, [Next]_vars PROVE TypeInv'
    OBVIOUS
  <2>1. CASE UNCHANGED vars
    BY <2>1 DEF vars, threadVars, shellVars, TypeInv, TypeOK, Used
  <2>2. CASE Next
    BY <2>2, SerialTxAssumption, TypePublish, TypeElapse, TypeThread, TypeInterrupt, TypeScan
    DEF Next
  <2> QED
    BY <2>1, <2>2
<1>3. TypeInv => TypeOK
  BY DEF TypeInv
<1> QED
  BY <1>1, <1>2, <1>3, PTL DEF Spec

\* The strengthened invariants hold in every reachable state.
THEOREM Inductive == Spec => []IInv
<1>1. Init => IInv
  BY InitInv, SerialTxAssumption
<1>2. IInv /\ [Next]_vars => IInv'
  <2>1. SUFFICES ASSUME IInv, [Next]_vars PROVE IInv'
    OBVIOUS
  <2>2. CASE UNCHANGED vars
    BY <2>1, <2>2 DEF vars, threadVars, shellVars, IInv, KindsInv, SampleInv, RepeatInv, ScanInv,
                      Composing
  <2>3. CASE Next
    BY <2>1, <2>3, SerialTxAssumption, PublishInv, ElapseInv, ThreadInv, InterruptInv, ScanStep
       DEF Next
  <2>4. QED
    BY <2>1, <2>2, <2>3
<1>3. QED
  BY <1>1, <1>2, PTL DEF Spec

\* A sample goes out in at most two frames, whatever the publishers do.
THEOREM Duplicates == Spec => []OneDuplicateAtMost
<1>1. IInv => OneDuplicateAtMost
  BY DEF IInv, RepeatInv, OneDuplicateAtMost
<1>2. QED
  BY <1>1, Inductive, PTL

\* No slot records a generation that has not been composed.
THEOREM Recording == Spec => []RecordedIsComposed
<1>1. IInv => RecordedIsComposed
  BY DEF IInv, SampleInv, RecordedIsComposed
<1>2. QED
  BY <1>1, Inductive, PTL

\* A scan has the port to itself, and nothing waits in the ring for its end.
THEOREM Scanning == Spec => []ScanOwnsPort
<1>1. IInv => ScanOwnsPort
  BY DEF IInv, ScanInv, ScanOwnsPort
<1>2. QED
  BY <1>1, Inductive, PTL

=============================================================================
