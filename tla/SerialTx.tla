------------------------------ MODULE SerialTx ------------------------------
(***************************************************************************)
(* The transmit half of subsys/zros_serial: the transport thread polls the *)
(* topics and puts a frame for each one that has moved into a ring, the    *)
(* interrupt handler drains the ring into the port, and the shell parks    *)
(* the thread while it scans ports.                                        *)
(*                                                                         *)
(* One core: the handler and the publishers come between any two steps of  *)
(* the thread, the shell runs only while the thread sleeps, and the thread *)
(* may wake between any two steps of the shell.  A sample is its topic's   *)
(* generation, a frame the topic and the sample it holds, and the ring     *)
(* counts units, FrameUnits to a frame.  A topic read is one step: the     *)
(* ZROS read retries until its copy is whole.                              *)
(***************************************************************************)
EXTENDS Naturals, Sequences

CONSTANTS
  TopicCount,   \* TOPIC_COUNT
  FrameUnits,   \* units in a frame
  RingUnits,    \* CONFIG_RDD2_ZROS_SERIAL_TX_RING_SIZE in units
  MaxPublish,   \* bound: samples of a topic
  MaxScans      \* bound: scans and dumps

ASSUME SerialTxAssumption ==
  /\ TopicCount \in Nat \ {0} /\ FrameUnits \in Nat \ {0} /\ RingUnits \in Nat
  /\ MaxPublish \in Nat /\ MaxScans \in Nat

VARIABLES
  generation,  \* rdd2_topic_generation of each topic
  slot,        \* g_tx_slots: last_generation, and whether the interval runs
  thread,      \* "sleep", "topic", "read", "put", "enable" or "record"
  at,          \* the topic tx_scan has come to
  sampled,     \* generation in tx_topic_if_due
  frame,       \* the sample zros_topic_read has put into the frame
  ring,        \* g_tx_ring: its frames, the oldest first
  taken,       \* units of the oldest frame already drained
  ctrl,        \* the port's interrupt enables
  paused,      \* g_paused
  shell,       \* where the scan is: see the scan's actions
  own,         \* whether the scanned ports include the transport's
  copy,        \* the shell's copy of the enables between a read and a write
  scans,       \* scans begun
  composed,    \* history: the last sample composed of each topic
  repeats,     \* history: frames in a row composed of that sample
  shown,       \* history: the last sample of each topic sent whole
  lost         \* history: topics whose last frame was dropped or cut off

threadVars == <<slot, thread, at, sampled, frame, composed, repeats>>
shellVars == <<paused, shell, own, copy, scans>>
vars == <<generation, threadVars, ring, taken, ctrl, shellVars, shown, lost>>

Topics == 1 .. TopicCount
Frames == [topic : Topics, sample : 1 .. MaxPublish]

-----------------------------------------------------------------------------
(* Publishers                                                              *)

Publish(topic) ==
  /\ generation[topic] < MaxPublish
  /\ generation' = [generation EXCEPT ![topic] = @ + 1]
  /\ UNCHANGED <<threadVars, ring, taken, ctrl, shellVars, shown, lost>>

-----------------------------------------------------------------------------
(* The transport thread: zros_serial_thread, tx_scan, tx_topic_if_due      *)

\* on to the next topic, or to sleep until the next poll
Advance ==
  IF at < TopicCount
  THEN at' = at + 1 /\ thread' = "topic"
  ELSE at' = 1 /\ thread' = "sleep"

\* variant: the poll does not look at g_paused
PollAnyway == TRUE
MayPoll == ~paused

ThreadPoll ==
  /\ thread = "sleep" /\ MayPoll
  /\ thread' = "topic"
  /\ UNCHANGED <<generation, slot, at, sampled, frame, ring, taken, ctrl, shellVars, composed,
                 repeats, shown, lost>>

\* variant: a topic is due whenever its interval is over
DueOnInterval == generation[at] # 0 /\ ~slot[at].waiting
Due == generation[at] # 0 /\ generation[at] # slot[at].generation /\ ~slot[at].waiting

ThreadSample ==
  /\ thread = "topic"
  /\ IF Due
     THEN /\ sampled' = generation[at]
          /\ thread' = "read"
          /\ UNCHANGED at
     ELSE /\ Advance
          /\ UNCHANGED sampled
  /\ UNCHANGED <<generation, slot, frame, ring, taken, ctrl, shellVars, composed, repeats, shown,
                 lost>>

ThreadRead ==
  /\ thread = "read"
  /\ frame' = generation[at]
  /\ repeats' = [repeats EXCEPT ![at] = IF composed[at] = frame' THEN @ + 1 ELSE 1]
  /\ composed' = [composed EXCEPT ![at] = frame']
  /\ thread' = "put"
  /\ UNCHANGED <<generation, slot, at, sampled, ring, taken, ctrl, shellVars, shown, lost>>

Used == Len(ring) * FrameUnits - taken

\* variant: the frame is put whatever space is left
FitsAlways == TRUE
Fits == RingUnits - Used >= FrameUnits

\* a frame that does not fit is dropped
ThreadPut ==
  /\ thread = "put"
  /\ IF Fits
     THEN /\ ring' = Append(ring, [topic |-> at, sample |-> frame])
          /\ lost' = lost \ {at}
          /\ thread' = "enable"
     ELSE /\ lost' = lost \cup {at}
          /\ thread' = "record"
          /\ UNCHANGED ring
  /\ UNCHANGED <<generation, slot, at, sampled, frame, taken, ctrl, shellVars, composed, repeats,
                 shown>>

ThreadEnable ==
  /\ thread = "enable"
  /\ ctrl' = [ctrl EXCEPT !.tx = TRUE]
  /\ thread' = "record"
  /\ UNCHANGED <<generation, slot, at, sampled, frame, ring, taken, shellVars, composed, repeats,
                 shown, lost>>

\* variant: the generation is sampled after the read
SampledAfter == generation[at]
Recorded == sampled

ThreadRecord ==
  /\ thread = "record"
  /\ slot' = [slot EXCEPT ![at] = [generation |-> Recorded, waiting |-> TRUE]]
  /\ Advance
  /\ UNCHANGED <<generation, sampled, frame, ring, taken, ctrl, shellVars, composed, repeats,
                 shown, lost>>

Thread ==
  \/ ThreadPoll \/ ThreadSample \/ ThreadRead
  \/ ThreadPut \/ ThreadEnable \/ ThreadRecord

\* CONFIG_RDD2_ZROS_SERIAL_TX_MIN_INTERVAL_MS passes
Elapse(topic) ==
  /\ slot[topic].waiting
  /\ slot' = [slot EXCEPT ![topic].waiting = FALSE]
  /\ UNCHANGED <<generation, thread, at, sampled, frame, composed, repeats, ring, taken, ctrl,
                 shellVars, shown, lost>>

-----------------------------------------------------------------------------
(* The interrupt handler: the transmit half of uart_isr                    *)

\* the port takes what its queue has room for, the last unit completes a frame
Drain ==
  /\ ctrl.tx /\ ring # <<>>
  /\ IF taken + 1 = FrameUnits
     THEN /\ ring' = Tail(ring)
          /\ taken' = 0
          /\ shown' = [shown EXCEPT ![Head(ring).topic] = Head(ring).sample]
     ELSE /\ taken' = taken + 1
          /\ UNCHANGED <<ring, shown>>
  /\ UNCHANGED <<generation, threadVars, ctrl, shellVars, lost>>

DrainEmpty ==
  /\ ctrl.tx /\ ring = <<>>
  /\ ctrl' = [ctrl EXCEPT !.tx = FALSE]
  /\ UNCHANGED <<generation, threadVars, ring, taken, shellVars, shown, lost>>

Interrupt == Drain \/ DrainEmpty

-----------------------------------------------------------------------------
(* The shell: rdd2_zros_serial_pause, scan_port_open, scan_port_close      *)

ShellMayRun == thread = "sleep"

\* one step of the shell; the sleeps between them may last any time
Shell(from, to) ==
  /\ ShellMayRun
  /\ shell = from
  /\ shell' = to
  /\ UNCHANGED <<generation, threadVars, taken, shown>>

PauseBegin ==
  /\ scans < MaxScans
  /\ Shell("idle", "settle")
  /\ scans' = scans + 1
  /\ paused' = TRUE
  /\ own' \in BOOLEAN
  /\ UNCHANGED <<copy, ring, ctrl, lost>>

\* an enable is changed by a read and a write of the port's control register
LoadCtrl(from, to) ==
  /\ Shell(from, to)
  /\ copy' = ctrl
  /\ UNCHANGED <<paused, own, scans, ring, ctrl, lost>>

StoreCtrl(from, to, value) ==
  /\ Shell(from, to)
  /\ ctrl' = value
  /\ UNCHANGED <<paused, own, scans, copy, ring, lost>>

PauseTxLoad == LoadCtrl("settle", "tx off")
PauseTxStore == StoreCtrl("tx off", "reset", [copy EXCEPT !.tx = FALSE])

\* variant: the ring is held rather than dropped
HeldRing == [ring |-> ring, taken |-> taken]
EmptiedRing == [ring |-> <<>>, taken |-> 0]

PauseReset ==
  /\ ShellMayRun /\ shell = "reset"
  /\ ring' = EmptiedRing.ring /\ taken' = EmptiedRing.taken
  /\ lost' = lost \cup {ring[n].topic : n \in DOMAIN ring \ DOMAIN EmptiedRing.ring}
  /\ shell' = IF own THEN "open" ELSE "listen"
  /\ UNCHANGED <<generation, threadVars, ctrl, paused, own, copy, scans, shown>>

OpenLoad == LoadCtrl("open", "rx off")
OpenStore == StoreCtrl("rx off", "listen", [copy EXCEPT !.rx = FALSE])
CloseLoad == own /\ LoadCtrl("listen", "rx on")
CloseStore == StoreCtrl("rx on", "resume", [copy EXCEPT !.rx = TRUE])

PauseEnd ==
  /\ ShellMayRun
  /\ shell = "resume" \/ (shell = "listen" /\ ~own)
  /\ shell' = "idle"
  /\ paused' = FALSE
  /\ UNCHANGED <<generation, threadVars, ring, taken, ctrl, own, copy, scans, shown, lost>>

Scan ==
  \/ PauseBegin \/ PauseTxLoad \/ PauseTxStore \/ PauseReset
  \/ OpenLoad \/ OpenStore \/ CloseLoad \/ CloseStore \/ PauseEnd

-----------------------------------------------------------------------------
(* The specification                                                       *)

Init ==
  /\ generation = [topic \in Topics |-> 0]
  /\ slot = [topic \in Topics |-> [generation |-> 0, waiting |-> FALSE]]
  /\ thread = "sleep" /\ at = 1 /\ sampled = 0 /\ frame = 0
  /\ ring = <<>> /\ taken = 0
  /\ ctrl = [rx |-> TRUE, tx |-> FALSE]
  /\ paused = FALSE /\ shell = "idle" /\ own = FALSE /\ copy = ctrl /\ scans = 0
  /\ composed = [topic \in Topics |-> 0]
  /\ repeats = [topic \in Topics |-> 0]
  /\ shown = [topic \in Topics |-> 0] /\ lost = {}

Next ==
  \/ \E topic \in Topics : Publish(topic) \/ Elapse(topic)
  \/ Thread
  \/ Interrupt
  \/ Scan

\* The thread wakes at every poll, the handler comes when it is enabled, time
\* passes, and the thread's sleeps let a scan that has begun come to its end.
Fairness ==
  /\ WF_vars(Thread) /\ WF_vars(Interrupt) /\ SF_vars(shell # "idle" /\ Scan)
  /\ \A topic \in Topics : WF_vars(Elapse(topic))

Spec == Init /\ [][Next]_vars /\ Fairness

-----------------------------------------------------------------------------
(* Properties                                                              *)

Enables == [rx : BOOLEAN, tx : BOOLEAN]
Samples == 0 .. MaxPublish

\* Every variable holds a value of its kind, and no frame is put into a ring
\* that has no room for all of it.
TypeOK ==
  /\ generation \in [Topics -> Samples]
  /\ slot \in [Topics -> [generation : Samples, waiting : BOOLEAN]]
  /\ thread \in {"sleep", "topic", "read", "put", "enable", "record"}
  /\ at \in Topics /\ sampled \in Samples /\ frame \in Samples
  /\ ring \in Seq(Frames) /\ taken \in 0 .. FrameUnits - 1 /\ Used \in 0 .. RingUnits
  /\ ctrl \in Enables /\ copy \in Enables
  /\ paused \in BOOLEAN /\ own \in BOOLEAN /\ scans \in 0 .. MaxScans
  /\ shell \in {"idle", "settle", "tx off", "reset", "open", "rx off", "listen", "rx on", "resume"}
  /\ composed \in [Topics -> Samples] /\ repeats \in [Topics -> Nat]
  /\ shown \in [Topics -> Samples] /\ lost \in SUBSET Topics

\* A publish between the sample of the generation and the read costs one
\* duplicate: no sample goes out in more than two frames, however often
\* publishers preempt the thread.
OneDuplicateAtMost == \A topic \in Topics : repeats[topic] <= 2

\* The slot never records a generation the frame did not hold: a topic whose
\* generation is recorded has had that sample, or a newer one, composed.
RecordedIsComposed == \A topic \in Topics : slot[topic].generation <= composed[topic]

\* While a scan listens on the transport's own port neither interrupt is
\* enabled, so that the handler cannot take the bytes the scan counts; and no
\* remainder of a frame waits for the port to come back.
ScanOwnsPort ==
  shell \in {"listen", "rx on"} /\ own => ~ctrl.rx /\ ~ctrl.tx /\ ring = <<>> /\ taken = 0

\* Once a topic stays quiet the ground shows its newest sample, unless the
\* frame that held it was dropped for want of space or by a scan: no publish
\* is forgotten and no frame is left lying in the ring.
GroundCatchesUp ==
  \A topic \in Topics : <>[](shown[topic] = generation[topic] \/ topic \in lost)

=============================================================================
