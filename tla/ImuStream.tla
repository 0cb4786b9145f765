----------------------------- MODULE ImuStream ------------------------------
(***************************************************************************)
(* The IMU stream of src/imu_stream.c as built for the target: the control *)
(* loop consumes completions of a self-sustaining sensor stream and        *)
(* restarts it on an error; a work item on the system work queue, which    *)
(* preempts the loop and is not preempted by it, restarts the stream when  *)
(* no sample has arrived for a period.                                     *)
(*                                                                         *)
(* The RTIO executor and the sensor driver are external: a submitted       *)
(* stream posts good and bad completions, may end with a bad one, may fall *)
(* silent, and gives its submission entry back some time after a cancel.   *)
(* g_imu_sample_count is kept as what the watchdog reads off it: whether   *)
(* it is nonzero and whether it moved since the last check (its wrap at    *)
(* 2^32 samples is left out).  Sample data and timing are left out.        *)
(***************************************************************************)
EXTENDS Naturals, Sequences, FiniteSets

CONSTANTS
  Entries,     \* the submission entries, RDD2_IMU_RTIO_SQ_COUNT of them
  CqCount,     \* RDD2_IMU_RTIO_CQ_COUNT
  MaxFaults    \* bound: bad completions, silences and refused starts

ASSUME StreamAssumption ==
  /\ IsFiniteSet(Entries) /\ Entries # {}
  /\ CqCount \in Nat \ {0} /\ MaxFaults \in Nat

VARIABLES
  sqe,       \* state of each submission entry
  handle,    \* g_imu_stream_handle
  cq,        \* the completion queue
  loop,      \* where the control loop is: "wait", "cancel", "drain", "start"
  imuOk,     \* ctx->status.imu_ok of the last pass, what health publishes
  seen,      \* g_imu_sample_count # 0
  moved,     \* g_imu_sample_count # g_imu_watchdog_last_count
  primed,    \* g_imu_watchdog_primed
  due,       \* the watchdog's delay has run out
  posted,    \* a completion has been posted since the last check
  faults,    \* bound: faults so far
  overtaken, \* history: watchdog restarts inside the loop's own restart
  silent     \* history: watchdog checks in a row without a sample, saturated

stream == <<sqe, handle, cq>>
watchdog == <<seen, moved, primed, due>>
history == <<overtaken, silent>>
vars == <<stream, loop, imuOk, watchdog, posted, faults, history>>

-----------------------------------------------------------------------------
(* The stream: RTIO and the sensor driver                                  *)

\* variant: nobody checks for room
PostUnbounded(queue, result) == Append(queue, result)
\* a completion that finds the queue full is dropped
Post(queue, result) == IF Len(queue) < CqCount THEN Append(queue, result) ELSE queue

Deliver(entry) ==
  /\ sqe[entry] = "live"
  /\ cq' = Post(cq, "good") /\ posted' = TRUE
  /\ UNCHANGED <<sqe, handle, loop, imuOk, watchdog, faults, history>>

\* an error, or a buffer without frames; the stream may end with it
Misdeliver(entry) ==
  /\ sqe[entry] = "live" /\ faults < MaxFaults
  /\ cq' = Post(cq, "bad") /\ posted' = TRUE
  /\ sqe' \in {sqe, [sqe EXCEPT ![entry] = "free"]}
  /\ faults' = faults + 1
  /\ UNCHANGED <<handle, loop, imuOk, watchdog, history>>

FallSilent(entry) ==
  /\ sqe[entry] = "live" /\ faults < MaxFaults
  /\ sqe' = [sqe EXCEPT ![entry] = "silent"]
  /\ faults' = faults + 1
  /\ UNCHANGED <<handle, cq, loop, imuOk, watchdog, posted, history>>

Release(entry) ==
  /\ sqe[entry] = "cancelled"
  /\ sqe' = [sqe EXCEPT ![entry] = "free"]
  /\ UNCHANGED <<handle, cq, loop, imuOk, watchdog, posted, faults, history>>

-----------------------------------------------------------------------------
(* imu_stream_restart: cancel, drain, start                                *)

\* variant: the old stream is not cancelled
CancelNothing(entries) == entries
Cancel(entries) ==
  [entries EXCEPT ![handle] = IF @ = "free" THEN "free" ELSE "cancelled"]

\* sensor_stream takes an entry from the pool and submits it, or fails; a
\* failed start keeps the old handle
Start(entries) ==
  \/ \E entry \in Entries :
       /\ entries[entry] = "free"
       /\ sqe' = [entries EXCEPT ![entry] = "live"]
       /\ handle' = entry
       /\ UNCHANGED faults
  \/ /\ \A entry \in Entries : entries[entry] # "free"
     /\ sqe' = entries
     /\ UNCHANGED <<handle, faults>>
  \/ /\ faults < MaxFaults
     /\ faults' = faults + 1
     /\ sqe' = entries
     /\ UNCHANGED handle

-----------------------------------------------------------------------------
(* The control loop: rdd2_imu_stream_wait_next                             *)

\* a good completion is decoded, counted and handed to the pass
ConsumeGood ==
  /\ loop = "wait" /\ cq # <<>> /\ Head(cq) = "good"
  /\ cq' = Tail(cq)
  /\ imuOk' = TRUE
  /\ seen' = TRUE /\ moved' = TRUE
  /\ silent' = 0
  /\ UNCHANGED <<sqe, handle, loop, primed, due, posted, faults, overtaken>>

ConsumeBad ==
  /\ loop = "wait" /\ cq # <<>> /\ Head(cq) = "bad"
  /\ cq' = Tail(cq)
  /\ loop' = "cancel"
  /\ UNCHANGED <<sqe, handle, imuOk, watchdog, posted, faults, history>>

LoopCancel ==
  /\ loop = "cancel"
  /\ sqe' = Cancel(sqe)
  /\ loop' = "drain"
  /\ UNCHANGED <<handle, cq, imuOk, watchdog, posted, faults, history>>

LoopDrain ==
  /\ loop = "drain"
  /\ cq' = <<>>
  /\ loop' = "start"
  /\ UNCHANGED <<sqe, handle, imuOk, watchdog, posted, faults, history>>

\* wait_next returns false and the pass runs without an IMU
LoopStart ==
  /\ loop = "start"
  /\ Start(sqe)
  /\ loop' = "wait"
  /\ imuOk' = FALSE
  /\ UNCHANGED <<cq, watchdog, posted, history>>

Loop == ConsumeGood \/ ConsumeBad \/ LoopCancel \/ LoopDrain \/ LoopStart

-----------------------------------------------------------------------------
(* The watchdog: imu_watchdog_work                                         *)

\* RDD2_IMU_WATCHDOG_MS pass: 160 sample periods, in which a live stream
\* posts and the loop, which needs microseconds, has nothing left to do
Elapse ==
  /\ ~due /\ loop = "wait" /\ cq = <<>>
  /\ posted \/ \A entry \in Entries : sqe[entry] # "live"
  /\ due' = TRUE
  /\ UNCHANGED <<stream, loop, imuOk, seen, moved, primed, posted, faults, history>>

Trips == primed /\ ~moved

\* variant: the watchdog arms again only when a sample has come
PrimedByMovement == moved
Primed == seen

WatchdogCheck ==
  /\ due
  /\ due' = FALSE
  /\ primed' = Primed
  /\ moved' = FALSE /\ posted' = FALSE
  /\ IF Trips
     THEN /\ Start(Cancel(sqe))
          /\ cq' = <<>>
          /\ overtaken' = IF loop \in {"drain", "start"} THEN overtaken + 1 ELSE overtaken
     ELSE UNCHANGED <<stream, faults, overtaken>>
  /\ silent' = IF moved \/ silent = 2 THEN silent ELSE silent + 1
  /\ UNCHANGED <<loop, imuOk, seen>>

-----------------------------------------------------------------------------
(* The specification                                                       *)

\* rdd2_imu_stream_init has started the stream and scheduled the watchdog
Init ==
  /\ handle \in Entries
  /\ sqe = [entry \in Entries |-> IF entry = handle THEN "live" ELSE "free"]
  /\ cq = <<>>
  /\ loop = "wait" /\ imuOk = FALSE
  /\ seen = FALSE /\ moved = FALSE /\ primed = FALSE /\ due = FALSE
  /\ posted = FALSE /\ faults = 0 /\ overtaken = 0 /\ silent = 0

Next ==
  \/ \E entry \in Entries :
       Deliver(entry) \/ Misdeliver(entry) \/ FallSilent(entry) \/ Release(entry)
  \/ Loop
  \/ Elapse
  \/ WatchdogCheck

\* A stream that is live delivers and a cancelled entry comes back; the loop
\* is the most urgent thread, the work queue more urgent still, and time
\* passes.  No fault has to happen.
Fairness ==
  /\ \A entry \in Entries : WF_vars(Deliver(entry)) /\ WF_vars(Release(entry))
  /\ WF_vars(Loop) /\ WF_vars(Elapse) /\ WF_vars(WatchdogCheck)

Spec == Init /\ [][Next]_vars /\ Fairness

-----------------------------------------------------------------------------
(* Properties                                                              *)

\* Every variable holds a value of its kind and the completion queue never
\* outgrows RDD2_IMU_RTIO_CQ_COUNT.
TypeOK ==
  /\ sqe \in [Entries -> {"free", "live", "silent", "cancelled"}]
  /\ handle \in Entries
  /\ cq \in Seq({"good", "bad"}) /\ Len(cq) <= CqCount
  /\ loop \in {"wait", "cancel", "drain", "start"}
  /\ imuOk \in BOOLEAN /\ seen \in BOOLEAN /\ moved \in BOOLEAN
  /\ primed \in BOOLEAN /\ due \in BOOLEAN /\ posted \in BOOLEAN
  /\ faults \in 0 .. MaxFaults /\ overtaken \in Nat /\ silent \in 0 .. 2

\* the streams that hold a submission entry and that nobody has cancelled
Uncancelled == {entry \in Entries : sqe[entry] \in {"live", "silent"}}

\* Restarts from two threads leave at most one stream running, and one more
\* for each time the watchdog came between the loop's cancel and its start,
\* when the loop's start overwrites the handle of the watchdog's stream: the
\* pool of RDD2_IMU_RTIO_SQ_COUNT entries lasts for that many coincidences.
LeakBounded == Cardinality(Uncancelled) <= 1 + overtaken

\* After the first sample the stream never stays dead: once faults stop, a
\* loop that waits for a sample without a timeout gets one, whichever of
\* silence, an error or a refused restart came last.
StreamRecovers == (seen /\ ~moved) ~> moved

\* docs/ground_station_telemetry.md says Gyro|Accel are set only while the
\* IMU is delivering samples: not after two watchdog checks without one.
HealthyWhileDelivering == silent = 2 => ~imuOk

=============================================================================
