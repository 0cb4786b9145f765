# cerebri_rdd2: TLA+ models and proofs

This directory holds TLA+ modules for the firmware of the RDD2 quadrotor
(`src/src`, `src/subsys`, `src/drivers`) and for the lockstep host that drives
it in simulation (`src/tools/fastdyn_mission`), the TLC configurations that check
them, and TLAPS proofs about every model. Every action is
translated from the source lines named for it in `PROJECT.json` ("map").

## The system

The firmware is a Zephyr application on one core. `main` is the body-rate control
loop: each pass waits for an IMU sample, reads the RC sample, decides arming and
mode, runs estimator and controllers, writes the motors and publishes the flight
state. Everything else is a thread, an interrupt or a work item around it:

| thread | priority | runs |
|---|---|---|
| system workqueue | -1 | IMU watchdog |
| CRSF input thread | 1 | `rc_input_cb` |
| main | 2 | the control loop |
| lockstep coordinator | 5 | requests of the simulation host |
| serial transport, GNSS reader | 7 | telemetry, positions |
| shell, top watcher | 14 | commands, motor tests, diagnostics |
| sensor shell | 14 | decoding of the motors' answers |

A smaller number is more urgent. A thread runs until it blocks or a more urgent one
becomes ready. The models use this order wherever the code's correctness rests on
it, and each has a variant (a mutant) with the order broken.

### Components

| component | state | operations | made correct by | module |
|---|---|---|---|---|
| control loop (`main.c`) | arming, mode, dividers, sample sums, attitude, controller memory, setpoint | one pass, with five exits | arming asks for low throttle once per outage; no integrator memory crosses arming or mode; setpoints and attitudes are never older than their divider | `FlightLoop` |
| motor output (`motor_output.c`) | two test requests, last command | write, test set, test clear | a disarmed pass turns no motor outside a test | `FlightLoop` |
| RC input (`rc_input.c`) | sequence number, sample, stamp | callback, two readers | a read is as good as an atomic load and ends | `RcInput`, `SampleRegister` |
| IMU stream (`imu_stream.c`) | stream handle, completion queue, watchdog flags | consume, restart, watchdog | the stream comes back; restarts do not use up the pool | `ImuStream` |
| lockstep transport and coordinator (`subsys/lockstep`) | input store, semaphore, generations, shared memory | take, decode, barrier, answer | an answer belongs to its request | `Lockstep` |
| lockstep host (`tools/fastdyn_mission`) | sequence, simulated time | request, take, time out, end | the clocks stay together | `Lockstep` |
| serial transport, receive (`subsys/zros_serial`) | frame parser, receive ring | byte, replay, track sequence | good frames arrive once and in order; damage is local | `SerialRx` |
| serial transport, transmit (`subsys/zros_serial`) | generations, sequence, transmit ring, pause flag | poll a topic, pause, scan | the last frame carries the newest sample; a scan has the port to itself | `SerialTx` |
| GNSS reader (`subsys/gnss_source`) | receive ring, UBX parser, statistics | interrupt, batch, unit, frame, conversions | fixes are whole, in order and what the receiver reported; damage is bounded; the ring drains | `Gnss`, `GnssFix` |
| FlexIO DShot driver (`drivers/nxp_flexio_dshot`) | channel states, shifters and timers, telemetry | set, trigger, interrupt, fetch | every line carries its packet of this pass; a speed is this pass's answer | `Dshot`, `DshotCodec` |
| topic bus (`topic_bus.c`) | topics and generations | publish, copy, flight state | the flight state of an answer is of one pass | `Lockstep` (partly) |
| top watcher (`top_shell.c`), latency statistics (`imu_latency_stats.c`) | watcher thread, guarded record | start, stop, sample | one watcher; records are whole | not modelled |

Not modelled, and why: the top watcher is started and stopped from the shell, of which
the build has one backend, so that the interleaving its lock is there for cannot happen;
the reader of the latency statistics has no caller; of the topic bus, ZROS itself is a
library and the copies no thread makes (`rdd2_topic_gnss_copy` and its like) have nothing
to race with; the controllers and the estimator wrap generated floating
point code (`FlightLoop` keeps when they run and what they remember); the host's
plant is an FMI library; the fake devices of the lockstep build keep no state; the
boot hook pokes registers; of the ground-side Python tool only the decoder is used, as
a reference.

### Interactions and hard behaviour

* RC callback and loop share a sample guarded by a sequence number. The reader's
  `continue` jumps to the loop condition, so on an odd number it would compare
  numbers of two rounds. Whether that is ever reached depends on the priorities.
* The loop waits for the IMU without a timeout. Only the watchdog on the work queue
  can break a dead stream, and the loop and the watchdog restart the same stream.
* Two countdowns (auto-level and background) feed one sum of samples, and arming and
  mode choose between them pass by pass.
* Motor tests take passes away from the controllers while arming and mode change.
* Publishers and the port's interrupt come between any two steps of the serial
  transport, which is itself more urgent than the shell that parks it for a port scan.
* The frame parser rescans a rejected candidate one level deep only; the GNSS reader's
  does not rescan at all.
* The DShot interrupt advances each channel's state while the control loop sets up the next
  packets, and the hardware runs on under both. The decoding of answers is left to a thread
  so lazy that whole passes go by between its reads of the driver's masks.
* The flight state is published, and copied into an answer, topic by topic without a lock.
* In lockstep the coordinator is less urgent than the loop it serves, time advances
  only as far as the host allows, and the host tries again after a timeout for a time
  the firmware may already have reached.

`PROJECT.json` ("hazards") lists each of these at its line with the properties that
cover it.

## The models

### FlightLoop

One pass of the loop is one action per exit (`TickMotorTest`, `TickRawTest`,
`TickFailsafe`, `TickAutoLevel`, `TickAcro`); each contains the common part `Sense`
(arming, dividers, sums, estimator) and `Finalize`. The loop reads the RC sample, the
clock and the test requests once per pass, and outranks the threads that change the
latter two, so the pass is a step; `RcSync`, `Elapse` and the four motor-test
operations move between passes. Data is abstract: the memory of a controller is the
set of (armed, mode) pairs that contributed to it, an attitude is where it came from, a
setpoint is who computed it and how many passes ago. `lowSeen`, `zeroTicks`,
`testSeen`, `unseeded` and `groundTicks` are history variables no action reads.

Run `flight_loop`: one motor, dividers 2 and 3 (the code has 8 and 16; two different
small periods give every alternation of the two countdowns), publish divider 1, RC
timeout 0, target build. 791 thousand states.

* `SpinNeedsLowThrottle`: no turning command in flight without low throttle since the
  last failure of IMU, link or arm switch.
* `MemoryOfThisFlight`: controller memory belongs to the current arming state and mode.
* `LevelSetpointFresh`: an armed AUTO_LEVEL pass flies a setpoint of the outer loop
  less than a divider old, unless a motor test took a pass since the last reset. The
  exception is real: a test swallows the pass on which the outer loop would have run.
* `PredictionWindow`, `ZeroedAttitudeBounded`: however the dividers alternate, sums and
  zeroed attitudes are bounded by the two periods together.
* `EstimatorReseeded`: one background period disarmed with a good IMU levels the
  estimator.

### RcInput and SampleRegister

The writer stores the words of a sample in any order between two increments, each
reader copies them in any order between two loads, and a thread steps only while no
more urgent one is ready. `build` selects the target (writer above the loop) or
lockstep (writer below the loop, but the loop is only released when the writer is
done). `SampleRegister` is the promise: an atomic register. `ReadsAreAtomic` is the
refinement, with `value <- seq \div 2`. `LoopReturns` is claimed for the loop only; the
shell's reader may starve. Two words and three events let a write overlap two rounds of
a reader. Fairness: a ready thread eventually runs when nothing more urgent is ready.
Deadlock is not checked because events may stop.

### ImuStream

Submission entries, the completion queue, the loop's wait and its restart in three steps
(cancel, drain, start), and the watchdog's restart as one step, since the workqueue
cannot be preempted by the loop. Faults (a wrong or error completion, silence, a
refused start) are bounded by `MaxFaults`. Run `imu_stream` has three entries, a queue of
two and four faults: enough for a watchdog restart between the loop's cancel and start
twice over.

* `LeakBounded`: at most one uncancelled stream, plus one for each time the watchdog
  overtook the loop's restart.
* `StreamRecovers`: once a first sample came, the stream is never dead for good. Before a
  first sample the watchdog is not armed, and nothing is claimed.

Fairness: a live stream delivers, a cancelled entry is released, the loop and the
workqueue are scheduled, time passes. No fault is forced.

Run `imu_health` shows a disagreement with a document: see Findings.

### Lockstep

Host, coordinator and loop over shared memory. The coordinator and the loop share a
core and the loop is the more urgent (`CoordinatorMayRun`). An input and everything
computed from it is named by its sequence number. Times are nanoseconds. The host sends its
target as a timestamp in whole microseconds (`protocol.rs:28`) which the firmware multiplies
back (`lockstep_input.c:36`), so a target may fall short of the plant's time: `InMicros`. The
plant's time after each step is the constant `PlantTime`, since the host adds up a step in
floating point and rounds. The coordinator stores an input and then gives the semaphore
(`StoreAt`, `GiveAt`); the loop takes an input it finds (`LoopWake`), and otherwise blocks
(`LoopBlock`) until the semaphore is given (`LoopTake`) and looks again, so a give left over
from an input it found by itself wakes it once for nothing. Bounds: a microsecond of three
units, a period of six, plant steps of ten and a third rounded to units (neither a whole number of
periods, so that the last tick of a request is a short one, nor of microseconds; the code has 1000,
625000 and anything from a period to 20 ms), publish divider 3, seven exchanges, two
timeouts (a retry before the first answer and the end of a mission). 2394 states. Inputs the firmware
cannot decode are not sent by this host and are left out. Writing a payload is one step;
the coordinator reads its two halves in two steps, so that a host which gave up and wrote
again may be seen half old, half new. `StepAssumption` says what the rates in the code
(1600 Hz and, by default, 200 Hz) amount to: a period is no longer than the plant's step, which
`main.rs:121` checks; without it a retried request could carry the clock past the plant. At the
smallest step, a period exactly, it takes the sum's rounding to nanoseconds to be exact. Deadlock is not checked because the mission ends.

* `AnswerIsToTheRequest`: the motor command the plant is stepped with was computed from
  this request's IMU and RC samples.
* `ClockFollowsHost`: the clock is behind the plant by less than a microsecond, however many
  steps were cut short, and ahead of it by no more than a period per retry. It would be wrong to
  claim that it never is behind: with steps of a third of a millisecond it is.
* `HealthLag`: how many requests older than an answer its health may be.
* `FlightStateOfOnePass`: the flight state in an answer is of one pass, although the loop
  publishes it (`LoopHealth`, `LoopMetrics`) and the coordinator copies it
  (`CoordinatorHealth`, `CoordinatorMetrics`) one topic after another. The first and the last
  topic stand for all; a coordinator as urgent as the loop (`EitherMayRun`) mixes passes.
* `RequestsAreAnswered`: no request hangs, also after a retry. It rests on the target of a retry
  (`TargetFor`) and on the semaphore: without the give (`StoreOnly`) the exchange stops for good.
  A give before the store (`GiveThenStore`) only stops it until the next request, but then an
  answer is no longer the request's. Fairness: both firmware
  threads and the host are scheduled; no timeout is forced.

Runs `lockstep_ticks` and `lockstep_health` show disagreements with comments.

### SerialTx

The transport thread's turn for one topic in its steps (sample the generation, read, put,
enable the interrupt, record), the interrupt handler unit by unit, publishers anywhere, and
the shell's scan from pause to resume, running only while the thread sleeps. A change of an
interrupt enable by the shell is a read and a write of the control register, because the
thread may wake between the two. Run `serial_tx`: two topics with two samples each, frames of
two units, a ring of three (one frame, or two while the first is half drained), two scans,
each of the transport's own port or of another. Sequence numbers are in `SerialRx`. How long
the pause sleeps is not modelled: the shell continues whenever the thread sleeps, which the
priorities alone ensure.

* `OneDuplicateAtMost`, `RecordedIsComposed`: a publish between sampling the generation and
  reading costs one duplicate and is never lost. The variant that samples afterwards, which
  the code's comment warns of, violates it.
* `ScanOwnsPort`: while a scan listens on the transport's port, both interrupts are off and
  no remainder of a frame waits in the ring.
* `GroundCatchesUp`: a topic that stays quiet has its newest sample shown on the ground,
  unless the frame was dropped for want of space or by a scan. The exception is the code's:
  a dropped frame is recorded as sent, and nothing resends it, so no property covers the ground's
  missing the last state of a topic that then stops moving. Fairness: the thread polls, the handler runs when
  enabled, the send interval passes, and a scan that has begun comes to its end (strong
  fairness, since the thread's wake-ups interrupt it).

### SerialRx

The parser as a function from its state and one unit to the next state, `Consume`, with what
becomes of a rejected candidate as a parameter: `Replay` outside a rescan, `Drop` inside, which
is the code's one level. Units are numbers, so that lengths, sync bytes and payload can be
mistaken for each other; trailers are numbers of their own, one per frame, so the model never
lets a wrong CRC match. `Reference` is the decoder of `tools/synapse_serial`. Run `serial_rx`:
four frames out of four kinds (the sync word in the payload, its bytes apart, another size,
another topic), at most one of them damaged in one unit or shortened by a stretch. Four frames
are needed: an over-read takes at most two, and the property asks for a frame's length after
the one that must survive. Every damage may turn a unit into a length that is none, short,
long or too long, or into a sync byte.

* `PublishedAsSent`: what is published was sent, on the inbound topic, in its size, once and
  in order.
* `AgreesWithReference`, `DamageIsLocal`: the rescan finds what the unlimited one finds, and a
  damage costs the frame it hits only. The condition is `SyncFree`: no frame has the sync word
  after its first unit, nor the word's two bytes in order with units between them (a lost stretch
  would join them), nor its second byte for a topic (a length damaged into the first would).
* `GapsAreHoles`: the gap counter counts the holes, except multiples of the wrap.

Run `serial_rx_rescan` drops the condition: see Findings.

### Gnss and GnssFix

The receiver's frames go through the interrupt (`UartIsr`, which drops and counts what the
ring cannot hold), the ring, and a thread that takes a batch and parses it unit by unit, one
action per parser state; the check of a frame and the publication of its fix are one action,
`RxChecksum`, with the four outcomes of `frame_complete` and the failure of a publication.
Units are numbers as in `SerialRx`. A frame's check is a number of its own, so a wrong sum
never matches. The conversions are in `GnssFix`, with C's division: a report is a record, its
bytes one unit that indexes it, and what a fix must be is said separately, with days counted
year by year and month by month. A report has a set of fixes, `Fixes`: `gnss_onboard.c:215`
negates the vertical speed in 32 bits, which overflows for the least number, and what the build
makes of it has either sign (`UpsOf`).

Run `gnss`: three frames out of six kinds (three reports, another kind of frame, one of a wrong
length with the sync word in it, one beyond the buffer), one fault (a unit damaged into a kind,
a length or a sync byte, a unit lost, a ring overrun or a failed publication), a ring of eight
read in batches of four. Three frames: one to be damaged, one its damaged length swallows, one
that must survive. The reports hold numbers at the ends of the ranges, of the 32 bits of a report and
of the 16 bits of a fix: the greatest and the least vertical speed, the greatest speed over ground and one just
short of a valid course, accuracies that saturate, a heading west of north, a full turn and one of
several turns, the first of March of a century year without a leap day, the last of February of a leap
year with a leap second, the first day of the epoch, and one report without a fix. 518 thousand states.

* `PublishedAsSent`: only undamaged NAV-PVT frames, each once and in order.
* `FixAsReported`: the fix says what the report said: position, satellites, its type, whether the
  course counts, each number as near as its unit allows or at the end of its range, the day and
  the time of day. One number is exempt: for a vertical speed of -2^31 mm/s the fix may have the wrong
  sign, which is what the code does. A leap second is the next minute's first, as in Unix time.
* `DamageBounded`: a damage costs only frames that begin within a longest frame of it. The
  configuration's help text speaks of frames beyond the buffer as skipped; the parser rejects
  them at the length and looks for the sync word in what follows, which is why the property
  asks for payloads free of it.
* `RingDrains`: the thread's loop over batches empties the ring to the last unit, without more to
  come. Fairness: the thread is scheduled. It sleeps on a timer when it found the ring empty and
  polls again; that sleep is part of the fairness, so an overrun during it is a fault of the
  interrupt (`UartIsr`) and not excluded by this property.

### Dshot and DshotCodec

A pass of the control loop is `Begin`, then per channel `SetPacket` and, if the channel is
bidirectional, `TurnBack`, then `TriggerPut` per channel and `TriggerArm`. The interrupt
handler is `ServeShifters`, once over all shifters, and `ServeTimer`, round and round until no
timer flag is set. It runs whenever a flag is up whose interrupt is enabled and outranks the
loop (`Undisturbed`); the hardware (`HalfSent`, `Response`) is under neither's control. The
sensor shell decodes answers in `FetchBegin`, then `FetchCheck` and `FetchDecode` per channel,
with whole passes in between: it is the only caller, and the least urgent thread. Packets are
real: `DshotCodec` builds the bits, the check and the thirds on the line, and `Taken` is what a
motor controller makes of them. How the driver finds twelve bits in what it received is
abstracted to the word, a broken check or no frame.

Run `dshot`: two channels, the last ones bidirectional (none, one or both; the channels are
alike but for their order), the lowest and the highest throttle, up to four passes, fewer the
more channels answer. Bounds, all named in guards: a packet differs from the channel's last
(or a stale half would not show), `MaxDisturbed` passes in which the hardware outran the
interrupt or an answer came while the pass was set up, `MaxBroken` broken answers, error
counts up to the answers given, one pass during which a fetch is interrupted. One million
states.

* `PacketsWhole`: when the lines are silent, each carried the packet asked for in this pass.
  A disturbed pass may be spoiled, the next is not.
* `ErpmOfThisPass`: a speed is decoded from an answer of the pass the fetch saw it in, or a
  later one; never an earlier one's, a broken one or another channel's. That it may be a
  later one's is the code's: the mask is read, the loop runs, the answer is read.
* `NoResponseIsSilence`: the count of missing answers is that of packets nobody answered,
  except for answers of a disturbed pass.
* `PassCompletes`: the loop gets through, the handler's inner loop ends, and no packet is left
  half sent. Fairness: the loop, the handler and the hardware go on; nobody has to answer.

`WordsAssumption` leaves out answers with a period below ten microseconds: no motor turns as
fast. With a period of zero the driver divides by zero, and below ten the speed is cut to
sixteen bits; no property covers either, and the hazard at `nxp_flexio_dshot.c:481` records it.

## Findings

Four runs end in a counterexample to what a document or a comment says; the code is
consistent with the rest of the models.

1. `imu_health`: the documentation says that the IMU bits of the health are set only
   while samples arrive, but the loop publishes only when it gets a sample.
2. `lockstep_ticks`: the barrier's comment expects a motor output per controller tick,
   but a tick short of the target publishes none. The barrier still holds.
3. `lockstep_health`: a comment says the final state is part of the answer, but the
   publish divider applies to answers as well.
4. `serial_rx_rescan`: the telemetry documentation says that the vehicle's one-level rescan
   and an unconditional one differ only on doubly corrupted input. One damaged length is
   enough if the payload spells the sync word: the candidate that starts there is rejected
   inside the rescan and takes the start of the next good frame with it. So is one lost
   stretch that joins the word's two bytes.

## Proofs

`FlightLoop_proofs` proves, for all positive dividers, every set of motors and both
builds (the only assumption is `DivisorsAssumption`), type correctness and all the
properties of run `flight_loop`. The properties are not inductive: a bound on a count
says nothing about when the count ends. `IInv` adds what does: `samples` plus both
countdowns stays at or below the two periods less two (`WindowInv`), since a pass that adds
to the sum takes one from a countdown; the same for zeroed passes (`ZeroInv`); a
setpoint's age plus the auto-level countdown stays below the period (`SetpointInv`);
disarmed passes plus the background countdown (`SeedInv`); and armed implies a low
throttle seen (`ArmInv`). `Inductive` is `Spec => []IInv`; each further theorem follows
from it. The proof that a pass keeps `IInv` has a lemma per conjunct, over the parts
that all five exits share.

`SerialTx_proofs` proves type correctness, with a ring that never takes a frame it has no room
for, `OneDuplicateAtMost`, `RecordedIsComposed` and `ScanOwnsPort` for any number of topics, any ring and frame size, and without the bounds of the run. Its invariant
follows a generation through one turn: between sampling and reading, the sampled generation
is newer than the slot's and lies between what had been composed and what is published
(`SampleInv`), so a sample composed a second time is the one about to be recorded
(`RepeatInv`); and each phase of a scan keeps what the phases before it have switched off
(`ScanInv`).

`Lockstep_proofs` proves type correctness, `AnswerIsToTheRequest`, `ClockFollowsHost`,
`HealthLag` and `FlightStateOfOnePass` for any number of exchanges and timeouts, any publish
divider and any times of the plant at least a period apart (`LockstepAssumption`,
`StepAssumption`). The invariant says whose turn it is (`TurnInv`: while the loop has anything
to do, the coordinator stands at its barrier), what each variable was computed from
(`DataInv`, `StateInv`), how sequence numbers run (`SequenceInv`), that a skipped input was a
request given up on, so the health's age counts inputs and not exchanges (`LagInv`), and that
each input brings the clock to its target or a period further (`ClockInv`), a target being
less than a microsecond short of the plant (`MicrosFacts`). There is a lemma
per action.

`ImuStream_proofs` proves type correctness and `LeakBounded` for any pool of entries and any
number of faults. The handle is the key: the streams the next cancel will not end
(`Leaked`: all of them while the loop is between its cancel and its start, all but the
handle's otherwise) are no more than the times the watchdog came in between (`LeakInv`).

`RcInput_proofs` proves type correctness and `ReadsAreAtomic`, the refinement of
`SampleRegister`, for any number of words and samples, in both builds. Whoever reads has the
core while nobody stores (`ReaderAlone`, from the priorities and, in lockstep, from `TurnInv`),
so a reader never sees an odd number; a copy whose number still holds is of one sample
(`CopyInv`), and every step of the lock is a step of the register or a stutter.

`Gnss_proofs` proves type correctness, `DamageBounded`, `FixAsReported` and, as long as there is
at most one fault, `PublishedAsSent`, for any receiver, ring, batch and buffer. The parser
forgets what it has read, so its invariant says that there is a stream of units which explains what
it holds: `FlowInv` quantifies over the stream, and no history variable is needed. The stream says
where each frame lies and which units were damaged (`SourceInv`, `ChecksInv`, `ContentInv`,
`HurtInv`); the ring and the batch are its end (`PipeInv`); what the parser holds is a stretch of
it (`CandidateInv`); a frame sent later than a longest frame after the last damage is met at its
first unit (`AlignInv`, `TrackInv`, `TakenInv`); what was published came from frames passed, in
order and undamaged (`TopicInv`, `PassedInv`, `PublishedInOrder`, `Undamaged`). `PublishedOrdered`
needs no bound on the faults. `PublishedCorrect` does: with two, the last unit of one frame
may be damaged into a sync unit while the next frame loses its own, so a frame that was hurt can
be in the stream complete. The calendar is an induction over years and months, which the prover
cannot take from its library; it is done with the least counterexample, a least element of a set of
numbers (`LeastNumber`). Assumptions: no unit is mistaken for a check, and no
kind followed by a length, or length by a first unit, reads as the sync word (`FramesAssumption`: no
UBX class is its first byte, and a length that begins with it is beyond what a receiver sends); a
report's fields are in the ranges UBX gives them, speeds and heading in 32 bits (`PvtsAssumption`);
and the number of faults is a number (`MaxFaultsAssumption`). `NumbersAsReported` says, for every
report in 32-bit fields and not only those of the
run, that the fix's 16-bit numbers and its course are what was reported, as near as the units allow,
or stand at the end of the range; of the vertical speed -2^31 it claims nothing. `TypeKept` and
`ReportKept` say the same of the type, the course's validity and the clock.

`SerialRx_proofs` proves type correctness, `GapsAreHoles` and, as long as there is at most one
fault, `PublishedAsSent`, for any frames, payloads (the sync word in them included), damages and
sizes. A recursion over the units of a candidate is not beyond the prover once it is seen as a
sequence of steps: `Follows` is the account a parser keeps of a stream (it holds the stream's
end, its counts are those of the frames it accepted, each of these is in the stream whole, and
a trailer still to come is later than all of them). One unit keeps the account (`ReplayStep`,
`RxStep`); so does any number of them, by the least number of units after which it is lost
(`FeedingFollows`). A rejected candidate is itself a stream, so its replay keeps the account of it
(`ReplayFollows`), and since it is the end of what arrived, that is an account of what arrived.
That each frame is accepted once is a consequence of trailers rising in the stream (`StreamInv`).
`NothingInvented` needs no bound on the faults: what is published is in the stream whole.
`PublishedCorrect` does, for the reason given for `Gnss`; `HurtInv` says that before the first
fault the stream ends where a frame does. Assumptions: sync bytes, sizes and damaged units fit
a field of sixteen bits, and so do a frame's topic, length and payload.

`DamageStaysLocal` says what the parser must find, and not only what it may. A parser that waits for
a frame takes an intact line unit by unit to its end (`Aligned`, `DrainAligned`). One that is within a
candidate begun earlier is still `OnTrack`: scanning its candidate again would be aligned with the
line, and the candidate cannot be accepted, since only the line's own trailer matches and only from
its first unit. So whatever the moment at which the candidate is rejected, the replay finds the line.
It remains that the hurt line leaves nothing behind that a replay would open: of two sync words in it
one begins it with the length as it was (`FewPairs`, from `SyncFree`), so what it leaves open has none
(`HurtEnd`, `QuietScan`). `LocalInv` says that the frames not hurt are accepted or would be by a replay
(`Caught`), and a trailer that is still in the candidate is no frame's length away (`RisingInv`). The
assumption, `Sendable`, is that payloads are those the sender lets pass: not empty, and within
`MAX_PAYLOAD`.

`Dshot_proofs` proves type correctness and `ErpmOfThisPass` for any number of channels, any
throttles and answers (`WordsAssumption`) and any number of disturbed passes. The invariant says
when a line listens (`ListenInv`: from the end of its packet until the loop turns it around in
the next pass), how far a channel gets whose packet is written but whose line still listens
(`TurnInv`), that hardware the loop has not come to yet is silent (`AheadInv`), that a packet not
fed between passes has its interrupt enabled (`ArmedInv`), and so which pass's answer is in the
shifter, in `dshot_info` and before the fetch (`AnswerInv`, `FetchInv`). That a speed is the
nearest to its period and fits its sixteen bits is `ErpmFacts`. `WordsAssumption` also says that
a period is a natural number: the provers know nothing of powers.

`PacketsWhole` rests on what a motor controller makes of a line. `TakenFacts` says that
it takes back from the two halves of a packet the throttle the packet was made from, for every
throttle and both kinds of line (the weights of a packet's bits are a table in `DshotCodec`, since
the provers know no powers). `WholeInv` then says where the halves are: what a line has carried, its
shifter holds and the driver keeps is together the packet of the pass (`SetUpInv` while
the loop writes, `SentInv` with one `Stage` per state of a channel).

`NoResponseIsSilence` relates a counter to history. `SilenceInv` keeps the books at every step:
whom a listening line has heard (`HeardInv`, `WaitInv`), that each packet is answered once at most
(`AnswersInv`), that an answer is received before the next pass unless that pass or its own was
disturbed (`ReceivedInv`), and that the count has followed each pass's write (`CountInv`).

`RescanIsEnough` compares the parser with `Reference`, a recursion that runs from the end of the
stream to its beginning while the parser runs the other way. Both are put as steps in the parser's
direction: `Goes` is one step of the reference that no later unit can undo, and `Reaches` says that
it gets by such steps from one unit, with some frames found, to another (the smallest relation closed
under `Goes`). Wherever it is reached, the reference is what was found and what it finds from
there (`ReferenceReached`), and from the unit where an open candidate begins it finds nothing yet
(`NoneYet`). So it is enough that the parser `Tracks` it: what was accepted is what the
reference found before the candidate. A unit that is not rejected keeps that (`TracksStep`), and on a
rejection the reference goes on after the candidate's sync word, which is where the replay begins
(`RejectedGoes`, `RescanTracks`). The two part only where a replay drops a candidate of its own:
the parser goes on after the units it read, the reference after the sync word. That is `Harmless`
unless there is another sync word in between. In a hurt line there is none, since of two sync words
the first begins the line (`FewPairs`, `HurtHarmless`), and in an intact line no replay drops anything
(`AlignedTracks`). `ReferenceInv` says that the parser tracks the reference, and that the
replay of its candidate would (`Referred`); what was decided stays so when more arrives and more
is sent (`ReachesOn`). The assumption is `Sendable`, as for `DamageStaysLocal`. That the
freedom of sync words is needed is shown by the run `serial_rx_rescan`, where one
fault is enough for the two to differ. What happens after a second fault is neither checked nor proved.

Only model-checked: the liveness properties `LoopReturns`, `StreamRecovers`, `RequestsAreAnswered`,
`GroundCatchesUp`, `PassCompletes` and `RingDrains`, since fairness is beyond the prover. Every
invariant and every action property of the passing runs is stated by a theorem.

## Plan

What is left is breadth: the topic bus as a component of its own (generations and the
wait of several readers, which `Lockstep` and `FlightLoop` keep only as far as they need it), the
synchronous fetch of the IMU stream, and the serial transport's two halves in one module, where the
interrupt serves both and a pause for a port scan stops both.
