------------------------------ MODULE Lockstep ------------------------------
(***************************************************************************)
(* The lockstep exchange: a host (tools/fastdyn_mission) writes an input   *)
(* into shared memory and waits for the answer to it; the coordinator      *)
(* thread (subsys/lockstep) hands the input to the control loop, waits for *)
(* a new motor output and answers.  The control loop runs on simulated     *)
(* time: an input tells it how far to tick, and it blocks when it is there.*)
(*                                                                         *)
(* The two firmware threads share one core and the control loop is the     *)
(* more urgent.  An input, and everything computed from it, is known by    *)
(* the sequence number of the exchange that carried it, 0 for none.  Times *)
(* are in nanoseconds; an input carries its time in whole microseconds, so *)
(* a target may fall short of the plant's time.  The sequence library is   *)
(* external: wait returns once input_sequence differs from the last one it *)
(* returned with, respond stores that one.  The host only writes inputs    *)
(* the firmware can decode.                                                *)
(***************************************************************************)
EXTENDS Naturals

CONSTANTS
  Period,        \* RDD2_CONTROL_PERIOD_NS
  Micro,         \* nanoseconds in a microsecond
  PlantTime,     \* simulated_time after so many steps, rounded to nanoseconds
  PublishDiv,    \* RDD2_FLIGHT_STATE_PUBLISH_DIV
  MaxExchanges,  \* bound: sequence numbers the host uses
  MaxTimeouts    \* bound: exchanges the host gives up on while the firmware starts

ASSUME LockstepAssumption ==
  /\ Period \in Nat \ {0} /\ Micro \in Nat \ {0} /\ PublishDiv \in Nat \ {0}
  /\ MaxExchanges \in Nat /\ MaxTimeouts \in Nat
\* plant_dt is at least the controller's period; it need not be a whole number
\* of microseconds
ASSUME StepAssumption ==
  /\ PlantTime \in [0 .. MaxExchanges + 1 -> Nat] /\ PlantTime[0] = 0
  /\ \A m, n \in 0 .. MaxExchanges + 1 : m < n => PlantTime[m] + Period <= PlantTime[n]

VARIABLES
  host,              \* "idle", "filled", "waiting" or "ended"
  sequence,          \* Transport.sequence
  steps,             \* plant_steps; simulated_time is PlantTime[steps]
  ready,             \* firmware_ready
  timeouts,          \* exchanges given up on
  taken,             \* history: the last answer
  payload,           \* shared inertial_sample and manual_control: whose, and timestamp_us
  inputSequence,     \* shared input_sequence
  responseSequence,  \* shared response_sequence
  terminate,         \* shared terminate
  answer,            \* shared pwm_signal_outputs, vehicle_health, control_loop_metrics
  coordinator,       \* "wait", "rc", "input", "give", "barrier", "health",
                     \* "metrics", "respond" or "ended"
  current,           \* the sequence the coordinator works on
  motorGeneration,   \* motor_generation
  flightGeneration,  \* flight_generation
  rc,                \* rc_input's latest sample
  store,             \* the input store: generation and the input in its slot
  sem,               \* g_lockstep_input_sem
  loop,              \* "boot", "wait", "take", "tick", "health" or "metrics"
  imuGeneration,     \* g_lockstep_imu_generation
  sample,            \* g_lockstep_gyro and g_lockstep_accel
  clock,             \* g_lockstep_current_boot_time_ns
  target,            \* g_lockstep_target_boot_time_ns
  pwm,               \* the motor output topic
  health, metrics,   \* the flight state's first and last topic
  publishCountdown   \* publish_flight_state's static countdown

hostVars == <<host, sequence, steps, ready, timeouts, taken>>
inputVars == <<payload, inputSequence, terminate>>
outputVars == <<responseSequence, answer>>
coordinatorVars == <<coordinator, current, motorGeneration, flightGeneration>>
handover == <<rc, store, sem>>
loopVars == <<loop, imuGeneration, sample, clock, target, pwm, health, metrics, publishCountdown>>
vars == <<hostVars, inputVars, outputVars, coordinatorVars, handover, loopVars>>

-----------------------------------------------------------------------------
(* The host: run_mission and Transport::exchange                           *)

\* the target travels as timestamp_us and is read back as sample_time_ns
InMicros(time) == Micro * (time \div Micro)

HostFill ==
  /\ host = "idle" /\ sequence < MaxExchanges
  /\ sequence' = sequence + 1
  /\ payload' = [of |-> sequence + 1, target |-> InMicros(PlantTime[steps + 1])]
  /\ host' = "filled"
  /\ UNCHANGED <<steps, ready, timeouts, taken, inputSequence, terminate, outputVars,
                 coordinatorVars, handover, loopVars>>

HostRequest ==
  /\ host = "filled"
  /\ inputSequence' = sequence
  /\ host' = "waiting"
  /\ UNCHANGED <<sequence, steps, ready, timeouts, taken, payload, terminate, outputVars,
                 coordinatorVars, handover, loopVars>>

\* the plant moves on by one step
HostTake ==
  /\ host = "waiting" /\ responseSequence = sequence
  /\ taken' = answer
  /\ ready' = TRUE
  /\ steps' = steps + 1
  /\ host' = "idle"
  /\ UNCHANGED <<sequence, timeouts, inputVars, outputVars, coordinatorVars, handover, loopVars>>

\* until a first answer, and for a minute at most, the host tries again for
\* the same simulated time; otherwise an unanswered request ends the mission
HostTimeout ==
  /\ host = "waiting" /\ responseSequence # sequence
  /\ timeouts < MaxTimeouts
  /\ timeouts' = timeouts + 1
  /\ \/ /\ ~ready
        /\ host' = "idle"
        /\ UNCHANGED terminate
     \/ /\ host' = "ended"
        /\ terminate' = TRUE
  /\ UNCHANGED <<sequence, steps, ready, taken, payload, inputSequence, outputVars,
                 coordinatorVars, handover, loopVars>>

\* the mission is flown; dropping the transport ends the firmware
HostEnd ==
  /\ host = "idle" /\ ready
  /\ host' = "ended"
  /\ terminate' = TRUE
  /\ UNCHANGED <<sequence, steps, ready, timeouts, taken, payload, inputSequence, outputVars,
                 coordinatorVars, handover, loopVars>>

-----------------------------------------------------------------------------
(* Scheduling                                                              *)

InputWaiting == store.generation # 0 /\ store.generation # imuGeneration

LoopReady == loop # "take" \/ sem = 1

\* variant: the coordinator is as urgent as the control loop
EitherMayRun == TRUE
CoordinatorMayRun == ~LoopReady

-----------------------------------------------------------------------------
(* The coordinator: direct_thread, fastdyn_thread                          *)

CoordinatorWait ==
  /\ coordinator = "wait" /\ CoordinatorMayRun
  /\ \/ /\ terminate
        /\ coordinator' = "ended"
        /\ UNCHANGED current
     \/ /\ ~terminate
        /\ inputSequence # current
        /\ current' = inputSequence
        /\ coordinator' = "rc"
  /\ UNCHANGED <<hostVars, inputVars, outputVars, motorGeneration, flightGeneration, handover,
                 loopVars>>

\* rdd2_lockstep_handle_manual_control
CoordinatorRc ==
  /\ coordinator = "rc" /\ CoordinatorMayRun
  /\ rc' = payload.of
  /\ coordinator' = "input"
  /\ UNCHANGED <<hostVars, inputVars, outputVars, current, motorGeneration, flightGeneration,
                 store, sem, loopVars>>

\* rdd2_lockstep_handle_input_blob: the input is stored, and then the
\* semaphore given
StoreAt(here, next) ==
  /\ coordinator = here /\ CoordinatorMayRun
  /\ store' = [generation |-> store.generation + 1, of |-> payload.of, target |-> payload.target]
  /\ coordinator' = next
  /\ UNCHANGED <<hostVars, inputVars, outputVars, current, motorGeneration, flightGeneration, rc,
                 sem, loopVars>>

GiveAt(here, next) ==
  /\ coordinator = here /\ CoordinatorMayRun
  /\ sem' = 1
  /\ coordinator' = next
  /\ UNCHANGED <<hostVars, inputVars, outputVars, current, motorGeneration, flightGeneration, rc,
                 store, loopVars>>

\* variants: the semaphore is not given, or before the input is there
StoreOnly == StoreAt("input", "barrier")
GiveThenStore == GiveAt("input", "give") \/ StoreAt("give", "barrier")
CoordinatorInput == StoreAt("input", "give") \/ GiveAt("give", "barrier")

\* the motor output must be new
CoordinatorBarrier ==
  /\ coordinator = "barrier" /\ CoordinatorMayRun
  /\ \/ /\ pwm.generation # 0 /\ pwm.generation # motorGeneration
        /\ motorGeneration' = pwm.generation
        /\ answer' = [answer EXCEPT !.pwm = pwm]
        /\ coordinator' = "health"
     \/ /\ pwm.generation = 0 \/ pwm.generation = motorGeneration
        /\ terminate
        /\ coordinator' = "ended"
        /\ UNCHANGED <<motorGeneration, answer>>
  /\ UNCHANGED <<hostVars, inputVars, responseSequence, current, flightGeneration, handover,
                 loopVars>>

\* the flight state is copied if it is new, one topic after another
CoordinatorHealth ==
  /\ coordinator = "health" /\ CoordinatorMayRun
  /\ IF health.generation # 0 /\ health.generation # flightGeneration
     THEN /\ flightGeneration' = health.generation
          /\ answer' = [answer EXCEPT !.health = health]
          /\ coordinator' = "metrics"
     ELSE coordinator' = "respond" /\ UNCHANGED <<flightGeneration, answer>>
  /\ UNCHANGED <<hostVars, inputVars, responseSequence, current, motorGeneration, handover,
                 loopVars>>

CoordinatorMetrics ==
  /\ coordinator = "metrics" /\ CoordinatorMayRun
  /\ answer' = [answer EXCEPT !.metrics = metrics]
  /\ coordinator' = "respond"
  /\ UNCHANGED <<hostVars, inputVars, responseSequence, current, motorGeneration,
                 flightGeneration, handover, loopVars>>

CoordinatorRespond ==
  /\ coordinator = "respond" /\ CoordinatorMayRun
  /\ responseSequence' = current
  /\ coordinator' = "wait"
  /\ UNCHANGED <<hostVars, inputVars, answer, current, motorGeneration, flightGeneration,
                 handover, loopVars>>

Coordinator ==
  \/ CoordinatorWait \/ CoordinatorRc \/ CoordinatorInput
  \/ CoordinatorBarrier \/ CoordinatorHealth \/ CoordinatorMetrics \/ CoordinatorRespond

-----------------------------------------------------------------------------
(* The control loop                                                        *)

Output(topic) == [generation |-> topic.generation + 1, sample |-> sample, rc |-> rc]

\* rdd2_motor_output_init publishes stopped motors before the first wait
LoopBoot ==
  /\ loop = "boot"
  /\ pwm' = Output(pwm)
  /\ loop' = "wait"
  /\ UNCHANGED <<hostVars, inputVars, outputVars, coordinatorVars, handover, imuGeneration,
                 sample, clock, target, health, metrics, publishCountdown>>

\* variant: a target already reached is taken as it is
TargetAsSent(time) == time
TargetFor(time) == IF time <= clock THEN clock + Period ELSE time

\* rdd2_lockstep_input_wait_next finds an input, and the loop around it waits
\* for a target in the future
LoopWake ==
  /\ loop = "wait" /\ InputWaiting
  /\ imuGeneration' = store.generation
  /\ sample' = store.of
  /\ target' = TargetFor(store.target)
  /\ loop' = IF clock >= target' THEN "wait" ELSE "tick"
  /\ UNCHANGED <<hostVars, inputVars, outputVars, coordinatorVars, handover, clock, pwm, health,
                 metrics, publishCountdown>>

\* it finds none, and blocks
LoopBlock ==
  /\ loop = "wait" /\ ~InputWaiting
  /\ loop' = "take"
  /\ UNCHANGED <<hostVars, inputVars, outputVars, coordinatorVars, handover, imuGeneration,
                 sample, clock, target, pwm, health, metrics, publishCountdown>>

\* only the semaphore makes it look again
LoopTake ==
  /\ loop = "take" /\ sem = 1
  /\ sem' = 0
  /\ loop' = "wait"
  /\ UNCHANGED <<hostVars, inputVars, outputVars, coordinatorVars, rc, store, imuGeneration,
                 sample, clock, target, pwm, health, metrics, publishCountdown>>

\* variant: a tick is always a whole period
WholeTick == clock + Period
NextClock == IF clock + Period > target THEN target ELSE clock + Period

\* variant: the divider restarts one answer late
CountDownLate == IF publishCountdown > 0 THEN publishCountdown - 1 ELSE PublishDiv
CountDown == IF publishCountdown > 0 THEN publishCountdown - 1 ELSE PublishDiv - 1

\* one pass; only the pass that reaches the target writes the motors
LoopTick ==
  /\ loop = "tick"
  /\ clock' = NextClock
  /\ IF clock' >= target
     THEN pwm' = Output(pwm) /\ loop' = "health"
     ELSE UNCHANGED <<pwm, loop>>
  /\ UNCHANGED <<hostVars, inputVars, outputVars, coordinatorVars, handover, imuGeneration,
                 sample, target, health, metrics, publishCountdown>>

\* publish_flight_state, from the first topic to the last
LoopHealth ==
  /\ loop = "health"
  /\ publishCountdown' = CountDown
  /\ IF publishCountdown = 0
     THEN health' = Output(health) /\ loop' = "metrics"
     ELSE loop' = "wait" /\ UNCHANGED health
  /\ UNCHANGED <<hostVars, inputVars, outputVars, coordinatorVars, handover, imuGeneration,
                 sample, clock, target, pwm, metrics>>

LoopMetrics ==
  /\ loop = "metrics"
  /\ metrics' = Output(metrics)
  /\ loop' = "wait"
  /\ UNCHANGED <<hostVars, inputVars, outputVars, coordinatorVars, handover, imuGeneration,
                 sample, clock, target, pwm, health, publishCountdown>>

Loop ==
  \/ LoopBoot \/ LoopWake \/ LoopBlock \/ LoopTake
  \/ LoopTick \/ LoopHealth \/ LoopMetrics

-----------------------------------------------------------------------------
(* The specification                                                       *)

Topic == [generation : 0 .. MaxExchanges + 1, sample : 0 .. MaxExchanges, rc : 0 .. MaxExchanges]
Empty == [generation |-> 0, sample |-> 0, rc |-> 0]
NoAnswer == [pwm |-> Empty, health |-> Empty, metrics |-> Empty]

Init ==
  /\ host = "idle" /\ sequence = 0 /\ steps = 0 /\ ready = FALSE /\ timeouts = 0
  /\ taken = NoAnswer
  /\ payload = [of |-> 0, target |-> 0]
  /\ inputSequence = 0 /\ responseSequence = 0 /\ terminate = FALSE
  /\ answer = NoAnswer
  /\ coordinator = "wait" /\ current = 0 /\ motorGeneration = 0 /\ flightGeneration = 0
  /\ rc = 0
  /\ store = [generation |-> 0, of |-> 0, target |-> 0]
  /\ sem = 0
  /\ loop = "boot" /\ imuGeneration = 0 /\ sample = 0 /\ clock = 0 /\ target = 0
  /\ pwm = Empty /\ health = Empty /\ metrics = Empty /\ publishCountdown = 0

Next ==
  \/ HostFill \/ HostRequest \/ HostTake \/ HostTimeout \/ HostEnd
  \/ Coordinator
  \/ Loop

\* Both threads are scheduled by priority, the host is a process of its own;
\* no timeout has to happen.
Fairness == WF_vars(HostRequest) /\ WF_vars(HostTake) /\ WF_vars(Coordinator) /\ WF_vars(Loop)

Spec == Init /\ [][Next]_vars /\ Fairness

-----------------------------------------------------------------------------
(* Properties                                                              *)

Times == 0 .. PlantTime[MaxExchanges] + Period * MaxExchanges

\* Every variable holds a value of its kind, and no topic is published more
\* often than once per exchange and once at start.
TypeOK ==
  /\ host \in {"idle", "filled", "waiting", "ended"} /\ sequence \in 0 .. MaxExchanges
  /\ steps \in 0 .. MaxExchanges /\ ready \in BOOLEAN /\ timeouts \in 0 .. MaxTimeouts
  /\ {taken, answer} \subseteq [pwm : Topic, health : Topic, metrics : Topic]
  /\ payload \in [of : 0 .. MaxExchanges, target : Times]
  /\ inputSequence \in 0 .. MaxExchanges /\ responseSequence \in 0 .. MaxExchanges
  /\ terminate \in BOOLEAN
  /\ coordinator \in {"wait", "rc", "input", "give", "barrier", "health", "metrics", "respond",
                     "ended"}
  /\ current \in 0 .. MaxExchanges
  /\ motorGeneration \in 0 .. MaxExchanges + 1 /\ flightGeneration \in 0 .. MaxExchanges + 1
  /\ rc \in 0 .. MaxExchanges /\ sem \in {0, 1}
  /\ store \in [generation : 0 .. MaxExchanges, of : 0 .. MaxExchanges, target : Times]
  /\ loop \in {"boot", "wait", "take", "tick", "health", "metrics"}
  /\ imuGeneration \in 0 .. MaxExchanges /\ sample \in 0 .. MaxExchanges
  /\ clock \in Times /\ target \in Times
  /\ {pwm, health, metrics} \subseteq Topic /\ publishCountdown \in 0 .. PublishDiv - 1

\* the host has just taken the answer to its last request
Answered == host = "idle" /\ ready /\ responseSequence = sequence

\* The motor command the plant is stepped with was computed from the inertial
\* sample and the RC sample of the very request it answers: not from the
\* stopped motors published at start, not from a request the host gave up on.
AnswerIsToTheRequest == Answered => taken.pwm.sample = sequence /\ taken.pwm.rc = sequence

\* When the plant moves on, the firmware's clock has reached the end of the
\* plant's step, up to the part of a microsecond a timestamp drops, and is ahead
\* of it by no more than a period for each request tried again.  What a
\* timestamp drops does not add up.
ClockFollowsHost ==
  Answered => /\ PlantTime[steps] < clock + Micro
              /\ clock <= PlantTime[steps] + Period * timeouts

\* The health in an answer is at most PublishDiv - 1 answers older than the
\* request, counting the requests given up on.
HealthLag == Answered => sequence - taken.health.sample < PublishDiv + timeouts

\* The flight state of an answer is of one pass, although it is published and
\* copied topic by topic: what its first topic was computed from, its last was.
FlightStateOfOnePass == Answered => taken.health = taken.metrics

\* A request the host does not give up on is answered: the loop, blocked until
\* a semaphore is given, never sleeps on an input that is there, also when the
\* host has given up on a request before and asks again for a time the firmware
\* has already reached.
RequestsAreAnswered == (host = "waiting") ~> (host # "waiting")

\* lockstep_direct.c and lockstep_fastdyn.c wait for a motor output because
\* "PwmSignalOutputs is emitted every controller tick".
EveryTickEmits == [][LoopTick => pwm'.generation # pwm.generation]_vars

\* publish_flight_state: "Only the final state belongs to the plant response".
FinalStateInResponse == Answered => taken.health.sample = sequence

=============================================================================
