----------------------------- MODULE FlightLoop -----------------------------
(***************************************************************************)
(* The body-rate control loop of src/main.c: one action per exit of one    *)
(* pass of the loop, from the return of rdd2_control_input_wait to         *)
(* finalize_cycle.  The loop thread reads the RC sample, the clock and the *)
(* motor-test requests once per pass and outranks every thread that could  *)
(* change the latter two, so a pass is one step.  RC samples, time and     *)
(* motor-test requests move between passes.                                *)
(*                                                                         *)
(* Data is reduced to what the properties tell apart: an RC sample to the  *)
(* conditions the loop evaluates on it, a controller's memory to the set   *)
(* of flights (armed state and mode) that contributed to it, the attitude  *)
(* to where it came from, a motor command to the set of motors it turns.   *)
(* attitude_desired, rate_cmd and the latency figure never feed back into  *)
(* a decision and are left out.                                            *)
(***************************************************************************)
EXTENDS Integers

CONSTANTS
  Motors,          \* the motor channels
  AutolevelDiv,    \* RDD2_ATTITUDE_AUTOLEVEL_DIV, 8 in the code
  BackgroundDiv,   \* RDD2_ATTITUDE_BACKGROUND_DIV, 16 in the code
  PublishDiv,      \* RDD2_FLIGHT_STATE_PUBLISH_DIV, 8 in the code
  StaleTimeout,    \* RDD2_RC_STALE_TIMEOUT_MS, 100 in the code
  Lockstep         \* CONFIG_RDD2_LOCKSTEP

ASSUME DivisorsAssumption ==
  /\ AutolevelDiv \in Nat \ {0}
  /\ BackgroundDiv \in Nat \ {0}
  /\ PublishDiv \in Nat \ {0}
  /\ StaleTimeout \in Nat
  /\ Lockstep \in BOOLEAN

VARIABLES
  rc,                   \* the RC sample rdd2_rc_input_latest_get returns
  rcAge,                \* k_uptime_get() - rc_stamp_ms, saturated
  armed,                \* ctx->status.armed
  flightMode,           \* ctx->flight_mode
  autolevelCountdown,   \* autolevel_attitude_countdown
  backgroundCountdown,  \* background_attitude_countdown
  publishCountdown,     \* publish_flight_state's static countdown
  samples,              \* attitude_sample_count; the sums it scales follow it
  attitude,             \* where ctx->attitude came from
  attitudeMemory,       \* flights g_attitude_controller has integrated over
  rateMemory,           \* flights g_rate_controller has integrated over
  setpoint,             \* where the roll/pitch half of ctx->rate_desired came from
  motorTest,            \* g_motor_test_active and the motors it would turn
  rawTest,              \* g_motor_raw_test_active and the motors it would turn
  output,               \* the last command written to the motors
  health,               \* the last flight state published
  lowSeen,              \* history: low throttle seen since the last unfit pass
  zeroTicks,            \* history: good passes in a row on the zeroed attitude
  testSeen,             \* history: a motor test took a pass since the last reset
  unseeded,             \* history: no levelling from the accelerometer since the last fault
  groundTicks           \* history: good disarmed passes in a row, saturated

(* What the properties remember of the past; no action reads these.        *)
history == <<lowSeen, zeroTicks, testSeen, unseeded, groundTicks>>
tests == <<motorTest, rawTest>>
cycle == <<armed, flightMode, autolevelCountdown, backgroundCountdown,
           publishCountdown, samples, attitude, attitudeMemory, rateMemory,
           setpoint, output, health>>
vars == <<rc, rcAge, cycle, tests, history>>

-----------------------------------------------------------------------------
(* Types of the data                                                       *)

Modes == {"ACRO", "AUTO_LEVEL"}
Flights == BOOLEAN \X Modes
RcSamples == [valid : BOOLEAN, armSwitch : BOOLEAN, throttleLow : BOOLEAN, mode : Modes]
Tests == [active : BOOLEAN, spin : SUBSET Motors]
Commands == [path : {"init", "test", "raw", "cut", "fly"}, spin : SUBSET Motors]
Health == [armed : BOOLEAN, imu : BOOLEAN, rc : BOOLEAN, mode : Modes]
\* "none" is the zeroed setpoint, age the passes since it was computed
Setpoints == [by : {"none", "stick", "level"}, age : 0 .. AutolevelDiv]

-----------------------------------------------------------------------------
(* The conditions a pass evaluates                                         *)

RcStale == ~rc.valid \/ (~Lockstep /\ rcAge > StaleTimeout)

Fit(imuOk) == imuOk /\ ~RcStale /\ rc.armSwitch

\* variant: the throttle stick is not asked for
ArmedAtAnyThrottle(imuOk) == Fit(imuOk)
Armed(imuOk) == Fit(imuOk) /\ (armed \/ rc.throttleLow)

\* variant: one divider serves both modes
BackgroundOnly(imuOk) == FALSE
UseAutolevel(imuOk) == Armed(imuOk) /\ rc.mode = "AUTO_LEVEL"

\* variant: the divider restarts one pass late
CountDownLate(countdown, divisor) == IF countdown > 0 THEN countdown - 1 ELSE divisor
CountDown(countdown, divisor) == IF countdown > 0 THEN countdown - 1 ELSE divisor - 1

\* variant: the background divider decides in every mode
BackgroundDue(imuOk) == backgroundCountdown = 0
\* variant: a disarmed vehicle asks the auto-level divider, which then stands still
AutolevelDue(imuOk) ==
  IF Armed(imuOk) THEN autolevelCountdown = 0 ELSE autolevelCountdown = 0 /\ backgroundCountdown = 0
UpdateDue(imuOk) ==
  IF UseAutolevel(imuOk) THEN autolevelCountdown = 0 ELSE backgroundCountdown = 0

\* variant: a change of mode keeps the controllers' memory
ResetOnArmingOnly(imuOk) == ~Armed(imuOk) \/ ~armed
ResetRequired(imuOk) == ~Armed(imuOk) \/ ~armed \/ rc.mode # flightMode

\* in lockstep a pass short of the target time writes and publishes nothing
AtTarget == IF Lockstep THEN BOOLEAN ELSE {TRUE}
\* and the sample was validated before it reached the loop
ImuResults == IF Lockstep THEN {TRUE} ELSE BOOLEAN

-----------------------------------------------------------------------------
(* The parts every pass runs                                               *)

\* arming, the attitude dividers, the sample sums and the estimator
Sense(imuOk) ==
  /\ armed' = Armed(imuOk)
  /\ flightMode' = rc.mode
  /\ autolevelCountdown' = IF UseAutolevel(imuOk)
                           THEN CountDown(autolevelCountdown, AutolevelDiv)
                           ELSE autolevelCountdown
  /\ backgroundCountdown' = IF UseAutolevel(imuOk)
                            THEN backgroundCountdown
                            ELSE CountDown(backgroundCountdown, BackgroundDiv)
  /\ samples' = IF imuOk /\ ~UpdateDue(imuOk) THEN samples + 1 ELSE 0
  /\ attitude' = IF ~imuOk THEN "zero"
                 ELSE IF ~UpdateDue(imuOk) THEN attitude
                 ELSE IF Armed(imuOk) THEN "predicted" ELSE "accel"

\* what is left of a controller's memory once the reset has been decided
Kept(memory, imuOk) == IF ResetRequired(imuOk) THEN {} ELSE memory

\* rate_desired is zeroed with the other attitude state on an IMU fault
Held(imuOk) ==
  IF imuOk THEN [setpoint EXCEPT !.age = IF @ < AutolevelDiv THEN @ + 1 ELSE @]
  ELSE [by |-> "none", age |-> 0]

Write(atTarget, command) == output' = IF atTarget THEN command ELSE output

\* finalize_cycle and publish_flight_state
Finalize(imuOk, atTarget) ==
  IF atTarget
  THEN /\ publishCountdown' = CountDown(publishCountdown, PublishDiv)
       /\ health' = IF publishCountdown = 0
                    THEN [armed |-> Armed(imuOk), imu |-> imuOk, rc |-> ~RcStale, mode |-> rc.mode]
                    ELSE health
  ELSE UNCHANGED <<publishCountdown, health>>

Remember(imuOk, tested) ==
  /\ lowSeen' = (Fit(imuOk) /\ (lowSeen \/ rc.throttleLow))
  /\ zeroTicks' = IF imuOk /\ attitude' = "zero" THEN zeroTicks + 1 ELSE 0
  /\ testSeen' = (tested \/ (testSeen /\ ~ResetRequired(imuOk)))
  /\ unseeded' = (attitude' # "accel" /\ (unseeded \/ ~imuOk))
  /\ groundTicks' = IF ~imuOk \/ Armed(imuOk) THEN 0
                    ELSE IF groundTicks < BackgroundDiv THEN groundTicks + 1
                    ELSE groundTicks

-----------------------------------------------------------------------------
(* The exits of a pass                                                     *)

\* a pass that never reaches the mode switch: a test or the failsafe
Short(imuOk, atTarget, command, tested) ==
  /\ Sense(imuOk)
  /\ attitudeMemory' = Kept(attitudeMemory, imuOk)
  /\ rateMemory' = Kept(rateMemory, imuOk)
  /\ setpoint' = Held(imuOk)
  /\ Write(atTarget, command)
  /\ Finalize(imuOk, atTarget)
  /\ Remember(imuOk, tested)
  /\ UNCHANGED <<rc, rcAge, tests>>

TickMotorTest(imuOk, atTarget) ==
  /\ motorTest.active
  /\ Short(imuOk, atTarget, [path |-> "test", spin |-> motorTest.spin], TRUE)

TickRawTest(imuOk, atTarget) ==
  /\ ~motorTest.active /\ rawTest.active
  /\ Short(imuOk, atTarget, [path |-> "raw", spin |-> rawTest.spin], TRUE)

TickFailsafe(imuOk, atTarget) ==
  /\ ~motorTest.active /\ ~rawTest.active
  /\ ~imuOk \/ RcStale
  /\ Short(imuOk, atTarget, [path |-> "cut", spin |-> {}], FALSE)

\* the rate controller runs in both modes; the mixer may turn any of the
\* motors, and write_all turns none of them unless armed
Fly(imuOk, atTarget) ==
  /\ ~motorTest.active /\ ~rawTest.active
  /\ imuOk /\ ~RcStale
  /\ Sense(imuOk)
  /\ rateMemory' = Kept(rateMemory, imuOk) \cup {<<Armed(imuOk), rc.mode>>}
  /\ \E mix \in SUBSET Motors :
       Write(atTarget, [path |-> "fly", spin |-> IF Armed(imuOk) THEN mix ELSE {}])
  /\ Finalize(imuOk, atTarget)
  /\ Remember(imuOk, FALSE)
  /\ UNCHANGED <<rc, rcAge, tests>>

\* the outer loop runs on a reset and when an attitude prediction is fresh;
\* attitude_dt is positive exactly when this pass made one
TickAutoLevel(imuOk, atTarget) ==
  /\ rc.mode = "AUTO_LEVEL"
  /\ Fly(imuOk, atTarget)
  /\ IF ResetRequired(imuOk) \/ (UpdateDue(imuOk) /\ Armed(imuOk))
     THEN /\ setpoint' = [by |-> "level", age |-> 0]
          /\ attitudeMemory' = Kept(attitudeMemory, imuOk) \cup {<<Armed(imuOk), rc.mode>>}
     ELSE /\ setpoint' = Held(imuOk)
          /\ attitudeMemory' = attitudeMemory

TickAcro(imuOk, atTarget) ==
  /\ rc.mode = "ACRO"
  /\ Fly(imuOk, atTarget)
  /\ setpoint' = [by |-> "stick", age |-> 0]
  /\ attitudeMemory' = Kept(attitudeMemory, imuOk)

Tick(imuOk, atTarget) ==
  \/ TickMotorTest(imuOk, atTarget)
  \/ TickRawTest(imuOk, atTarget)
  \/ TickFailsafe(imuOk, atTarget)
  \/ TickAutoLevel(imuOk, atTarget)
  \/ TickAcro(imuOk, atTarget)

-----------------------------------------------------------------------------
(* What happens between two passes                                         *)

\* a synchronised RC event; only the lockstep host can withdraw validity
RcSync ==
  /\ \E sample \in RcSamples :
       /\ Lockstep \/ sample.valid \/ ~rc.valid
       /\ rc' = sample
  /\ rcAge' = 0
  /\ UNCHANGED <<cycle, tests, history>>

\* a millisecond passes; past the timeout the age has nothing more to say
Elapse ==
  /\ rcAge <= StaleTimeout
  /\ rcAge' = rcAge + 1
  /\ UNCHANGED <<rc, cycle, tests, history>>

\* rdd2_motor_test_set and rdd2_motor_raw_test_set for one motor
SetOne(test, motor, turn) ==
  [active |-> TRUE, spin |-> IF turn THEN test.spin \cup {motor} ELSE test.spin \ {motor}]

MotorTestSet ==
  /\ \E motor \in Motors, turn \in BOOLEAN : motorTest' = SetOne(motorTest, motor, turn)
  /\ UNCHANGED <<rc, rcAge, cycle, rawTest, history>>

MotorRawTestSet ==
  /\ \/ \E motor \in Motors, turn \in BOOLEAN : rawTest' = SetOne(rawTest, motor, turn)
     \/ \E spin \in {{}, Motors} : rawTest' = [active |-> TRUE, spin |-> spin]
  /\ UNCHANGED <<rc, rcAge, cycle, motorTest, history>>

MotorTestClear ==
  /\ motorTest' = [active |-> FALSE, spin |-> {}]
  /\ UNCHANGED <<rc, rcAge, cycle, rawTest, history>>

MotorRawTestClear ==
  /\ rawTest' = [active |-> FALSE, spin |-> {}]
  /\ UNCHANGED <<rc, rcAge, cycle, motorTest, history>>

-----------------------------------------------------------------------------
(* The specification                                                       *)

Init ==
  \* channels are centred, which selects AUTO_LEVEL, and throttle is at minimum;
  \* whether a centred arm channel reads high is the generated code's choice
  /\ \E high \in BOOLEAN :
       rc = [valid |-> FALSE, armSwitch |-> high, throttleLow |-> TRUE, mode |-> "AUTO_LEVEL"]
  /\ rcAge = 0
  /\ armed = FALSE
  /\ flightMode = "ACRO"
  /\ autolevelCountdown = 0 /\ backgroundCountdown = 0 /\ publishCountdown = 0
  /\ samples = 0
  /\ attitude = "zero"
  /\ attitudeMemory = {} /\ rateMemory = {}
  /\ setpoint = [by |-> "none", age |-> 0]
  /\ motorTest = [active |-> FALSE, spin |-> {}]
  /\ rawTest = [active |-> FALSE, spin |-> {}]
  /\ output = [path |-> "init", spin |-> {}]
  /\ health = [armed |-> FALSE, imu |-> FALSE, rc |-> FALSE, mode |-> "ACRO"]
  /\ lowSeen = FALSE /\ zeroTicks = 0 /\ testSeen = FALSE
  /\ unseeded = TRUE /\ groundTicks = 0

Next ==
  \/ \E imuOk \in ImuResults, atTarget \in AtTarget : Tick(imuOk, atTarget)
  \/ RcSync
  \/ Elapse
  \/ MotorTestSet
  \/ MotorRawTestSet
  \/ MotorTestClear
  \/ MotorRawTestClear

Spec == Init /\ [][Next]_vars

-----------------------------------------------------------------------------
(* Properties                                                              *)

\* Every variable holds a value of its kind; the counters stay inside the
\* ranges their dividers give them.
TypeOK ==
  /\ rc \in RcSamples /\ rcAge \in 0 .. StaleTimeout + 1
  /\ armed \in BOOLEAN /\ flightMode \in Modes
  /\ autolevelCountdown \in 0 .. AutolevelDiv - 1
  /\ backgroundCountdown \in 0 .. BackgroundDiv - 1
  /\ publishCountdown \in 0 .. PublishDiv - 1
  /\ samples \in Nat
  /\ attitude \in {"zero", "accel", "predicted"}
  /\ attitudeMemory \in SUBSET Flights /\ rateMemory \in SUBSET Flights
  /\ setpoint \in Setpoints
  /\ motorTest \in Tests /\ rawTest \in Tests
  /\ output \in Commands /\ health \in Health
  /\ lowSeen \in BOOLEAN /\ zeroTicks \in Nat /\ testSeen \in BOOLEAN
  /\ unseeded \in BOOLEAN /\ groundTicks \in 0 .. BackgroundDiv

\* The loop never commands a turning motor in flight unless the throttle has
\* been at minimum at some pass since the IMU, the RC link or the arm switch
\* last failed: a link or sensor that comes back with the stick up does not
\* bring the motors back (main.c, the arming condition).
SpinNeedsLowThrottle ==
  [][output' # output /\ output'.path = "fly" /\ output'.spin # {} => lowSeen']_vars

\* Whatever the controllers integrate over belongs to the current arming
\* state and flight mode: no memory of the ground, of a flight before a
\* failsafe or of the other mode reaches the mixer, also when motor tests
\* skip the controllers while the vehicle arms or changes mode.
MemoryOfThisFlight == attitudeMemory \cup rateMemory \subseteq {<<armed, flightMode>>}

\* An armed vehicle in AUTO_LEVEL flies a roll and pitch setpoint the outer
\* loop computed, and computed less than one auto-level period ago, unless a
\* motor test has taken a pass since the controllers were last reset: no
\* stick setpoint of ACRO outlives the change of mode.
LevelSetpointFresh ==
  armed /\ flightMode = "AUTO_LEVEL" /\ ~testSeen =>
    setpoint.by = "level" /\ setpoint.age < AutolevelDiv

\* However arming and mode changes alternate between the two dividers, an
\* attitude prediction never integrates over more passes than the two
\* periods together less one.
PredictionWindow == samples <= AutolevelDiv + BackgroundDiv - 2

\* The zeroed attitude an IMU fault leaves behind is flown on, or reported as
\* valid, for less than the two attitude periods together, even if the
\* vehicle arms again on the next pass.
ZeroedAttitudeBounded == zeroTicks <= AutolevelDiv + BackgroundDiv - 2

\* A vehicle that has stood disarmed with a healthy IMU for one background
\* period has levelled its estimator on the accelerometer since the last IMU
\* fault: only a vehicle armed sooner takes off on an estimate that predates it.
EstimatorReseeded == groundTicks = BackgroundDiv => ~unseeded

=============================================================================
