-------------------------- MODULE FlightLoop_proofs --------------------------
(***************************************************************************)
(* The invariants of the control loop for every pair of attitude dividers, *)
(* every set of motors and both targets.  Each invariant of FlightLoop is  *)
(* strengthened to one that every pass preserves: a bound on a count of    *)
(* passes becomes a bound on the count plus the countdowns that end it.    *)
(***************************************************************************)
EXTENDS FlightLoop, TLAPS

-----------------------------------------------------------------------------
(* The strengthened invariants                                             *)

Countdowns == autolevelCountdown + backgroundCountdown
Window == AutolevelDiv + BackgroundDiv - 2

\* a pass that adds to either count takes one from a countdown
WindowInv == samples + Countdowns <= Window
ZeroInv == zeroTicks + Countdowns <= Window

\* arming remembers the low throttle at least as well as the history does
ArmInv == armed => lowSeen

\* the setpoint ages while the auto-level countdown runs
SetpointInv ==
  armed /\ flightMode = "AUTO_LEVEL" /\ ~testSeen =>
    setpoint.by = "level" /\ setpoint.age + autolevelCountdown <= AutolevelDiv - 1

\* every disarmed pass takes one from the background countdown
SeedInv == unseeded => groundTicks + backgroundCountdown <= BackgroundDiv - 1

IInv ==
  /\ TypeOK
  /\ WindowInv
  /\ ZeroInv
  /\ SeedInv
  /\ MemoryOfThisFlight
  /\ ArmInv
  /\ SetpointInv

\* what is not a pass leaves every variable of these invariants alone
Between == RcSync \/ Elapse \/ MotorTestSet \/ MotorRawTestSet \/ MotorTestClear \/ MotorRawTestClear

-----------------------------------------------------------------------------
(* What every pass has in common                                           *)

\* Every exit of the loop body has run the arming, divider and estimator code
\* and finalize_cycle, and leaves the inputs alone.
LEMMA TickParts ==
  ASSUME NEW imuOk \in BOOLEAN, NEW atTarget \in BOOLEAN, Tick(imuOk, atTarget)
  PROVE  /\ Sense(imuOk)
         /\ Finalize(imuOk, atTarget)
         /\ \E tested \in BOOLEAN : Remember(imuOk, tested)
         /\ UNCHANGED <<rc, rcAge, tests>>
  BY DEF Tick, TickMotorTest, TickRawTest, TickFailsafe, TickAutoLevel, TickAcro, Short, Fly

\* The inputs of a pass are Booleans on both targets.
LEMMA PassInputs ==
  ASSUME NEW imuOk \in ImuResults, NEW atTarget \in AtTarget
  PROVE  imuOk \in BOOLEAN /\ atTarget \in BOOLEAN
  BY DEF ImuResults, AtTarget

\* A divider's countdown stays inside its period.
LEMMA CountDownType ==
  ASSUME NEW divisor \in Nat \ {0}, NEW countdown \in 0 .. divisor - 1
  PROVE  /\ CountDown(countdown, divisor) \in 0 .. divisor - 1
         /\ countdown # 0 => CountDown(countdown, divisor) = countdown - 1
  BY DEF CountDown

\* The arming decision is a Boolean, whatever the sample.
LEMMA ArmedType ==
  ASSUME TypeOK, DivisorsAssumption, NEW imuOk \in BOOLEAN
  PROVE  /\ Armed(imuOk) \in BOOLEAN /\ Fit(imuOk) \in BOOLEAN /\ RcStale \in BOOLEAN
         /\ UpdateDue(imuOk) \in BOOLEAN /\ ResetRequired(imuOk) \in BOOLEAN
         /\ UseAutolevel(imuOk) \in BOOLEAN
  BY DEF Armed, Fit, RcStale, UpdateDue, ResetRequired, UseAutolevel, TypeOK, RcSamples,
         DivisorsAssumption

-----------------------------------------------------------------------------
(* Types                                                                   *)

\* One pass keeps the types of what it computes for every exit.
LEMMA SenseType ==
  ASSUME TypeOK, DivisorsAssumption, NEW imuOk \in BOOLEAN, Sense(imuOk)
  PROVE  /\ armed' \in BOOLEAN /\ flightMode' \in Modes
         /\ autolevelCountdown' \in 0 .. AutolevelDiv - 1
         /\ backgroundCountdown' \in 0 .. BackgroundDiv - 1
         /\ samples' \in Nat
         /\ attitude' \in {"zero", "accel", "predicted"}
<1>1. armed' \in BOOLEAN /\ flightMode' \in Modes
  BY ArmedType DEF Sense, TypeOK, RcSamples
<1>2. autolevelCountdown' \in 0 .. AutolevelDiv - 1
  BY CountDownType DEF Sense, TypeOK, DivisorsAssumption
<1>3. backgroundCountdown' \in 0 .. BackgroundDiv - 1
  BY CountDownType DEF Sense, TypeOK, DivisorsAssumption
<1>4. samples' \in Nat
  BY DEF Sense, TypeOK
<1>5. attitude' \in {"zero", "accel", "predicted"}
  BY DEF Sense, TypeOK
<1>6. QED
  BY <1>1, <1>2, <1>3, <1>4, <1>5

\* finalize_cycle publishes a flight state of this pass or keeps the last one.
LEMMA FinalizeType ==
  ASSUME TypeOK, DivisorsAssumption, NEW imuOk \in BOOLEAN, NEW atTarget \in BOOLEAN,
         Finalize(imuOk, atTarget)
  PROVE  publishCountdown' \in 0 .. PublishDiv - 1 /\ health' \in Health
<1>1. CountDown(publishCountdown, PublishDiv) \in 0 .. PublishDiv - 1
  BY CountDownType DEF TypeOK, DivisorsAssumption
<1>2. [armed |-> Armed(imuOk), imu |-> imuOk, rc |-> ~RcStale, mode |-> rc.mode] \in Health
  BY ArmedType DEF Health, TypeOK, RcSamples
<1>3. QED
  BY <1>1, <1>2 DEF Finalize, TypeOK

\* The history stays well typed: the count of disarmed passes saturates.
LEMMA RememberType ==
  ASSUME TypeOK, DivisorsAssumption, NEW imuOk \in BOOLEAN, NEW tested \in BOOLEAN,
         Remember(imuOk, tested)
  PROVE  /\ lowSeen' \in BOOLEAN /\ zeroTicks' \in Nat /\ testSeen' \in BOOLEAN
         /\ unseeded' \in BOOLEAN /\ groundTicks' \in 0 .. BackgroundDiv
  BY ArmedType DEF Remember, TypeOK, DivisorsAssumption, RcSamples

\* The setpoint an attitude step has not recomputed is one pass older or zeroed.
LEMMA HeldType ==
  ASSUME TypeOK, DivisorsAssumption, NEW imuOk \in BOOLEAN
  PROVE  /\ Held(imuOk) \in Setpoints
         /\ imuOk => Held(imuOk).by = setpoint.by
         /\ imuOk /\ setpoint.age < AutolevelDiv => Held(imuOk).age = setpoint.age + 1
  BY DEF Held, TypeOK, Setpoints, DivisorsAssumption

\* A memory loses flights at a reset and otherwise keeps them.
LEMMA KeptType ==
  ASSUME NEW imuOk, NEW memory \in SUBSET Flights
  PROVE  Kept(memory, imuOk) \in SUBSET Flights
  BY DEF Kept

\* The mixer's command is one for the motors there are.
LEMMA FlyOutput ==
  ASSUME TypeOK, NEW imuOk \in BOOLEAN, NEW atTarget \in BOOLEAN, Fly(imuOk, atTarget)
  PROVE  output' \in Commands
<1>1. PICK mix \in SUBSET Motors :
        Write(atTarget, [path |-> "fly", spin |-> IF Armed(imuOk) THEN mix ELSE {}])
  BY DEF Fly
<1>2. [path |-> "fly", spin |-> IF Armed(imuOk) THEN mix ELSE {}] \in Commands
  <2>1. (IF Armed(imuOk) THEN mix ELSE {}) \in SUBSET Motors
    OBVIOUS
  <2>2. QED
    BY <2>1 DEF Commands
<1>3. QED
  BY <1>1, <1>2 DEF Write, TypeOK

\* The types are inductive over a pass.
LEMMA TickType ==
  ASSUME TypeOK, DivisorsAssumption, NEW imuOk \in BOOLEAN, NEW atTarget \in BOOLEAN,
         Tick(imuOk, atTarget)
  PROVE  TypeOK'
<1>1. PICK tested \in BOOLEAN : Remember(imuOk, tested)
  BY TickParts
<1>2. rc' \in RcSamples /\ rcAge' \in 0 .. StaleTimeout + 1 /\ motorTest' \in Tests /\ rawTest' \in Tests
  BY TickParts DEF TypeOK, tests
<1>3. <<Armed(imuOk), rc.mode>> \in Flights
  BY ArmedType DEF Flights, TypeOK, RcSamples
<1>4. /\ attitudeMemory' \in SUBSET Flights
      /\ rateMemory' \in SUBSET Flights
      /\ setpoint' \in Setpoints
      /\ output' \in Commands
  <2>1. CASE \E command \in Commands, t \in BOOLEAN : Short(imuOk, atTarget, command, t)
    BY <2>1, KeptType, HeldType DEF Short, Write, TypeOK
  <2>2. CASE TickAutoLevel(imuOk, atTarget)
    <3>1. output' \in Commands
      BY <2>2, FlyOutput DEF TickAutoLevel
    <3>2. [by |-> "level", age |-> 0] \in Setpoints
      BY DEF Setpoints, DivisorsAssumption
    <3>3. QED
      BY <2>2, <3>1, <3>2, <1>3, KeptType, HeldType DEF TickAutoLevel, Fly, TypeOK
  <2>3. CASE TickAcro(imuOk, atTarget)
    <3>1. output' \in Commands
      BY <2>3, FlyOutput DEF TickAcro
    <3>2. [by |-> "stick", age |-> 0] \in Setpoints
      BY DEF Setpoints, DivisorsAssumption
    <3>3. QED
      BY <2>3, <3>1, <3>2, <1>3, KeptType DEF TickAcro, Fly, TypeOK
  <2>4. QED
    <3>1. /\ [path |-> "test", spin |-> motorTest.spin] \in Commands
          /\ [path |-> "raw", spin |-> rawTest.spin] \in Commands
          /\ [path |-> "cut", spin |-> {}] \in Commands
      BY DEF Commands, TypeOK, Tests
    <3>2. QED
      BY <3>1, <2>1, <2>2, <2>3 DEF Tick, TickMotorTest, TickRawTest, TickFailsafe
<1>5. QED
  BY <1>1, <1>2, <1>4, TickParts, SenseType, FinalizeType, RememberType DEF TypeOK

\* What happens between two passes keeps the types too.
LEMMA BetweenType ==
  ASSUME TypeOK, DivisorsAssumption, Between
  PROVE  TypeOK'
<1>1. CASE RcSync
  BY <1>1 DEF RcSync, TypeOK, cycle, tests, history, DivisorsAssumption
<1>2. CASE Elapse
  BY <1>2 DEF Elapse, TypeOK, cycle, tests, history, DivisorsAssumption
<1>3. CASE MotorTestSet
  BY <1>3 DEF MotorTestSet, SetOne, Tests, TypeOK, cycle, history
<1>4. CASE MotorRawTestSet
  <2>1. rawTest' \in Tests
    <3>1. CASE \E motor \in Motors, turn \in BOOLEAN : rawTest' = SetOne(rawTest, motor, turn)
      BY <3>1 DEF SetOne, Tests, TypeOK
    <3>2. CASE \E spin \in {{}, Motors} : rawTest' = [active |-> TRUE, spin |-> spin]
      BY <3>2 DEF Tests
    <3>3. QED
      BY <1>4, <3>1, <3>2 DEF MotorRawTestSet
  <2>2. QED
    BY <1>4, <2>1 DEF MotorRawTestSet, TypeOK, cycle, history
<1>5. CASE MotorTestClear
  BY <1>5 DEF MotorTestClear, Tests, TypeOK, cycle, history
<1>6. CASE MotorRawTestClear
  BY <1>6 DEF MotorRawTestClear, Tests, TypeOK, cycle, history
<1>7. QED
  BY <1>1, <1>2, <1>3, <1>4, <1>5, <1>6 DEF Between

\* main's initial state is well typed.
LEMMA InitType ==
  ASSUME Init, DivisorsAssumption
  PROVE  TypeOK
<1>1. rc \in RcSamples
  <2>1. PICK high \in BOOLEAN :
          rc = [valid |-> FALSE, armSwitch |-> high, throttleLow |-> TRUE, mode |-> "AUTO_LEVEL"]
    BY DEF Init
  <2>2. QED
    BY <2>1 DEF RcSamples, Modes
<1>2. setpoint \in Setpoints /\ attitudeMemory \in SUBSET Flights /\ rateMemory \in SUBSET Flights
  BY DEF Init, Setpoints, DivisorsAssumption
<1>3. motorTest \in Tests /\ rawTest \in Tests
  BY DEF Init, Tests
<1>4. output \in Commands
  BY DEF Init, Commands
<1>5. health \in Health
  BY DEF Init, Health, Modes
<1>6. /\ rcAge \in 0 .. StaleTimeout + 1
      /\ autolevelCountdown \in 0 .. AutolevelDiv - 1
      /\ backgroundCountdown \in 0 .. BackgroundDiv - 1
      /\ publishCountdown \in 0 .. PublishDiv - 1
      /\ samples \in Nat /\ zeroTicks \in Nat /\ groundTicks \in 0 .. BackgroundDiv
  BY DEF Init, DivisorsAssumption
<1>7. armed \in BOOLEAN /\ lowSeen \in BOOLEAN /\ testSeen \in BOOLEAN /\ unseeded \in BOOLEAN
  BY Zenon DEF Init
<1>8. flightMode \in Modes /\ attitude \in {"zero", "accel", "predicted"}
  BY DEF Init, Modes
<1>9. QED
  BY <1>1, <1>2, <1>3, <1>4, <1>5, <1>6, <1>7, <1>8 DEF TypeOK

\* A step of the specification is a pass or something between two passes.
LEMMA NextCases ==
  ASSUME Next
  PROVE  \/ \E imuOk \in BOOLEAN, atTarget \in BOOLEAN : Tick(imuOk, atTarget)
         \/ Between
  BY PassInputs DEF Next, Between

\* Every variable of the control loop keeps its type, for all dividers.
THEOREM TypeCorrect == Spec => []TypeOK
<1>1. Init => TypeOK
  BY InitType, DivisorsAssumption
<1>2. TypeOK /\ [Next]_vars => TypeOK'
  <2>1. CASE Next
    BY <2>1, NextCases, TickType, BetweenType, DivisorsAssumption
  <2>2. CASE UNCHANGED vars
    BY <2>2 DEF TypeOK, vars, cycle, tests, history
  <2>3. QED
    BY <2>1, <2>2
<1>3. QED
  BY <1>1, <1>2, PTL DEF Spec

-----------------------------------------------------------------------------
(* Counts of passes against the countdowns that end them                   *)

\* The pair of countdowns loses one at a pass on which no attitude update is due.
LEMMA CountdownsStep ==
  ASSUME TypeOK, DivisorsAssumption, NEW imuOk \in BOOLEAN, Sense(imuOk)
  PROVE  /\ Countdowns' <= Window
         /\ ~UpdateDue(imuOk) => Countdowns' = Countdowns - 1
<1>1. Countdowns' <= Window
  BY SenseType DEF Countdowns, Window, DivisorsAssumption
<1>2. ASSUME ~UpdateDue(imuOk) PROVE Countdowns' = Countdowns - 1
  <2>1. CASE UseAutolevel(imuOk)
    BY <1>2, <2>1, CountDownType DEF UpdateDue, Sense, Countdowns, TypeOK, DivisorsAssumption
  <2>2. CASE ~UseAutolevel(imuOk)
    BY <1>2, <2>2, CountDownType DEF UpdateDue, Sense, Countdowns, TypeOK, DivisorsAssumption
  <2>3. QED
    BY <2>1, <2>2
<1>3. QED
  BY <1>1, <1>2

\* A pass keeps both window bounds.
LEMMA TickWindow ==
  ASSUME TypeOK, DivisorsAssumption, WindowInv, ZeroInv,
         NEW imuOk \in BOOLEAN, NEW atTarget \in BOOLEAN, Tick(imuOk, atTarget)
  PROVE  WindowInv' /\ ZeroInv'
<1>1. Sense(imuOk)
  BY TickParts
<1>2. PICK tested \in BOOLEAN : Remember(imuOk, tested)
  BY TickParts
<1>3. WindowInv'
  <2>1. CASE imuOk /\ ~UpdateDue(imuOk)
    <3>1. Countdowns' = Countdowns - 1 /\ samples' = samples + 1
      BY <1>1, <2>1, CountdownsStep DEF Sense
    <3>2. QED
      BY <3>1 DEF WindowInv, TypeOK, Countdowns, Window, DivisorsAssumption
  <2>2. CASE ~(imuOk /\ ~UpdateDue(imuOk))
    <3>1. samples' = 0
      BY <1>1, <2>2 DEF Sense
    <3>2. QED
      BY <1>1, <3>1, CountdownsStep, SenseType DEF WindowInv, Countdowns, Window, DivisorsAssumption
  <2>3. QED
    BY <2>1, <2>2
<1>4. ZeroInv'
  <2>1. CASE imuOk /\ attitude' = "zero"
    <3>1. ~UpdateDue(imuOk)
      BY <1>1, <2>1 DEF Sense
    <3>2. Countdowns' = Countdowns - 1 /\ zeroTicks' = zeroTicks + 1
      BY <1>1, <1>2, <2>1, <3>1, CountdownsStep DEF Remember
    <3>3. QED
      BY <3>2 DEF ZeroInv, TypeOK, Countdowns, Window, DivisorsAssumption
  <2>2. CASE ~(imuOk /\ attitude' = "zero")
    <3>1. zeroTicks' = 0
      BY <1>2, <2>2 DEF Remember
    <3>2. QED
      BY <1>1, <3>1, CountdownsStep, SenseType DEF ZeroInv, Countdowns, Window, DivisorsAssumption
  <2>3. QED
    BY <2>1, <2>2
<1>5. QED
  BY <1>3, <1>4

\* A disarmed pass with a good IMU takes one from the background countdown or
\* levels the estimator.
LEMMA TickSeed ==
  ASSUME TypeOK, DivisorsAssumption, SeedInv,
         NEW imuOk \in BOOLEAN, NEW atTarget \in BOOLEAN, Tick(imuOk, atTarget)
  PROVE  SeedInv'
<1>1. Sense(imuOk)
  BY TickParts
<1>2. PICK tested \in BOOLEAN : Remember(imuOk, tested)
  BY TickParts
<1>3. SUFFICES ASSUME unseeded' PROVE groundTicks' + backgroundCountdown' <= BackgroundDiv - 1
  BY DEF SeedInv
<1>4. CASE ~imuOk \/ Armed(imuOk)
  <2>1. groundTicks' = 0
    BY <1>2, <1>4 DEF Remember
  <2>2. QED
    BY <1>1, <2>1, SenseType DEF DivisorsAssumption
<1>5. CASE imuOk /\ ~Armed(imuOk)
  <2>1. attitude' # "accel" /\ unseeded
    BY <1>2, <1>3, <1>5 DEF Remember
  <2>2. ~UseAutolevel(imuOk) /\ backgroundCountdown # 0
    BY <1>1, <1>5, <2>1 DEF Sense, UpdateDue, UseAutolevel
  <2>3. backgroundCountdown' = backgroundCountdown - 1
    BY <1>1, <2>2, CountDownType DEF Sense, TypeOK, DivisorsAssumption
  <2>4. groundTicks + backgroundCountdown <= BackgroundDiv - 1
    BY <2>1 DEF SeedInv
  <2>5. groundTicks' = IF groundTicks < BackgroundDiv THEN groundTicks + 1 ELSE groundTicks
    BY <1>2, <1>5 DEF Remember
  <2>6. QED
    BY <2>3, <2>4, <2>5 DEF TypeOK, DivisorsAssumption
<1>6. QED
  BY <1>4, <1>5

-----------------------------------------------------------------------------
(* Controller memory, arming and the setpoint                              *)

\* Without a reset the flight goes on: arming state and mode stay as they are.
LEMMA SameFlight ==
  ASSUME TypeOK, DivisorsAssumption, NEW imuOk \in BOOLEAN, Sense(imuOk), ~ResetRequired(imuOk)
  PROVE  armed /\ Armed(imuOk) /\ armed' = armed /\ flightMode' = flightMode
  BY ArmedType DEF Sense, ResetRequired, TypeOK

\* What a controller keeps belongs to the flight the pass goes on with.
LEMMA KeptFlight ==
  ASSUME TypeOK, DivisorsAssumption, NEW imuOk \in BOOLEAN, Sense(imuOk),
         NEW memory \in SUBSET {<<armed, flightMode>>}
  PROVE  Kept(memory, imuOk) \subseteq {<<armed', flightMode'>>}
  BY SameFlight DEF Kept

\* A pass adds the flight it belongs to, and nothing else, to a memory.
LEMMA TickMemory ==
  ASSUME TypeOK, DivisorsAssumption, MemoryOfThisFlight,
         NEW imuOk \in BOOLEAN, NEW atTarget \in BOOLEAN, Tick(imuOk, atTarget)
  PROVE  MemoryOfThisFlight'
<1>1. Sense(imuOk)
  BY TickParts
<1>2. /\ Kept(attitudeMemory, imuOk) \subseteq {<<armed', flightMode'>>}
      /\ Kept(rateMemory, imuOk) \subseteq {<<armed', flightMode'>>}
  BY <1>1, KeptFlight DEF MemoryOfThisFlight
<1>3. <<Armed(imuOk), rc.mode>> = <<armed', flightMode'>>
  BY <1>1 DEF Sense
<1>4. CASE \E command, t : Short(imuOk, atTarget, command, t)
  BY <1>2, <1>4 DEF Short, MemoryOfThisFlight
<1>5. CASE TickAutoLevel(imuOk, atTarget)
  <2>1. rateMemory' \subseteq {<<armed', flightMode'>>}
    BY <1>2, <1>3, <1>5 DEF TickAutoLevel, Fly
  <2>2. attitudeMemory' \subseteq {<<armed', flightMode'>>}
    <3>1. CASE ResetRequired(imuOk) \/ (UpdateDue(imuOk) /\ Armed(imuOk))
      BY <1>2, <1>3, <1>5, <3>1 DEF TickAutoLevel
    <3>2. CASE ~(ResetRequired(imuOk) \/ (UpdateDue(imuOk) /\ Armed(imuOk)))
      <4>1. attitudeMemory' = attitudeMemory /\ ~ResetRequired(imuOk)
        BY <1>5, <3>2 DEF TickAutoLevel
      <4>2. QED
        BY <1>2, <4>1 DEF Kept
    <3>3. QED
      BY <3>1, <3>2
  <2>3. QED
    BY <2>1, <2>2 DEF MemoryOfThisFlight
<1>6. CASE TickAcro(imuOk, atTarget)
  BY <1>2, <1>3, <1>6 DEF TickAcro, Fly, MemoryOfThisFlight
<1>7. QED
  BY <1>4, <1>5, <1>6 DEF Tick, TickMotorTest, TickRawTest, TickFailsafe

\* Arming and the history of the throttle start and end on the same passes.
LEMMA TickArm ==
  ASSUME TypeOK, DivisorsAssumption, ArmInv,
         NEW imuOk \in BOOLEAN, NEW atTarget \in BOOLEAN, Tick(imuOk, atTarget)
  PROVE  ArmInv'
<1>1. armed' = Armed(imuOk)
  BY TickParts DEF Sense
<1>2. lowSeen' = (Fit(imuOk) /\ (lowSeen \/ rc.throttleLow))
  BY TickParts DEF Remember
<1>3. QED
  BY <1>1, <1>2 DEF ArmInv, Armed

\* In AUTO_LEVEL the setpoint is new, or one pass older while the countdown
\* has one pass less to go.
LEMMA TickSetpoint ==
  ASSUME TypeOK, DivisorsAssumption, SetpointInv,
         NEW imuOk \in BOOLEAN, NEW atTarget \in BOOLEAN, Tick(imuOk, atTarget)
  PROVE  SetpointInv'
<1>1. Sense(imuOk)
  BY TickParts
<1>2. SUFFICES ASSUME armed', flightMode' = "AUTO_LEVEL", ~testSeen'
               PROVE  /\ setpoint'.by = "level"
                      /\ setpoint'.age + autolevelCountdown' <= AutolevelDiv - 1
  BY DEF SetpointInv
<1>3. Armed(imuOk) /\ UseAutolevel(imuOk) /\ rc.mode = "AUTO_LEVEL" /\ imuOk /\ ~RcStale
  BY <1>1, <1>2 DEF Sense, UseAutolevel, Armed, Fit
<1>4. TickAutoLevel(imuOk, atTarget)
  BY <1>2, <1>3
     DEF Tick, TickMotorTest, TickRawTest, TickFailsafe, TickAcro, Short, Remember
<1>5. CASE ResetRequired(imuOk) \/ UpdateDue(imuOk)
  <2>1. setpoint' = [by |-> "level", age |-> 0]
    BY <1>3, <1>4, <1>5 DEF TickAutoLevel
  <2>2. setpoint'.by = "level" /\ setpoint'.age = 0
    BY <2>1
  <2>3. QED
    BY <1>1, <2>2, SenseType DEF DivisorsAssumption
<1>6. CASE ~ResetRequired(imuOk) /\ ~UpdateDue(imuOk)
  <2>1. setpoint' = Held(imuOk)
    BY <1>4, <1>6 DEF TickAutoLevel
  <2>2. armed /\ flightMode = "AUTO_LEVEL"
    BY <1>1, <1>2, <1>6, SameFlight
  <2>3. ~testSeen
    BY <1>2, <1>4, <1>6 DEF TickAutoLevel, Fly, Remember
  <2>4. setpoint.by = "level" /\ setpoint.age + autolevelCountdown <= AutolevelDiv - 1
    BY <2>2, <2>3 DEF SetpointInv
  <2>5. autolevelCountdown # 0 /\ autolevelCountdown' = autolevelCountdown - 1
    BY <1>1, <1>3, <1>6, CountDownType DEF Sense, UpdateDue, TypeOK, DivisorsAssumption
  <2>6. setpoint.age < AutolevelDiv
    BY <2>4 DEF TypeOK, Setpoints, DivisorsAssumption
  <2>7. setpoint'.by = "level" /\ setpoint'.age = setpoint.age + 1
    BY <1>3, <2>1, <2>4, <2>6, HeldType
  <2>8. QED
    BY <2>4, <2>5, <2>7 DEF TypeOK, Setpoints, DivisorsAssumption
<1>7. QED
  BY <1>5, <1>6

-----------------------------------------------------------------------------
(* The inductive invariant and what follows from it                        *)

\* The strengthened invariant holds of main's initial state.
LEMMA InitInductive ==
  ASSUME Init, DivisorsAssumption
  PROVE  IInv
<1>1. TypeOK /\ MemoryOfThisFlight /\ ArmInv /\ SetpointInv
  BY InitType DEF Init, MemoryOfThisFlight, ArmInv, SetpointInv
<1>2. WindowInv /\ ZeroInv /\ SeedInv
  BY DEF Init, WindowInv, ZeroInv, SeedInv, Countdowns, Window, DivisorsAssumption
<1>3. QED
  BY <1>1, <1>2 DEF IInv

\* Every step preserves it.
LEMMA NextInductive ==
  ASSUME IInv, DivisorsAssumption, [Next]_vars
  PROVE  IInv'
<1>1. CASE \E imuOk \in BOOLEAN, atTarget \in BOOLEAN : Tick(imuOk, atTarget)
  BY <1>1, TickType, TickWindow, TickSeed, TickMemory, TickArm, TickSetpoint DEF IInv
<1>2. CASE Between \/ UNCHANGED vars
  <2>1. UNCHANGED <<cycle, history>>
    BY <1>2 DEF Between, RcSync, Elapse, MotorTestSet, MotorRawTestSet, MotorTestClear,
                MotorRawTestClear, vars
  <2>2. TypeOK'
    <3>1. CASE Between
      BY <3>1, BetweenType DEF IInv
    <3>2. CASE UNCHANGED vars
      BY <3>2 DEF IInv, TypeOK, vars, cycle, tests, history
    <3>3. QED
      BY <1>2, <3>1, <3>2
  <2>3. WindowInv' /\ ZeroInv' /\ SeedInv'
    BY <2>1 DEF IInv, WindowInv, ZeroInv, SeedInv, Countdowns, Window, cycle, history
  <2>4. MemoryOfThisFlight' /\ ArmInv' /\ SetpointInv'
    BY <2>1 DEF IInv, MemoryOfThisFlight, ArmInv, SetpointInv, cycle, history
  <2>5. QED
    BY <2>2, <2>3, <2>4 DEF IInv
<1>3. QED
  BY <1>1, <1>2, NextCases

\* The strengthened invariant is an invariant.
THEOREM Inductive == Spec => []IInv
<1>1. Init => IInv
  BY InitInductive, DivisorsAssumption
<1>2. IInv /\ [Next]_vars => IInv'
  BY NextInductive, DivisorsAssumption
<1>3. QED
  BY <1>1, <1>2, PTL DEF Spec

\* For all dividers, no attitude prediction integrates over more passes than
\* the two attitude periods together less one.
THEOREM WindowBounded == Spec => []PredictionWindow
<1>1. IInv => PredictionWindow
  BY DivisorsAssumption
     DEF IInv, WindowInv, Countdowns, Window, PredictionWindow, TypeOK, DivisorsAssumption
<1>2. QED
  BY <1>1, Inductive, PTL

\* For all dividers, the zeroed attitude of an IMU fault is gone within the
\* two attitude periods together.
THEOREM ZeroedBounded == Spec => []ZeroedAttitudeBounded
<1>1. IInv => ZeroedAttitudeBounded
  BY DivisorsAssumption
     DEF IInv, ZeroInv, Countdowns, Window, ZeroedAttitudeBounded, TypeOK, DivisorsAssumption
<1>2. QED
  BY <1>1, Inductive, PTL

\* For all dividers, one background period on the ground with a good IMU
\* levels the estimator.
THEOREM Reseeded == Spec => []EstimatorReseeded
<1>1. IInv => EstimatorReseeded
  BY DivisorsAssumption DEF IInv, SeedInv, EstimatorReseeded, TypeOK, DivisorsAssumption
<1>2. QED
  BY <1>1, Inductive, PTL

\* For all dividers, an armed AUTO_LEVEL vehicle flies a setpoint of this
\* mode that is younger than one auto-level period.
THEOREM SetpointFresh == Spec => []LevelSetpointFresh
<1>1. IInv => LevelSetpointFresh
  BY DivisorsAssumption
     DEF IInv, SetpointInv, LevelSetpointFresh, TypeOK, Setpoints, DivisorsAssumption
<1>2. QED
  BY <1>1, Inductive, PTL

\* No controller carries memory from one flight or mode into another.
THEOREM MemoryFresh == Spec => []MemoryOfThisFlight
<1>1. IInv => MemoryOfThisFlight
  BY DEF IInv
<1>2. QED
  BY <1>1, Inductive, PTL

\* Motors turn in flight only after a low throttle that no fault has followed.
THEOREM SpinAfterLowThrottle == Spec => SpinNeedsLowThrottle
<1>1. IInv /\ IInv' /\ [Next]_vars =>
        [output' # output /\ output'.path = "fly" /\ output'.spin # {} => lowSeen']_vars
  <2>1. SUFFICES ASSUME IInv, IInv', Next,
                        output' # output, output'.path = "fly", output'.spin # {}
                 PROVE  lowSeen'
    OBVIOUS
  <2>2. ~Between
    BY <2>1 DEF Between, RcSync, Elapse, MotorTestSet, MotorRawTestSet, MotorTestClear,
                MotorRawTestClear, cycle
  <2>3. PICK imuOk \in BOOLEAN, atTarget \in BOOLEAN : Tick(imuOk, atTarget)
    BY <2>1, <2>2, NextCases
  <2>4. Fly(imuOk, atTarget)
    <3>1. CASE \E command \in {"test", "raw", "cut"} : \E spin, t :
                 Short(imuOk, atTarget, [path |-> command, spin |-> spin], t)
      BY <2>1, <3>1 DEF Short, Write
    <3>2. CASE TickAutoLevel(imuOk, atTarget) \/ TickAcro(imuOk, atTarget)
      BY <3>2 DEF TickAutoLevel, TickAcro
    <3>3. QED
      BY <2>3, <3>1, <3>2 DEF Tick, TickMotorTest, TickRawTest, TickFailsafe
  <2>5. Armed(imuOk)
    <3>1. PICK mix \in SUBSET Motors :
            Write(atTarget, [path |-> "fly", spin |-> IF Armed(imuOk) THEN mix ELSE {}])
      BY <2>4 DEF Fly
    <3>2. output' = [path |-> "fly", spin |-> IF Armed(imuOk) THEN mix ELSE {}]
      BY <2>1, <3>1 DEF Write
    <3>3. output'.spin = IF Armed(imuOk) THEN mix ELSE {}
      BY <3>2
    <3>4. QED
      BY <2>1, <3>3
  <2>6. armed'
    BY <2>4, <2>5 DEF Fly, Sense
  <2>7. QED
    BY <2>1, <2>6 DEF IInv, ArmInv
<1>2. QED
  BY <1>1, Inductive, PTL DEF Spec, SpinNeedsLowThrottle

=============================================================================
