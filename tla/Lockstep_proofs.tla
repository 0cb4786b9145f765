--------------------------- MODULE Lockstep_proofs ---------------------------
(***************************************************************************)
(* The exchange for every number of exchanges and timeouts, every period,  *)
(* every course of the plant's time that leaves a period between two       *)
(* steps, whole microseconds or not, and every publish divider.  What      *)
(* makes it work is whose turn it is: unless the loop is blocked, the      *)
(* coordinator stands at its barrier, so what it copies there was computed *)
(* from the input it handed over.  The lag of the health and the lead of   *)
(* the clock are bounded by counting inputs, not exchanges.                *)
(***************************************************************************)
EXTENDS Lockstep, TLAPS

-----------------------------------------------------------------------------
(* The strengthened invariants                                             *)

Posted == coordinator \in {"give", "barrier", "health", "metrics", "respond"}
Busy == Posted \/ coordinator \in {"rc", "input"}
Asking == host \in {"filled", "waiting"}
\* the loop has done with every input there is
Settled == store.generation = imuGeneration /\ loop # "tick"

\* a multiple of the period
Late(n) == Period * n

Outputs == [generation : Nat, sample : Nat, rc : Nat]
Answers == [pwm : Outputs, health : Outputs, metrics : Outputs]

KindsInv ==
  /\ host \in {"idle", "filled", "waiting", "ended"} /\ sequence \in 0 .. MaxExchanges
  /\ steps \in Nat /\ ready \in BOOLEAN /\ timeouts \in 0 .. MaxTimeouts
  /\ PlantTime[steps] \in Nat /\ PlantTime[steps + 1] \in Nat
  /\ PlantTime[steps] + Period <= PlantTime[steps + 1]
  /\ taken \in Answers /\ answer \in Answers
  /\ payload \in [of : Nat, target : Nat]
  /\ inputSequence \in Nat /\ responseSequence \in Nat /\ terminate \in BOOLEAN
  /\ coordinator \in {"wait", "rc", "input", "give", "barrier", "health", "metrics", "respond",
                     "ended"}
  /\ current \in Nat /\ motorGeneration \in Nat /\ flightGeneration \in Nat
  /\ rc \in Nat /\ sem \in {0, 1}
  /\ store \in [generation : Nat, of : Nat, target : Nat]
  /\ loop \in {"boot", "wait", "take", "tick", "health", "metrics"} /\ imuGeneration \in Nat
  /\ sample \in Nat /\ clock \in Nat /\ target \in Nat
  /\ pwm \in Outputs /\ health \in Outputs /\ metrics \in Outputs
  /\ publishCountdown \in 0 .. PublishDiv - 1

\* sequence numbers run from the host to the coordinator and back
SequenceInv ==
  /\ payload.of = sequence
  /\ IF host = "filled" THEN inputSequence + 1 = sequence ELSE inputSequence = sequence
  /\ responseSequence <= current /\ current <= inputSequence
  /\ Busy => responseSequence < current
  /\ ready /\ host = "idle" => responseSequence = sequence
  /\ ready /\ Asking => responseSequence + 1 >= sequence
  /\ terminate <=> host = "ended"
  /\ coordinator = "ended" => terminate
  /\ host # "ended" /\ ~ready => sequence = IF host = "idle" THEN timeouts ELSE timeouts + 1

\* whose turn it is: an input waits only where the loop is about to find it or
\* has its semaphore given
TurnInv ==
  /\ loop \in {"boot", "wait"} /\ coordinator # "barrier"
       => /\ coordinator = "wait" /\ current = 0 /\ store.generation = 0 /\ sem = 0
          /\ store.of = 0 /\ sample = 0
  /\ loop \in {"tick", "health", "metrics"} => store.generation = imuGeneration
  /\ loop \notin {"boot", "wait", "take"} \/ sem = 1 => coordinator = "barrier"
  /\ coordinator = "give" => loop = "take" /\ sem = 0 /\ store.generation # imuGeneration
  /\ store.generation # imuGeneration /\ coordinator # "give"
       => coordinator = "barrier" /\ (loop = "wait" \/ sem = 1)
  /\ imuGeneration <= store.generation /\ store.generation <= imuGeneration + 1
  /\ store.generation <= current
  /\ coordinator \in {"rc", "input"} => store.generation < current

\* whose data it is
DataInv ==
  /\ store.generation <= store.of /\ store.of <= sequence
  /\ rc <= sequence /\ pwm.rc <= sequence
  /\ Posted \/ coordinator = "input" => current <= rc
  /\ Posted => current <= store.of
  /\ store.generation = imuGeneration => sample = store.of
  /\ Settled => pwm.sample = sample
  /\ Settled /\ Posted => current <= pwm.rc
  /\ coordinator \in {"health", "metrics", "respond"} => answer.pwm = pwm
  /\ responseSequence = sequence =>
       /\ answer.pwm.sample = sequence /\ answer.pwm.rc = sequence
       /\ store.of = sequence
  /\ AnswerIsToTheRequest

\* the flight state is of one pass, on the bus and in the answer
StateInv ==
  /\ IF loop = "metrics" THEN health = Output(metrics) ELSE health = metrics
  /\ coordinator # "metrics" => answer.health = answer.metrics
  /\ coordinator = "metrics" => answer.health = health
  /\ flightGeneration <= health.generation
  /\ flightGeneration = health.generation => answer.health = health
  /\ coordinator \notin {"barrier", "health", "ended"} => flightGeneration = health.generation
  /\ FlightStateOfOnePass

\* inputs are skipped by timeouts only, and each counts the publish divider down
LagInv ==
  /\ store.of <= store.generation + timeouts
  /\ sequence <= store.generation + timeouts + 1
  /\ IF loop \in {"tick", "health"}
     THEN imuGeneration + publishCountdown <= health.sample + PublishDiv
     ELSE imuGeneration + publishCountdown < health.sample + PublishDiv
  /\ HealthLag

\* the clock follows the targets, ahead of them by a period for every input
\* that came for a time already reached
ClockInv ==
  /\ Asking => payload.target = InMicros(PlantTime[steps + 1])
  /\ host # "ended" => payload.target <= PlantTime[steps + 1]
  /\ store.of = sequence => store.target = payload.target
  /\ loop = "tick" => store.target <= target /\ clock < target
  /\ Settled => store.target <= clock
  /\ host # "ended" => store.target <= PlantTime[steps + 1]
  /\ host # "ended" /\ ~ready => /\ steps = 0
                                 /\ clock + Period <= PlantTime[1] + Late(imuGeneration)
                                 /\ target + Period <= PlantTime[1] + Late(imuGeneration)
  /\ ready /\ Asking /\ responseSequence < sequence /\ ~Posted => store.of < sequence
  /\ ready /\ Asking /\ (store.of # sequence \/ store.generation # imuGeneration)
       => clock <= PlantTime[steps] + Late(timeouts)
  /\ ready /\ Asking /\ store.of = sequence /\ store.generation = imuGeneration
       => /\ clock <= PlantTime[steps + 1] + Late(timeouts)
          /\ target <= PlantTime[steps + 1] + Late(timeouts)
  /\ ClockFollowsHost

\* how far the numbers go
BoundInv ==
  /\ steps <= sequence
  /\ Asking => steps + 1 <= sequence
  /\ payload.target <= PlantTime[sequence] /\ store.target <= PlantTime[sequence]
  /\ clock <= PlantTime[sequence] + Late(imuGeneration)
  /\ target <= PlantTime[sequence] + Late(imuGeneration)
  /\ pwm.generation <= imuGeneration + 1
  /\ loop \in {"boot", "tick"} => pwm.generation <= imuGeneration
  /\ health.generation <= imuGeneration
  /\ loop \in {"tick", "health"} => health.generation < imuGeneration
  /\ pwm.sample <= sequence /\ health.sample <= sequence /\ sample <= sequence
  /\ pwm.rc <= sequence /\ health.rc <= sequence
  /\ metrics.sample <= sequence /\ metrics.rc <= sequence
  /\ motorGeneration <= pwm.generation
  /\ {answer, taken} \subseteq [pwm : Topic, health : Topic, metrics : Topic]

IInv ==
  /\ KindsInv /\ SequenceInv /\ TurnInv /\ DataInv /\ StateInv /\ LagInv /\ ClockInv /\ BoundInv

-----------------------------------------------------------------------------
(* Arithmetic                                                              *)

\* The multiples of the period grow by one of them.
LEMMA LateFacts ==
  ASSUME NEW n \in Nat
  PROVE  Late(0) = 0 /\ Late(n) \in Nat /\ Late(n + 1) = Late(n) + Period
  BY LockstepAssumption, SMTT(30) DEF LockstepAssumption, Late

\* More periods take longer.
LEMMA LateMonotone ==
  ASSUME NEW m \in Nat, NEW n \in Nat, m <= n
  PROVE  Late(m) <= Late(n)
<1>1. PICK d \in Nat : n = m + d
  OBVIOUS
<1>2. Period * d >= 0 /\ Period * (m + d) = Period * m + Period * d
  BY LockstepAssumption DEF LockstepAssumption
<1> QED
  BY <1>1, <1>2, LockstepAssumption DEF LockstepAssumption, Late

\* The plant's times are numbers, and grow by a period at least.
LEMMA FlightFacts ==
  ASSUME NEW n \in 0 .. MaxExchanges
  PROVE  /\ PlantTime[n] \in Nat /\ PlantTime[n + 1] \in Nat
         /\ PlantTime[n] + Period <= PlantTime[n + 1]
  BY LockstepAssumption, StepAssumption DEF LockstepAssumption, StepAssumption

\* More exchanges carry the plant further.
LEMMA FlightMonotone ==
  ASSUME NEW m \in 0 .. MaxExchanges + 1, NEW n \in 0 .. MaxExchanges + 1, m <= n
  PROVE  PlantTime[m] \in Nat /\ PlantTime[n] \in Nat /\ PlantTime[m] <= PlantTime[n]
  BY LockstepAssumption, StepAssumption DEF LockstepAssumption, StepAssumption

\* A timestamp drops less than a microsecond.
LEMMA MicrosFacts ==
  ASSUME NEW t \in Nat
  PROVE  InMicros(t) \in Nat /\ InMicros(t) <= t /\ t < InMicros(t) + Micro
  BY LockstepAssumption, SMTT(30) DEF LockstepAssumption, InMicros

-----------------------------------------------------------------------------
(* The host                                                                *)

\* A new request is one exchange further; its target a step further.
LEMMA HostFillInv == ASSUME IInv, HostFill PROVE IInv'
<1>a. /\ InMicros(PlantTime[steps + 1]) \in Nat
      /\ InMicros(PlantTime[steps + 1]) <= PlantTime[steps + 1]
  BY MicrosFacts DEF IInv, KindsInv
<1>1. KindsInv'
  BY <1>a, LockstepAssumption
  DEF HostFill, outputVars, coordinatorVars, handover, loopVars, IInv, KindsInv
<1>2. SequenceInv'
  BY DEF HostFill, outputVars, coordinatorVars, handover, loopVars, IInv, KindsInv, SequenceInv,
     Posted, Busy, Asking
<1>3. TurnInv'
  BY DEF HostFill, outputVars, coordinatorVars, handover, loopVars, IInv, KindsInv, SequenceInv,
     TurnInv, Posted
<1>4. DataInv'
  BY DEF HostFill, outputVars, coordinatorVars, handover, loopVars, IInv, KindsInv, SequenceInv,
     DataInv, Posted, Settled, AnswerIsToTheRequest, Answered, Outputs
<1>5. StateInv'
  BY DEF LockstepAssumption, HostFill, outputVars, coordinatorVars, handover, loopVars, IInv,
     KindsInv, DataInv, StateInv, FlightStateOfOnePass, Answered, Output
<1>6. LagInv'
  BY DEF HostFill, handover, loopVars, IInv, KindsInv, SequenceInv, DataInv, LagInv, HealthLag,
     Answered
<1>7. ClockInv'
  <2>a. ready => clock <= PlantTime[steps] + Late(timeouts)
    BY DEF HostFill, IInv, ClockInv, ClockFollowsHost, SequenceInv, Answered, Late
  <2>1. (Asking => payload.target = InMicros(PlantTime[steps + 1]))'
    BY DEF LockstepAssumption, HostFill, outputVars, coordinatorVars, handover, loopVars, IInv,
       KindsInv, SequenceInv, TurnInv, DataInv, ClockInv, Asking, Posted, Settled, Busy,
       ClockFollowsHost, Answered
  <2>2. (host # "ended" => payload.target <= PlantTime[steps + 1])'
    BY <1>a DEF HostFill
  <2>3. (store.of = sequence => store.target = payload.target)'
    BY DEF LockstepAssumption, HostFill, outputVars, coordinatorVars, handover, loopVars, IInv,
       KindsInv, SequenceInv, TurnInv, DataInv, ClockInv, Asking, Posted, Settled, Busy,
       ClockFollowsHost, Answered
  <2>4. (loop = "tick" => store.target <= target /\ clock < target)'
    BY DEF LockstepAssumption, HostFill, outputVars, coordinatorVars, handover, loopVars, IInv,
       KindsInv, SequenceInv, TurnInv, DataInv, ClockInv, Asking, Posted, Settled, Busy,
       ClockFollowsHost, Answered
  <2>5. (Settled => store.target <= clock)'
    BY DEF LockstepAssumption, HostFill, outputVars, coordinatorVars, handover, loopVars, IInv,
       KindsInv, SequenceInv, TurnInv, DataInv, ClockInv, Asking, Posted, Settled, Busy,
       ClockFollowsHost, Answered
  <2>6. (host # "ended" => store.target <= PlantTime[steps + 1])'
    BY DEF LockstepAssumption, HostFill, outputVars, coordinatorVars, handover, loopVars, IInv,
       KindsInv, SequenceInv, TurnInv, DataInv, ClockInv, Asking, Posted, Settled, Busy,
       ClockFollowsHost, Answered
  <2>7. (host # "ended" /\ ~ready => /\ steps = 0
                                      /\ clock + Period <= PlantTime[1] + Late(imuGeneration)
                                      /\ target + Period <= PlantTime[1] + Late(imuGeneration))'
    BY DEF LockstepAssumption, HostFill, outputVars, coordinatorVars, handover, loopVars, IInv,
       KindsInv, SequenceInv, TurnInv, DataInv, ClockInv, Asking, Posted, Settled, Busy,
       ClockFollowsHost, Answered
  <2>8. (ready /\ Asking /\ responseSequence < sequence /\ ~Posted => store.of < sequence)'
    BY DEF LockstepAssumption, HostFill, outputVars, coordinatorVars, handover, loopVars, IInv,
       KindsInv, SequenceInv, TurnInv, DataInv, ClockInv, Asking, Posted, Settled, Busy,
       ClockFollowsHost, Answered
  <2>9. (ready /\ Asking /\ (store.of # sequence \/ store.generation # imuGeneration)
            => clock <= PlantTime[steps] + Late(timeouts))'
    BY <2>a DEF HostFill, loopVars
  <2>10. (ready /\ Asking /\ store.of = sequence /\ store.generation = imuGeneration
            => /\ clock <= PlantTime[steps + 1] + Late(timeouts)
               /\ target <= PlantTime[steps + 1] + Late(timeouts))'
    BY DEF LockstepAssumption, HostFill, outputVars, coordinatorVars, handover, loopVars, IInv,
       KindsInv, SequenceInv, TurnInv, DataInv, ClockInv, Asking, Posted, Settled, Busy,
       ClockFollowsHost, Answered
  <2>11. ClockFollowsHost'
    BY DEF LockstepAssumption, HostFill, outputVars, coordinatorVars, handover, loopVars, IInv,
       KindsInv, SequenceInv, TurnInv, DataInv, ClockInv, Asking, Posted, Settled, Busy,
       ClockFollowsHost, Answered
  <2> QED
    BY <2>1, <2>2, <2>3, <2>4, <2>5, <2>6, <2>7, <2>8, <2>9, <2>10, <2>11 DEF ClockInv
<1>8. BoundInv'
  <2>a. /\ sequence \in Nat /\ sequence < MaxExchanges /\ sequence' = sequence + 1
        /\ steps \in Nat /\ steps <= sequence /\ steps' = steps
    BY LockstepAssumption DEF LockstepAssumption, HostFill, IInv, KindsInv, BoundInv
  <2>b. /\ PlantTime[steps + 1] \in Nat /\ PlantTime[steps + 1] <= PlantTime[sequence']
        /\ PlantTime[sequence] \in Nat /\ PlantTime[sequence'] \in Nat
        /\ PlantTime[sequence] <= PlantTime[sequence']
    <3>1. /\ steps + 1 \in 0 .. MaxExchanges + 1 /\ sequence \in 0 .. MaxExchanges + 1
          /\ sequence' \in 0 .. MaxExchanges + 1 /\ steps + 1 <= sequence' /\ sequence <= sequence'
      BY <2>a, LockstepAssumption DEF LockstepAssumption
    <3> QED
      BY <3>1, FlightMonotone
  <2>1. (steps <= sequence)'
    BY <2>a
  <2>2. (Asking => steps + 1 <= sequence)'
    BY <2>a
  <2>3. (payload.target <= PlantTime[sequence] /\ store.target <= PlantTime[sequence])'
    <3>1. payload'.target <= PlantTime[sequence']
      BY <1>a, <2>b DEF HostFill
    <3>2. store.target \in Nat /\ store.target <= PlantTime[sequence] /\ store' = store
      BY DEF HostFill, handover, IInv, KindsInv, BoundInv
    <3> QED
      BY <2>b, <3>1, <3>2
  <2>c. Late(imuGeneration) \in Nat /\ imuGeneration' = imuGeneration
    BY LateFacts DEF HostFill, loopVars, IInv, KindsInv
  <2>4. (clock <= PlantTime[sequence] + Late(imuGeneration))'
    BY <2>b, <2>c DEF HostFill, loopVars, IInv, KindsInv, BoundInv
  <2>5. (target <= PlantTime[sequence] + Late(imuGeneration))'
    BY <2>b, <2>c DEF HostFill, loopVars, IInv, KindsInv, BoundInv
  <2>6. (pwm.generation <= imuGeneration + 1)'
    BY DEF LockstepAssumption, HostFill, outputVars, coordinatorVars, handover, loopVars, IInv,
       KindsInv, SequenceInv, TurnInv, DataInv, StateInv, BoundInv, Asking, Topic, Outputs,
       Answers, Output
  <2>7. (loop \in {"boot", "tick"} => pwm.generation <= imuGeneration)'
    BY DEF LockstepAssumption, HostFill, outputVars, coordinatorVars, handover, loopVars, IInv,
       KindsInv, SequenceInv, TurnInv, DataInv, StateInv, BoundInv, Asking, Topic, Outputs,
       Answers, Output
  <2>8. (health.generation <= imuGeneration)'
    BY DEF LockstepAssumption, HostFill, outputVars, coordinatorVars, handover, loopVars, IInv,
       KindsInv, SequenceInv, TurnInv, DataInv, StateInv, BoundInv, Asking, Topic, Outputs,
       Answers, Output
  <2>9. (loop \in {"tick", "health"} => health.generation < imuGeneration)'
    BY DEF LockstepAssumption, HostFill, outputVars, coordinatorVars, handover, loopVars, IInv,
       KindsInv, SequenceInv, TurnInv, DataInv, StateInv, BoundInv, Asking, Topic, Outputs,
       Answers, Output
  <2>10. (pwm.sample <= sequence /\ health.sample <= sequence /\ sample <= sequence)'
    BY <2>a DEF HostFill, IInv, KindsInv, BoundInv, Outputs, loopVars
  <2>11. (pwm.rc <= sequence /\ health.rc <= sequence)'
    BY <2>a DEF HostFill, IInv, KindsInv, BoundInv, Outputs, loopVars
  <2>12. (metrics.sample <= sequence /\ metrics.rc <= sequence)'
    BY <2>a DEF HostFill, IInv, KindsInv, BoundInv, Outputs, loopVars
  <2>13. (motorGeneration <= pwm.generation)'
    BY DEF LockstepAssumption, HostFill, outputVars, coordinatorVars, handover, loopVars, IInv,
       KindsInv, SequenceInv, TurnInv, DataInv, StateInv, BoundInv, Asking, Topic, Outputs,
       Answers, Output
  <2>14. ({answer, taken} \subseteq [pwm : Topic, health : Topic, metrics : Topic])'
    BY DEF LockstepAssumption, HostFill, outputVars, coordinatorVars, handover, loopVars, IInv,
       KindsInv, SequenceInv, TurnInv, DataInv, StateInv, BoundInv, Asking, Topic, Outputs,
       Answers, Output
  <2> QED
    BY <2>1, <2>2, <2>3, <2>4, <2>5, <2>6, <2>7, <2>8, <2>9, <2>10, <2>11, <2>12, <2>13, <2>14
    DEF BoundInv
<1>9. QED
  BY <1>1, <1>2, <1>3, <1>4, <1>5, <1>6, <1>7, <1>8 DEF IInv

\* Raising the request changes nobody's data.
LEMMA HostRequestInv == ASSUME IInv, HostRequest PROVE IInv'
<1>1. KindsInv'
  BY DEF HostRequest, outputVars, coordinatorVars, handover, loopVars, IInv, KindsInv, Outputs,
     Answers
<1>2. SequenceInv'
  BY DEF HostRequest, outputVars, coordinatorVars, handover, loopVars, IInv, KindsInv,
     SequenceInv, Posted, Busy, Asking
<1>3. TurnInv'
  BY DEF HostRequest, outputVars, coordinatorVars, handover, loopVars, IInv, KindsInv,
     SequenceInv, TurnInv, Posted
<1>4. DataInv'
  BY DEF LockstepAssumption, HostRequest, outputVars, coordinatorVars, handover, loopVars, IInv,
     KindsInv, DataInv, Posted, Settled, Busy, AnswerIsToTheRequest, Answered
<1>5. StateInv'
  BY DEF LockstepAssumption, HostRequest, outputVars, coordinatorVars, handover, loopVars, IInv,
     KindsInv, DataInv, StateInv, FlightStateOfOnePass, Answered, Output
<1>6. LagInv'
  BY DEF LockstepAssumption, HostRequest, handover, loopVars, IInv, KindsInv, LagInv, HealthLag,
     Answered
<1>7. ClockInv'
  BY DEF HostRequest, outputVars, coordinatorVars, handover, loopVars, IInv, KindsInv,
     SequenceInv, TurnInv, DataInv, ClockInv, Asking, Posted, Settled, Busy, ClockFollowsHost,
     Answered
<1>8. BoundInv'
  BY DEF HostRequest, outputVars, coordinatorVars, handover, loopVars, IInv, KindsInv,
     SequenceInv, TurnInv, DataInv, StateInv, BoundInv, Asking, Topic, Outputs, Answers, Output
<1>9. QED
  BY <1>1, <1>2, <1>3, <1>4, <1>5, <1>6, <1>7, <1>8 DEF IInv

\* The answer to the last request says all that was asked: the loop has
\* settled, and the clock is at the end of the step.
LEMMA HostTakeInv == ASSUME IInv, HostTake PROVE IInv'
<1>a. /\ steps' = steps + 1 /\ steps' \in 0 .. MaxExchanges
      /\ PlantTime[steps'] \in Nat /\ PlantTime[steps' + 1] \in Nat
      /\ PlantTime[steps'] + Period <= PlantTime[steps' + 1]
  <2>1. steps' = steps + 1 /\ steps' \in 0 .. MaxExchanges
    BY LockstepAssumption DEF LockstepAssumption, HostTake, IInv, KindsInv, BoundInv, Asking
  <2> QED
    BY <2>1, FlightFacts
<1>1. KindsInv'
  BY <1>a, LockstepAssumption
  DEF LockstepAssumption, HostTake, inputVars, outputVars, coordinatorVars, handover, loopVars,
      IInv, KindsInv
<1>2. SequenceInv'
  BY DEF HostTake, inputVars, outputVars, coordinatorVars, handover, loopVars, IInv, KindsInv,
     SequenceInv, Posted, Busy, Asking
<1>3. TurnInv'
  BY DEF HostTake, inputVars, outputVars, coordinatorVars, handover, loopVars, IInv, KindsInv,
     SequenceInv, TurnInv, Posted
<1>4. DataInv'
  BY DEF LockstepAssumption, HostTake, inputVars, outputVars, coordinatorVars, handover, loopVars,
     IInv, TurnInv, DataInv, Posted, Settled, Busy, AnswerIsToTheRequest
<1>5. StateInv'
  BY DEF HostTake, outputVars, coordinatorVars, handover, loopVars, IInv, KindsInv, SequenceInv,
     StateInv, FlightStateOfOnePass, Busy, Posted, Output
<1>6. LagInv'
  BY LockstepAssumption
  DEF HostTake, handover, loopVars, IInv, KindsInv, SequenceInv, TurnInv, DataInv, StateInv,
      LagInv, Outputs, HealthLag, Busy, Posted
<1>7. ClockInv'
  <2>a. ~Posted /\ coordinator # "input" /\ Settled
    BY DEF HostTake, IInv, KindsInv, SequenceInv, TurnInv, Busy, Posted, Settled
  <2>b. /\ store.of = sequence /\ store.target = InMicros(PlantTime[steps + 1])
        /\ store.target <= clock
    BY <2>a DEF HostTake, IInv, KindsInv, DataInv, ClockInv, Asking
  <2>d. store.target \in Nat /\ PlantTime[steps + 1] < store.target + Micro
    BY <2>b, MicrosFacts DEF IInv, KindsInv
  <2>c. clock <= PlantTime[steps + 1] + Late(timeouts)
    <3>1. CASE ready
      BY <2>a, <2>b, <3>1 DEF HostTake, IInv, ClockInv, Asking, Settled
    <3>2. CASE ~ready
      <4>1. imuGeneration <= timeouts + 1
        BY <2>a, <3>2 DEF HostTake, IInv, KindsInv, SequenceInv, TurnInv, Settled
      <4>2. Late(imuGeneration) <= Late(timeouts) + Period
        BY <4>1, LateMonotone, LateFacts DEF IInv, KindsInv
      <4>3. /\ clock + Period <= PlantTime[steps + 1] + Late(imuGeneration)
            /\ PlantTime[steps + 1] \in Nat
        BY <3>2 DEF HostTake, IInv, KindsInv, ClockInv
      <4> QED
        BY <4>2, <4>3, LateFacts, LockstepAssumption DEF IInv, KindsInv, LockstepAssumption
    <3> QED
      BY <3>1, <3>2
  <2>1. (Asking => payload.target = InMicros(PlantTime[steps + 1]))'
    BY DEF HostTake, inputVars, outputVars, coordinatorVars, handover, loopVars, IInv, KindsInv,
       SequenceInv, TurnInv, DataInv, ClockInv, Asking, Posted, Settled, Busy, ClockFollowsHost,
       Answered
  <2>2. (host # "ended" => payload.target <= PlantTime[steps + 1])'
    BY <1>a, LockstepAssumption
    DEF LockstepAssumption, HostTake, inputVars, IInv, KindsInv, ClockInv, Asking
  <2>3. (store.of = sequence => store.target = payload.target)'
    BY DEF HostTake, inputVars, outputVars, coordinatorVars, handover, loopVars, IInv, KindsInv,
       SequenceInv, TurnInv, DataInv, ClockInv, Asking, Posted, Settled, Busy, ClockFollowsHost,
       Answered
  <2>4. (loop = "tick" => store.target <= target /\ clock < target)'
    BY DEF HostTake, inputVars, outputVars, coordinatorVars, handover, loopVars, IInv, KindsInv,
       SequenceInv, TurnInv, DataInv, ClockInv, Asking, Posted, Settled, Busy, ClockFollowsHost,
       Answered
  <2>5. (Settled => store.target <= clock)'
    BY DEF HostTake, inputVars, outputVars, coordinatorVars, handover, loopVars, IInv, KindsInv,
       SequenceInv, TurnInv, DataInv, ClockInv, Asking, Posted, Settled, Busy, ClockFollowsHost,
       Answered
  <2>6. (host # "ended" => store.target <= PlantTime[steps + 1])'
    BY <1>a, LockstepAssumption
    DEF LockstepAssumption, HostTake, handover, IInv, KindsInv, ClockInv
  <2>7. (host # "ended" /\ ~ready => /\ steps = 0
                                      /\ clock + Period <= PlantTime[1] + Late(imuGeneration)
                                      /\ target + Period <= PlantTime[1] + Late(imuGeneration))'
    BY DEF HostTake, inputVars, outputVars, coordinatorVars, handover, loopVars, IInv, KindsInv,
       SequenceInv, TurnInv, DataInv, ClockInv, Asking, Posted, Settled, Busy, ClockFollowsHost,
       Answered
  <2>8. (ready /\ Asking /\ responseSequence < sequence /\ ~Posted => store.of < sequence)'
    BY DEF HostTake, inputVars, outputVars, coordinatorVars, handover, loopVars, IInv, KindsInv,
       SequenceInv, TurnInv, DataInv, ClockInv, Asking, Posted, Settled, Busy, ClockFollowsHost,
       Answered
  <2>9. (ready /\ Asking /\ (store.of # sequence \/ store.generation # imuGeneration)
            => clock <= PlantTime[steps] + Late(timeouts))'
    BY DEF HostTake, inputVars, outputVars, coordinatorVars, handover, loopVars, IInv, KindsInv,
       SequenceInv, TurnInv, DataInv, ClockInv, Asking, Posted, Settled, Busy, ClockFollowsHost,
       Answered
  <2>10. (ready /\ Asking /\ store.of = sequence /\ store.generation = imuGeneration
            => /\ clock <= PlantTime[steps + 1] + Late(timeouts)
               /\ target <= PlantTime[steps + 1] + Late(timeouts))'
    BY DEF HostTake, inputVars, outputVars, coordinatorVars, handover, loopVars, IInv, KindsInv,
       SequenceInv, TurnInv, DataInv, ClockInv, Asking, Posted, Settled, Busy, ClockFollowsHost,
       Answered
  <2>11. ClockFollowsHost'
    BY <1>a, <2>b, <2>c, <2>d, LockstepAssumption
    DEF LockstepAssumption, HostTake, ClockFollowsHost, Answered, Late, outputVars, loopVars, IInv,
        KindsInv
  <2> QED
    BY <2>1, <2>2, <2>3, <2>4, <2>5, <2>6, <2>7, <2>8, <2>9, <2>10, <2>11 DEF ClockInv
<1>8. BoundInv'
  BY DEF HostTake, inputVars, outputVars, coordinatorVars, handover, loopVars, IInv, KindsInv,
     SequenceInv, TurnInv, DataInv, StateInv, BoundInv, Asking, Topic, Outputs, Answers, Output
<1>9. QED
  BY <1>1, <1>2, <1>3, <1>4, <1>5, <1>6, <1>7, <1>8 DEF IInv

\* A request given up on is one more that may be skipped.
LEMMA HostTimeoutInv == ASSUME IInv, HostTimeout PROVE IInv'
<1>1. KindsInv'
  <2>1. (host \in {"idle", "filled", "waiting", "ended"} /\ sequence \in 0 .. MaxExchanges)'
    BY DEF HostTimeout, outputVars, coordinatorVars, handover, loopVars, IInv, KindsInv, Outputs,
       Answers
  <2>2. ( /\ steps \in Nat /\ ready \in BOOLEAN /\ timeouts \in 0 .. MaxTimeouts
          /\ PlantTime[steps] \in Nat /\ PlantTime[steps + 1] \in Nat
          /\ PlantTime[steps] + Period <= PlantTime[steps + 1])'
    BY LockstepAssumption DEF HostTimeout, IInv, KindsInv
  <2>3. (taken \in Answers /\ answer \in Answers)'
    BY DEF HostTimeout, outputVars, coordinatorVars, handover, loopVars, IInv, KindsInv, Outputs,
       Answers
  <2>4. (payload \in [of : Nat, target : Nat])'
    BY DEF HostTimeout, outputVars, coordinatorVars, handover, loopVars, IInv, KindsInv, Outputs,
       Answers
  <2>5. (inputSequence \in Nat /\ responseSequence \in Nat /\ terminate \in BOOLEAN)'
    BY DEF HostTimeout, outputVars, coordinatorVars, handover, loopVars, IInv, KindsInv, Outputs,
       Answers
  <2>6. (coordinator
          \in {"wait", "rc", "input", "give", "barrier", "health", "metrics", "respond",
              "ended"})'
    BY DEF HostTimeout, outputVars, coordinatorVars, handover, loopVars, IInv, KindsInv, Outputs,
       Answers
  <2>7. (current \in Nat /\ motorGeneration \in Nat /\ flightGeneration \in Nat)'
    BY DEF HostTimeout, outputVars, coordinatorVars, handover, loopVars, IInv, KindsInv, Outputs,
       Answers
  <2>8. (rc \in Nat /\ sem \in {0, 1})'
    BY DEF HostTimeout, outputVars, coordinatorVars, handover, loopVars, IInv, KindsInv, Outputs,
       Answers
  <2>9. (store \in [generation : Nat, of : Nat, target : Nat])'
    BY DEF HostTimeout, outputVars, coordinatorVars, handover, loopVars, IInv, KindsInv, Outputs,
       Answers
  <2>10. (loop \in {"boot", "wait", "take", "tick", "health", "metrics"} /\ imuGeneration \in Nat)'
    BY DEF HostTimeout, outputVars, coordinatorVars, handover, loopVars, IInv, KindsInv, Outputs,
       Answers
  <2>11. (sample \in Nat /\ clock \in Nat /\ target \in Nat)'
    BY DEF HostTimeout, outputVars, coordinatorVars, handover, loopVars, IInv, KindsInv, Outputs,
       Answers
  <2>12. (pwm \in Outputs /\ health \in Outputs /\ metrics \in Outputs)'
    BY DEF HostTimeout, outputVars, coordinatorVars, handover, loopVars, IInv, KindsInv, Outputs,
       Answers
  <2>13. (publishCountdown \in 0 .. PublishDiv - 1)'
    BY DEF HostTimeout, outputVars, coordinatorVars, handover, loopVars, IInv, KindsInv, Outputs,
       Answers
  <2> QED
    BY <2>1, <2>2, <2>3, <2>4, <2>5, <2>6, <2>7, <2>8, <2>9, <2>10, <2>11, <2>12, <2>13
    DEF KindsInv
<1>2. SequenceInv'
  BY DEF HostTimeout, outputVars, coordinatorVars, handover, loopVars, IInv, KindsInv,
     SequenceInv, Posted, Busy, Asking
<1>3. TurnInv'
  BY DEF HostTimeout, outputVars, coordinatorVars, handover, loopVars, IInv, KindsInv,
     SequenceInv, TurnInv, Posted
<1>4. DataInv'
  BY DEF LockstepAssumption, HostTimeout, outputVars, coordinatorVars, handover, loopVars, IInv,
     KindsInv, DataInv, Posted, Settled, Busy, AnswerIsToTheRequest, Answered
<1>5. StateInv'
  BY DEF LockstepAssumption, HostTimeout, outputVars, coordinatorVars, handover, loopVars, IInv,
     KindsInv, DataInv, StateInv, FlightStateOfOnePass, Answered, Output
<1>6. LagInv'
  BY DEF LockstepAssumption, HostTimeout, handover, loopVars, IInv, KindsInv, LagInv, HealthLag,
     Answered
<1>7. ClockInv'
  BY DEF HostTimeout, outputVars, coordinatorVars, handover, loopVars, IInv, KindsInv,
     SequenceInv, TurnInv, DataInv, ClockInv, Asking, Posted, Settled, Busy, ClockFollowsHost,
     Answered
<1>8. BoundInv'
  BY DEF HostTimeout, outputVars, coordinatorVars, handover, loopVars, IInv, KindsInv,
     SequenceInv, TurnInv, DataInv, StateInv, BoundInv, Asking, Topic, Outputs, Answers, Output
<1>9. QED
  BY <1>1, <1>2, <1>3, <1>4, <1>5, <1>6, <1>7, <1>8 DEF IInv

\* The end of the mission is for the coordinator to notice.
LEMMA HostEndInv == ASSUME IInv, HostEnd PROVE IInv'
<1>1. KindsInv'
  BY DEF HostEnd, outputVars, coordinatorVars, handover, loopVars, IInv, KindsInv, Outputs,
     Answers
<1>2. SequenceInv'
  BY DEF HostEnd, outputVars, coordinatorVars, handover, loopVars, IInv, KindsInv, SequenceInv,
     Posted, Busy, Asking
<1>3. TurnInv'
  BY DEF HostEnd, outputVars, coordinatorVars, handover, loopVars, IInv, KindsInv, SequenceInv,
     TurnInv, Posted
<1>4. DataInv'
  BY DEF LockstepAssumption, HostEnd, outputVars, coordinatorVars, handover, loopVars, IInv,
     KindsInv, DataInv, Posted, Settled, Busy, AnswerIsToTheRequest, Answered
<1>5. StateInv'
  BY DEF HostEnd, outputVars, coordinatorVars, loopVars, IInv, KindsInv, SequenceInv, TurnInv,
     StateInv, FlightStateOfOnePass, Answered, Busy, Posted
<1>6. LagInv'
  BY DEF LockstepAssumption, HostEnd, handover, loopVars, IInv, KindsInv, LagInv, HealthLag,
     Answered
<1>7. ClockInv'
  BY DEF HostEnd, outputVars, coordinatorVars, handover, loopVars, IInv, KindsInv, SequenceInv,
     TurnInv, DataInv, ClockInv, Asking, Posted, Settled, Busy, ClockFollowsHost, Answered
<1>8. BoundInv'
  BY DEF HostEnd, outputVars, coordinatorVars, handover, loopVars, IInv, KindsInv, SequenceInv,
     TurnInv, DataInv, StateInv, BoundInv, Asking, Topic, Outputs, Answers, Output
<1>9. QED
  BY <1>1, <1>2, <1>3, <1>4, <1>5, <1>6, <1>7, <1>8 DEF IInv

-----------------------------------------------------------------------------
(* The coordinator                                                         *)

\* The coordinator takes up the newest request.
LEMMA CoordinatorWaitInv == ASSUME IInv, CoordinatorWait PROVE IInv'
<1>1. KindsInv'
  BY DEF CoordinatorWait, hostVars, inputVars, outputVars, handover, loopVars, IInv, KindsInv
<1>2. SequenceInv'
  BY DEF CoordinatorWait, hostVars, inputVars, outputVars, IInv, KindsInv, SequenceInv, Posted,
     Busy, Asking
<1>3. TurnInv'
  BY DEF CoordinatorWait, CoordinatorMayRun, LoopReady, handover, loopVars, IInv, KindsInv,
     SequenceInv, TurnInv
<1>4. DataInv'
  BY DEF CoordinatorWait, hostVars, outputVars, handover, loopVars, IInv, DataInv, Posted,
     Settled, AnswerIsToTheRequest, Answered
<1>5. StateInv'
  BY DEF CoordinatorWait, CoordinatorMayRun, LoopReady, hostVars, inputVars, outputVars, handover,
     loopVars, IInv, KindsInv, DataInv, StateInv, FlightStateOfOnePass, Answered
<1>6. LagInv'
  BY DEF CoordinatorWait, hostVars, handover, loopVars, IInv, SequenceInv, LagInv, HealthLag,
     Answered
<1>7. ClockInv'
  BY DEF CoordinatorWait, hostVars, inputVars, outputVars, handover, loopVars, IInv, ClockInv,
     Asking, Posted, Settled, ClockFollowsHost, Answered
<1>8. BoundInv'
  BY DEF CoordinatorWait, CoordinatorMayRun, LoopReady, hostVars, inputVars, outputVars, handover,
     loopVars, IInv, KindsInv, BoundInv, Asking
<1>9. QED
  BY <1>1, <1>2, <1>3, <1>4, <1>5, <1>6, <1>7, <1>8 DEF IInv

\* The RC sample is at least as new as the request taken up.
LEMMA CoordinatorRcInv == ASSUME IInv, CoordinatorRc PROVE IInv'
<1>1. KindsInv'
  BY DEF CoordinatorRc, hostVars, inputVars, outputVars, loopVars, IInv, KindsInv
<1>2. SequenceInv'
  BY DEF CoordinatorRc, hostVars, inputVars, outputVars, IInv, SequenceInv, Busy, Asking
<1>3. TurnInv'
  BY DEF CoordinatorRc, CoordinatorMayRun, LoopReady, hostVars, inputVars, outputVars, loopVars,
     IInv, KindsInv, SequenceInv, TurnInv, Posted
<1>4. DataInv'
  BY DEF CoordinatorRc, hostVars, outputVars, loopVars, IInv, KindsInv, SequenceInv, DataInv,
     Posted, Settled, AnswerIsToTheRequest, Answered
<1>5. StateInv'
  BY DEF LockstepAssumption, CoordinatorRc, hostVars, inputVars, outputVars, loopVars, IInv,
     KindsInv, SequenceInv, TurnInv, DataInv, StateInv, FlightStateOfOnePass, Answered
<1>6. LagInv'
  BY DEF LockstepAssumption, CoordinatorRc, hostVars, inputVars, outputVars, loopVars, IInv,
     KindsInv, LagInv, HealthLag, Answered
<1>7. ClockInv'
  BY DEF CoordinatorRc, CoordinatorMayRun, LoopReady, hostVars, inputVars, outputVars, loopVars,
     IInv, ClockInv, Asking, Posted, Settled, ClockFollowsHost, Answered
<1>8. BoundInv'
  BY DEF CoordinatorRc, CoordinatorMayRun, LoopReady, hostVars, inputVars, outputVars, loopVars,
     IInv, BoundInv, Asking
<1>9. QED
  BY <1>1, <1>2, <1>3, <1>4, <1>5, <1>6, <1>7, <1>8 DEF IInv

\* So is the input; one input at most waits for the loop.
LEMMA StoreInv == ASSUME IInv, StoreAt("input", "give") PROVE IInv'
<1>1. KindsInv'
  BY DEF StoreAt, hostVars, inputVars, outputVars, loopVars, IInv, KindsInv
<1>2. SequenceInv'
  BY DEF StoreAt, hostVars, inputVars, outputVars, IInv, SequenceInv, Busy, Asking
<1>3. TurnInv'
  BY DEF StoreAt, CoordinatorMayRun, LoopReady, hostVars, inputVars, outputVars,
     loopVars, IInv, KindsInv, SequenceInv, TurnInv, Posted
<1>4. DataInv'
  BY DEF StoreAt, hostVars, outputVars, loopVars, IInv, KindsInv, SequenceInv, TurnInv,
     DataInv, Settled, AnswerIsToTheRequest, Answered
<1>5. StateInv'
  BY DEF LockstepAssumption, StoreAt, hostVars, inputVars, outputVars, loopVars, IInv,
     KindsInv, SequenceInv, TurnInv, DataInv, StateInv, FlightStateOfOnePass, Answered
<1>6. LagInv'
  BY DEF StoreAt, hostVars, loopVars, IInv, KindsInv, SequenceInv, LagInv, HealthLag,
     Answered
<1>7. ClockInv'
  <2>1. (Asking => payload.target = InMicros(PlantTime[steps + 1]))'
    BY DEF StoreAt, CoordinatorMayRun, LoopReady, hostVars, inputVars, outputVars,
       loopVars, IInv, ClockInv, Asking
  <2>2. (host # "ended" => payload.target <= PlantTime[steps + 1])'
    BY DEF StoreAt, hostVars, inputVars, IInv, ClockInv
  <2>3. (store.of = sequence => store.target = payload.target)'
    BY DEF StoreAt, inputVars
  <2>4. (loop = "tick" => store.target <= target /\ clock < target)'
    BY DEF StoreAt, CoordinatorMayRun, LoopReady, loopVars
  <2>5. (Settled => store.target <= clock)'
    BY DEF StoreAt, CoordinatorMayRun, loopVars, IInv, KindsInv, TurnInv, Settled
  <2>6. (host # "ended" => store.target <= PlantTime[steps + 1])'
    BY DEF StoreAt, hostVars, IInv, ClockInv
  <2>7. (host # "ended" /\ ~ready => /\ steps = 0
                                      /\ clock + Period <= PlantTime[1] + Late(imuGeneration)
                                      /\ target + Period <= PlantTime[1] + Late(imuGeneration))'
    BY DEF StoreAt, hostVars, loopVars, IInv, ClockInv
  <2>8. (ready /\ Asking /\ responseSequence < sequence /\ ~Posted => store.of < sequence)'
    BY DEF StoreAt, Posted
  <2>9. (ready /\ Asking /\ (store.of # sequence \/ store.generation # imuGeneration)
            => clock <= PlantTime[steps] + Late(timeouts))'
    BY DEF StoreAt, CoordinatorMayRun, LoopReady, hostVars, loopVars, IInv, KindsInv,
       SequenceInv, ClockInv, Asking, Posted, Busy
  <2>10. (ready /\ Asking /\ store.of = sequence /\ store.generation = imuGeneration
            => /\ clock <= PlantTime[steps + 1] + Late(timeouts)
               /\ target <= PlantTime[steps + 1] + Late(timeouts))'
    BY DEF StoreAt, loopVars, IInv, KindsInv, TurnInv
  <2>11. ClockFollowsHost'
    BY DEF StoreAt, CoordinatorMayRun, LoopReady, hostVars, loopVars, IInv, KindsInv,
       SequenceInv, Busy, ClockFollowsHost, Answered
  <2> QED
    BY <2>1, <2>2, <2>3, <2>4, <2>5, <2>6, <2>7, <2>8, <2>9, <2>10, <2>11 DEF ClockInv
<1>8. BoundInv'
  BY DEF StoreAt, CoordinatorMayRun, LoopReady, hostVars, inputVars, outputVars,
     loopVars, IInv, BoundInv, Asking
<1>9. QED
  BY <1>1, <1>2, <1>3, <1>4, <1>5, <1>6, <1>7, <1>8 DEF IInv

\* The loop sleeps without a semaphore until it is given this one.
LEMMA GiveInv == ASSUME IInv, GiveAt("give", "barrier") PROVE IInv'
<1>1. KindsInv'
  BY DEF GiveAt, hostVars, inputVars, outputVars, loopVars, IInv, KindsInv
<1>2. SequenceInv'
  BY DEF GiveAt, hostVars, inputVars, outputVars, IInv, SequenceInv, Posted,
     Busy, Asking
<1>3. TurnInv'
  BY DEF GiveAt, CoordinatorMayRun, LoopReady, hostVars, inputVars, outputVars,
     loopVars, IInv, KindsInv, SequenceInv, TurnInv, Posted
<1>4. DataInv'
  BY DEF GiveAt, hostVars, outputVars, loopVars, IInv, KindsInv, SequenceInv, TurnInv,
     DataInv, Posted, Settled, AnswerIsToTheRequest, Answered
<1>5. StateInv'
  BY DEF LockstepAssumption, GiveAt, hostVars, inputVars, outputVars, loopVars, IInv,
     KindsInv, SequenceInv, TurnInv, DataInv, StateInv, FlightStateOfOnePass, Answered
<1>6. LagInv'
  BY DEF GiveAt, hostVars, loopVars, IInv, KindsInv, SequenceInv, LagInv, HealthLag,
     Answered
<1>7. ClockInv'
  BY DEF GiveAt, CoordinatorMayRun, LoopReady, hostVars, inputVars, outputVars, loopVars,
     IInv, ClockInv, Asking, Posted, Settled, ClockFollowsHost, Answered
<1>8. BoundInv'
  BY DEF GiveAt, CoordinatorMayRun, LoopReady, hostVars, inputVars, outputVars,
     loopVars, IInv, BoundInv, Asking
<1>9. QED
  BY <1>1, <1>2, <1>3, <1>4, <1>5, <1>6, <1>7, <1>8 DEF IInv

\* At the barrier's end the loop has settled, so the output is the request's.
LEMMA CoordinatorBarrierInv == ASSUME IInv, CoordinatorBarrier PROVE IInv'
<1>1. KindsInv'
  BY DEF CoordinatorBarrier, hostVars, inputVars, handover, loopVars, IInv, KindsInv, Outputs,
     Answers
<1>2. SequenceInv'
  BY DEF CoordinatorBarrier, hostVars, inputVars, IInv, SequenceInv, Posted, Busy, Asking
<1>3. TurnInv'
  <2>a. loop = "take" /\ store.generation = imuGeneration /\ sem = 0
    BY DEF CoordinatorBarrier, CoordinatorMayRun, LoopReady, IInv, KindsInv, TurnInv
  <2> QED
    BY <2>a DEF CoordinatorBarrier, handover, loopVars, IInv, KindsInv, TurnInv
<1>4. DataInv'
  BY DEF CoordinatorBarrier, hostVars, handover, loopVars, IInv, KindsInv, SequenceInv, DataInv,
     Posted, Settled, Busy, AnswerIsToTheRequest, Answered, Answers
<1>5. StateInv'
  BY DEF CoordinatorBarrier, CoordinatorMayRun, LoopReady, hostVars, loopVars, IInv, KindsInv,
     StateInv, Answers, FlightStateOfOnePass, Answered
<1>6. LagInv'
  BY DEF LockstepAssumption, CoordinatorBarrier, hostVars, inputVars, handover, loopVars, IInv,
     KindsInv, LagInv, HealthLag, Answered
<1>7. ClockInv'
  BY DEF CoordinatorBarrier, hostVars, inputVars, handover, loopVars, IInv, SequenceInv, ClockInv,
     Asking, Posted, Settled, ClockFollowsHost, Answered
<1>8. BoundInv'
  BY LockstepAssumption
  DEF CoordinatorBarrier, hostVars, inputVars, handover, loopVars, IInv, KindsInv, TurnInv,
      DataInv, BoundInv, Asking, Topic, Outputs
<1>9. QED
  BY <1>1, <1>2, <1>3, <1>4, <1>5, <1>6, <1>7, <1>8 DEF IInv

\* What is copied first is of the pass whose last topic is out.
LEMMA CoordinatorHealthInv == ASSUME IInv, CoordinatorHealth PROVE IInv'
<1>1. KindsInv'
  BY DEF CoordinatorHealth, hostVars, inputVars, handover, loopVars, IInv, KindsInv, Outputs,
     Answers
<1>2. SequenceInv'
  BY DEF CoordinatorHealth, hostVars, inputVars, IInv, SequenceInv, Posted, Busy, Asking
<1>3. TurnInv'
  BY DEF CoordinatorHealth, CoordinatorMayRun, LoopReady, hostVars, inputVars, handover, loopVars,
     IInv, KindsInv, SequenceInv, TurnInv, Posted
<1>4. DataInv'
  BY DEF CoordinatorHealth, hostVars, handover, loopVars, IInv, KindsInv, DataInv, Posted,
     Settled, AnswerIsToTheRequest, Answered, Answers
<1>5. StateInv'
  BY DEF CoordinatorHealth, hostVars, loopVars, IInv, KindsInv, TurnInv, StateInv, Outputs,
     Answers, FlightStateOfOnePass, Answered
<1>6. LagInv'
  BY DEF LockstepAssumption, CoordinatorHealth, hostVars, inputVars, handover, loopVars, IInv,
     KindsInv, LagInv, HealthLag, Answered
<1>7. ClockInv'
  BY DEF CoordinatorHealth, CoordinatorMayRun, LoopReady, hostVars, inputVars, handover, loopVars,
     IInv, ClockInv, Asking, Posted, Settled, ClockFollowsHost, Answered
<1>8. BoundInv'
  BY LockstepAssumption
  DEF CoordinatorHealth, hostVars, inputVars, handover, loopVars, IInv, KindsInv, TurnInv,
      DataInv, BoundInv, Asking, Topic, Outputs
<1>9. QED
  BY <1>1, <1>2, <1>3, <1>4, <1>5, <1>6, <1>7, <1>8 DEF IInv

\* Nothing was published between the two copies.
LEMMA CoordinatorMetricsInv == ASSUME IInv, CoordinatorMetrics PROVE IInv'
<1>1. KindsInv'
  BY DEF CoordinatorMetrics, hostVars, inputVars, handover, loopVars, IInv, KindsInv, Answers
<1>2. SequenceInv'
  BY DEF CoordinatorMetrics, hostVars, inputVars, IInv, SequenceInv, Posted, Busy, Asking
<1>3. TurnInv'
  BY DEF CoordinatorMetrics, CoordinatorMayRun, LoopReady, hostVars, inputVars, handover,
     loopVars, IInv, KindsInv, SequenceInv, TurnInv, Posted
<1>4. DataInv'
  BY DEF LockstepAssumption, CoordinatorMetrics, hostVars, inputVars, handover, loopVars, IInv,
     KindsInv, DataInv, Posted, Settled, AnswerIsToTheRequest, Answered
<1>5. StateInv'
  BY DEF LockstepAssumption, CoordinatorMetrics, hostVars, inputVars, handover, loopVars, IInv,
     KindsInv, SequenceInv, TurnInv, DataInv, StateInv, FlightStateOfOnePass, Answered
<1>6. LagInv'
  BY DEF LockstepAssumption, CoordinatorMetrics, hostVars, inputVars, handover, loopVars, IInv,
     KindsInv, LagInv, HealthLag, Answered
<1>7. ClockInv'
  BY DEF CoordinatorMetrics, CoordinatorMayRun, LoopReady, hostVars, inputVars, handover,
     loopVars, IInv, ClockInv, Asking, Posted, Settled, ClockFollowsHost, Answered
<1>8. BoundInv'
  BY DEF CoordinatorMetrics, CoordinatorMayRun, LoopReady, hostVars, inputVars, handover,
     loopVars, IInv, StateInv, BoundInv, Asking
<1>9. QED
  BY <1>1, <1>2, <1>3, <1>4, <1>5, <1>6, <1>7, <1>8 DEF IInv

\* An answer is raised when all of it is copied.
LEMMA CoordinatorRespondInv == ASSUME IInv, CoordinatorRespond PROVE IInv'
<1>1. KindsInv'
  BY DEF CoordinatorRespond, hostVars, inputVars, handover, loopVars, IInv, KindsInv
<1>2. SequenceInv'
  BY DEF CoordinatorRespond, hostVars, inputVars, IInv, KindsInv, SequenceInv, Posted, Busy,
     Asking
<1>3. TurnInv'
  BY DEF CoordinatorRespond, CoordinatorMayRun, LoopReady, hostVars, inputVars, handover,
     loopVars, IInv, KindsInv, SequenceInv, TurnInv, Posted
<1>4. DataInv'
  BY DEF CoordinatorRespond, hostVars, handover, loopVars, IInv, KindsInv, SequenceInv, TurnInv,
     DataInv, Posted, Settled, AnswerIsToTheRequest, Answered, Outputs
<1>5. StateInv'
  BY DEF LockstepAssumption, CoordinatorRespond, hostVars, inputVars, handover, loopVars, IInv,
     KindsInv, SequenceInv, TurnInv, DataInv, StateInv, FlightStateOfOnePass, Answered
<1>6. LagInv'
  BY DEF CoordinatorRespond, hostVars, handover, loopVars, IInv, SequenceInv, LagInv, HealthLag,
     Answered
<1>7. ClockInv'
  BY DEF CoordinatorRespond, hostVars, inputVars, handover, loopVars, IInv, KindsInv, SequenceInv,
     ClockInv, Asking, Settled, Busy, ClockFollowsHost, Answered
<1>8. BoundInv'
  BY DEF CoordinatorRespond, CoordinatorMayRun, LoopReady, hostVars, inputVars, handover,
     loopVars, IInv, BoundInv, Asking
<1>9. QED
  BY <1>1, <1>2, <1>3, <1>4, <1>5, <1>6, <1>7, <1>8 DEF IInv

-----------------------------------------------------------------------------
(* The loop                                                                *)

\* The stopped motors are published before there is any request.
LEMMA LoopBootInv == ASSUME IInv, LoopBoot PROVE IInv'
<1>1. KindsInv'
  BY DEF LoopBoot, Output, hostVars, inputVars, outputVars, coordinatorVars, handover, IInv,
     KindsInv, Outputs
<1>2. SequenceInv'
  BY DEF LoopBoot, hostVars, inputVars, outputVars, coordinatorVars, IInv, SequenceInv, Posted,
     Busy, Asking
<1>3. TurnInv'
  BY DEF LoopBoot, Output, hostVars, inputVars, outputVars, coordinatorVars, handover, IInv,
     KindsInv, SequenceInv, TurnInv, Posted
<1>4. DataInv'
  BY DEF LoopBoot, Output, hostVars, outputVars, coordinatorVars, handover, IInv, TurnInv,
     DataInv, Posted, AnswerIsToTheRequest, Answered
<1>5. StateInv'
  BY DEF LockstepAssumption, LoopBoot, Output, hostVars, inputVars, outputVars, coordinatorVars,
     handover, IInv, KindsInv, DataInv, StateInv, FlightStateOfOnePass, Answered
<1>6. LagInv'
  BY DEF LoopBoot, hostVars, handover, IInv, SequenceInv, LagInv, HealthLag, Answered
<1>7. ClockInv'
  BY DEF LoopBoot, Output, hostVars, inputVars, outputVars, coordinatorVars, handover, IInv,
     ClockInv, Asking, Posted, Settled, ClockFollowsHost, Answered
<1>8. BoundInv'
  <2>1. (steps <= sequence)'
    BY DEF LoopBoot, Output, hostVars, inputVars, outputVars, coordinatorVars, handover, IInv,
       KindsInv, SequenceInv, TurnInv, DataInv, StateInv, BoundInv, Asking, Topic, Outputs,
       Answers
  <2>2. (Asking => steps + 1 <= sequence)'
    BY DEF LoopBoot, Output, hostVars, inputVars, outputVars, coordinatorVars, handover, IInv,
       KindsInv, SequenceInv, TurnInv, DataInv, StateInv, BoundInv, Asking, Topic, Outputs,
       Answers
  <2>3. (payload.target <= PlantTime[sequence] /\ store.target <= PlantTime[sequence])'
    BY DEF LoopBoot, Output, hostVars, inputVars, outputVars, coordinatorVars, handover, IInv,
       KindsInv, SequenceInv, TurnInv, DataInv, StateInv, BoundInv, Asking, Topic, Outputs,
       Answers
  <2>4. (clock <= PlantTime[sequence] + Late(imuGeneration))'
    BY DEF LoopBoot, Output, hostVars, inputVars, outputVars, coordinatorVars, handover, IInv,
       KindsInv, SequenceInv, TurnInv, DataInv, StateInv, BoundInv, Asking, Topic, Outputs,
       Answers
  <2>5. (target <= PlantTime[sequence] + Late(imuGeneration))'
    BY DEF LoopBoot, Output, hostVars, inputVars, outputVars, coordinatorVars, handover, IInv,
       KindsInv, SequenceInv, TurnInv, DataInv, StateInv, BoundInv, Asking, Topic, Outputs,
       Answers
  <2>6. (pwm.generation <= imuGeneration + 1)'
    BY DEF LoopBoot, Output, hostVars, inputVars, outputVars, coordinatorVars, handover, IInv,
       KindsInv, SequenceInv, TurnInv, DataInv, StateInv, BoundInv, Asking, Topic, Outputs,
       Answers
  <2>7. (loop \in {"boot", "tick"} => pwm.generation <= imuGeneration)'
    BY DEF LoopBoot, Output, hostVars, inputVars, outputVars, coordinatorVars, handover, IInv,
       KindsInv, SequenceInv, TurnInv, DataInv, StateInv, BoundInv, Asking, Topic, Outputs,
       Answers
  <2>8. (health.generation <= imuGeneration)'
    BY DEF LoopBoot, Output, hostVars, inputVars, outputVars, coordinatorVars, handover, IInv,
       KindsInv, SequenceInv, TurnInv, DataInv, StateInv, BoundInv, Asking, Topic, Outputs,
       Answers
  <2>9. (loop \in {"tick", "health"} => health.generation < imuGeneration)'
    BY DEF LoopBoot, Output, hostVars, inputVars, outputVars, coordinatorVars, handover, IInv,
       KindsInv, SequenceInv, TurnInv, DataInv, StateInv, BoundInv, Asking, Topic, Outputs,
       Answers
  <2>10. (pwm.sample <= sequence /\ health.sample <= sequence /\ sample <= sequence)'
    BY DEF LoopBoot, Output, hostVars, inputVars, outputVars, coordinatorVars, handover, IInv,
       KindsInv, SequenceInv, TurnInv, DataInv, StateInv, BoundInv, Asking, Topic, Outputs,
       Answers
  <2>11. (pwm.rc <= sequence /\ health.rc <= sequence)'
    BY DEF LoopBoot, Output, hostVars, inputVars, outputVars, coordinatorVars, handover, IInv,
       KindsInv, SequenceInv, TurnInv, DataInv, StateInv, BoundInv, Asking, Topic, Outputs,
       Answers
  <2>12. (metrics.sample <= sequence /\ metrics.rc <= sequence)'
    BY DEF LoopBoot, Output, hostVars, inputVars, outputVars, coordinatorVars, handover, IInv,
       KindsInv, SequenceInv, TurnInv, DataInv, StateInv, BoundInv, Asking, Topic, Outputs,
       Answers
  <2>13. (motorGeneration <= pwm.generation)'
    BY DEF LoopBoot, Output, hostVars, inputVars, outputVars, coordinatorVars, handover, IInv,
       KindsInv, SequenceInv, TurnInv, DataInv, StateInv, BoundInv, Asking, Topic, Outputs,
       Answers
  <2>14. ({answer, taken} \subseteq [pwm : Topic, health : Topic, metrics : Topic])'
    BY DEF LoopBoot, Output, hostVars, inputVars, outputVars, coordinatorVars, handover, IInv,
       KindsInv, SequenceInv, TurnInv, DataInv, StateInv, BoundInv, Asking, Topic, Outputs,
       Answers
  <2> QED
    BY <2>1, <2>2, <2>3, <2>4, <2>5, <2>6, <2>7, <2>8, <2>9, <2>10, <2>11, <2>12, <2>13, <2>14
    DEF BoundInv
<1>9. QED
  BY <1>1, <1>2, <1>3, <1>4, <1>5, <1>6, <1>7, <1>8 DEF IInv

\* An input taken is one more counted, and its target is ahead of the clock.
LEMMA LoopWakeInv == ASSUME IInv, LoopWake PROVE IInv'
<1>1. KindsInv'
  BY LockstepAssumption
  DEF LoopWake, TargetFor, hostVars, inputVars, outputVars, coordinatorVars, handover, IInv,
      KindsInv
<1>2. SequenceInv'
  BY DEF LoopWake, hostVars, inputVars, outputVars, coordinatorVars, IInv, SequenceInv, Posted,
     Busy, Asking
<1>3. TurnInv'
  BY DEF LoopWake, InputWaiting, coordinatorVars, handover, IInv, KindsInv, TurnInv
<1>4. DataInv'
  BY LockstepAssumption
  DEF LoopWake, TargetFor, hostVars, outputVars, coordinatorVars, handover, IInv, KindsInv,
      DataInv, Posted, Settled, AnswerIsToTheRequest, Answered
<1>5. StateInv'
  BY DEF LoopWake, InputWaiting, TargetFor, hostVars, inputVars, outputVars, coordinatorVars,
     handover, IInv, KindsInv, DataInv, StateInv, FlightStateOfOnePass, Answered
<1>6. LagInv'
  BY LockstepAssumption
  DEF LoopWake, TargetFor, hostVars, handover, IInv, KindsInv, SequenceInv, TurnInv, LagInv,
      Outputs, HealthLag, Answered
<1>7. ClockInv'
  <2>g. store.generation = imuGeneration + 1
    BY DEF LoopWake, InputWaiting, IInv, KindsInv, TurnInv
  <2>a. Late(imuGeneration') = Late(imuGeneration) + Period /\ Late(imuGeneration) \in Nat
    BY <2>g, LateFacts, FlightFacts DEF LoopWake, IInv, KindsInv
  <2>h. target' = store.target \/ (target' = clock + Period)
    BY DEF LoopWake, TargetFor
  <2>i. /\ clock \in Nat /\ store.target \in Nat /\ Period \in Nat
        /\ PlantTime[steps] \in Nat /\ PlantTime[steps + 1] \in Nat
        /\ PlantTime[steps] + Period <= PlantTime[steps + 1]
    BY LockstepAssumption DEF LockstepAssumption, IInv, KindsInv
  <2>1. (Asking => payload.target = InMicros(PlantTime[steps + 1]))'
    BY DEF LockstepAssumption, LoopWake, InputWaiting, TargetFor, hostVars, inputVars, outputVars,
       coordinatorVars, handover, IInv, KindsInv, SequenceInv, TurnInv, DataInv, ClockInv, Asking,
       Posted, Settled, Busy, ClockFollowsHost, Answered
  <2>2. (host # "ended" => payload.target <= PlantTime[steps + 1])'
    BY DEF LockstepAssumption, LoopWake, InputWaiting, TargetFor, hostVars, inputVars, outputVars,
       coordinatorVars, handover, IInv, KindsInv, SequenceInv, TurnInv, DataInv, ClockInv, Asking,
       Posted, Settled, Busy, ClockFollowsHost, Answered
  <2>3. (store.of = sequence => store.target = payload.target)'
    BY DEF LockstepAssumption, LoopWake, InputWaiting, TargetFor, hostVars, inputVars, outputVars,
       coordinatorVars, handover, IInv, KindsInv, SequenceInv, TurnInv, DataInv, ClockInv, Asking,
       Posted, Settled, Busy, ClockFollowsHost, Answered
  <2>4. (loop = "tick" => store.target <= target /\ clock < target)'
    BY DEF LockstepAssumption, LoopWake, InputWaiting, TargetFor, hostVars, inputVars, outputVars,
       coordinatorVars, handover, IInv, KindsInv, SequenceInv, TurnInv, DataInv, ClockInv, Asking,
       Posted, Settled, Busy, ClockFollowsHost, Answered
  <2>5. (Settled => store.target <= clock)'
    BY DEF LockstepAssumption, LoopWake, InputWaiting, TargetFor, hostVars, inputVars, outputVars,
       coordinatorVars, handover, IInv, KindsInv, SequenceInv, TurnInv, DataInv, ClockInv, Asking,
       Posted, Settled, Busy, ClockFollowsHost, Answered
  <2>6. (host # "ended" => store.target <= PlantTime[steps + 1])'
    BY DEF LockstepAssumption, LoopWake, InputWaiting, TargetFor, hostVars, inputVars, outputVars,
       coordinatorVars, handover, IInv, KindsInv, SequenceInv, TurnInv, DataInv, ClockInv, Asking,
       Posted, Settled, Busy, ClockFollowsHost, Answered
  <2>7. (host # "ended" /\ ~ready => /\ steps = 0
                                      /\ clock + Period <= PlantTime[1] + Late(imuGeneration)
                                      /\ target + Period <= PlantTime[1] + Late(imuGeneration))'
    <3> SUFFICES ASSUME host # "ended", ~ready
                 PROVE  /\ steps = 0
                        /\ clock + Period <= PlantTime[1] + Late(imuGeneration')
                        /\ target' + Period <= PlantTime[1] + Late(imuGeneration')
      BY DEF LoopWake, hostVars
    <3>1. /\ steps = 0 /\ store.target <= PlantTime[steps + 1]
          /\ clock + Period <= PlantTime[1] + Late(imuGeneration)
      BY <2>i DEF IInv, ClockInv
    <3> QED
      BY <2>a, <2>h, <2>i, <3>1
  <2>8. (ready /\ Asking /\ responseSequence < sequence /\ ~Posted => store.of < sequence)'
    BY DEF LockstepAssumption, LoopWake, InputWaiting, TargetFor, hostVars, inputVars, outputVars,
       coordinatorVars, handover, IInv, KindsInv, SequenceInv, TurnInv, DataInv, ClockInv, Asking,
       Posted, Settled, Busy, ClockFollowsHost, Answered
  <2>9. (ready /\ Asking /\ (store.of # sequence \/ store.generation # imuGeneration)
            => clock <= PlantTime[steps] + Late(timeouts))'
    BY DEF LockstepAssumption, LoopWake, InputWaiting, TargetFor, hostVars, inputVars, outputVars,
       coordinatorVars, handover, IInv, KindsInv, SequenceInv, TurnInv, DataInv, ClockInv, Asking,
       Posted, Settled, Busy, ClockFollowsHost, Answered
  <2>10. (ready /\ Asking /\ store.of = sequence /\ store.generation = imuGeneration
            => /\ clock <= PlantTime[steps + 1] + Late(timeouts)
               /\ target <= PlantTime[steps + 1] + Late(timeouts))'
    <3> SUFFICES ASSUME ready, Asking
                 PROVE  /\ clock <= PlantTime[steps + 1] + Late(timeouts)
                        /\ target' <= PlantTime[steps + 1] + Late(timeouts)
      BY DEF LoopWake, hostVars, Asking
    <3>1. clock <= PlantTime[steps] + Late(timeouts) /\ store.target <= PlantTime[steps + 1]
      BY <2>g, <2>i DEF IInv, KindsInv, ClockInv, Asking
    <3>2. Late(timeouts) \in Nat
      BY LateFacts DEF IInv, KindsInv
    <3> QED
      BY <2>h, <2>i, <3>1, <3>2
  <2>11. ClockFollowsHost'
    BY DEF LockstepAssumption, LoopWake, InputWaiting, TargetFor, hostVars, inputVars, outputVars,
       coordinatorVars, handover, IInv, KindsInv, SequenceInv, TurnInv, DataInv, ClockInv, Asking,
       Posted, Settled, Busy, ClockFollowsHost, Answered
  <2> QED
    BY <2>1, <2>2, <2>3, <2>4, <2>5, <2>6, <2>7, <2>8, <2>9, <2>10, <2>11 DEF ClockInv
<1>8. BoundInv'
  <2>g. store.generation = imuGeneration + 1
    BY DEF LoopWake, InputWaiting, IInv, KindsInv, TurnInv
  <2>a. /\ Late(imuGeneration') = Late(imuGeneration) + Period
        /\ Late(imuGeneration) \in Nat /\ PlantTime[sequence] \in Nat
    BY <2>g, LateFacts, FlightFacts DEF LoopWake, IInv, KindsInv
  <2>h. target' = store.target \/ (target' = clock + Period)
    BY DEF LoopWake, TargetFor
  <2>i. /\ clock \in Nat /\ store.target \in Nat /\ Period \in Nat
        /\ PlantTime[steps] \in Nat /\ PlantTime[steps + 1] \in Nat
        /\ PlantTime[steps] + Period <= PlantTime[steps + 1]
    BY LockstepAssumption DEF LockstepAssumption, IInv, KindsInv
  <2>1. (steps <= sequence)'
    BY DEF LockstepAssumption, LoopWake, InputWaiting, TargetFor, hostVars, inputVars, outputVars,
       coordinatorVars, handover, IInv, KindsInv, SequenceInv, TurnInv, DataInv, StateInv,
       BoundInv, Asking, Topic, Outputs, Answers, Output
  <2>2. (Asking => steps + 1 <= sequence)'
    BY DEF LockstepAssumption, LoopWake, InputWaiting, TargetFor, hostVars, inputVars, outputVars,
       coordinatorVars, handover, IInv, KindsInv, SequenceInv, TurnInv, DataInv, StateInv,
       BoundInv, Asking, Topic, Outputs, Answers, Output
  <2>3. (payload.target <= PlantTime[sequence] /\ store.target <= PlantTime[sequence])'
    BY DEF LockstepAssumption, LoopWake, InputWaiting, TargetFor, hostVars, inputVars, outputVars,
       coordinatorVars, handover, IInv, KindsInv, SequenceInv, TurnInv, DataInv, StateInv,
       BoundInv, Asking, Topic, Outputs, Answers, Output
  <2>4. (clock <= PlantTime[sequence] + Late(imuGeneration))'
    BY LockstepAssumption, <2>a DEF LoopWake, hostVars, IInv, KindsInv, BoundInv
  <2>5. (target <= PlantTime[sequence] + Late(imuGeneration))'
    <3>1. /\ store.target <= PlantTime[sequence]
          /\ clock <= PlantTime[sequence] + Late(imuGeneration)
      BY DEF IInv, BoundInv
    <3>2. sequence' = sequence
      BY DEF LoopWake, hostVars
    <3> QED
      BY <2>a, <2>h, <2>i, <3>1, <3>2
  <2>6. (pwm.generation <= imuGeneration + 1)'
    BY DEF LockstepAssumption, LoopWake, InputWaiting, TargetFor, hostVars, inputVars, outputVars,
       coordinatorVars, handover, IInv, KindsInv, SequenceInv, TurnInv, DataInv, StateInv,
       BoundInv, Asking, Topic, Outputs, Answers, Output
  <2>7. (loop \in {"boot", "tick"} => pwm.generation <= imuGeneration)'
    BY DEF LockstepAssumption, LoopWake, InputWaiting, TargetFor, hostVars, inputVars, outputVars,
       coordinatorVars, handover, IInv, KindsInv, SequenceInv, TurnInv, DataInv, StateInv,
       BoundInv, Asking, Topic, Outputs, Answers, Output
  <2>8. (health.generation <= imuGeneration)'
    BY DEF LockstepAssumption, LoopWake, InputWaiting, TargetFor, hostVars, inputVars, outputVars,
       coordinatorVars, handover, IInv, KindsInv, SequenceInv, TurnInv, DataInv, StateInv,
       BoundInv, Asking, Topic, Outputs, Answers, Output
  <2>9. (loop \in {"tick", "health"} => health.generation < imuGeneration)'
    BY DEF LockstepAssumption, LoopWake, InputWaiting, TargetFor, hostVars, inputVars, outputVars,
       coordinatorVars, handover, IInv, KindsInv, SequenceInv, TurnInv, DataInv, StateInv,
       BoundInv, Asking, Topic, Outputs, Answers, Output
  <2>10. (pwm.sample <= sequence /\ health.sample <= sequence /\ sample <= sequence)'
    BY DEF LockstepAssumption, LoopWake, InputWaiting, TargetFor, hostVars, inputVars, outputVars,
       coordinatorVars, handover, IInv, KindsInv, SequenceInv, TurnInv, DataInv, StateInv,
       BoundInv, Asking, Topic, Outputs, Answers, Output
  <2>11. (pwm.rc <= sequence /\ health.rc <= sequence)'
    BY DEF LockstepAssumption, LoopWake, InputWaiting, TargetFor, hostVars, inputVars, outputVars,
       coordinatorVars, handover, IInv, KindsInv, SequenceInv, TurnInv, DataInv, StateInv,
       BoundInv, Asking, Topic, Outputs, Answers, Output
  <2>12. (metrics.sample <= sequence /\ metrics.rc <= sequence)'
    BY DEF LockstepAssumption, LoopWake, InputWaiting, TargetFor, hostVars, inputVars, outputVars,
       coordinatorVars, handover, IInv, KindsInv, SequenceInv, TurnInv, DataInv, StateInv,
       BoundInv, Asking, Topic, Outputs, Answers, Output
  <2>13. (motorGeneration <= pwm.generation)'
    BY DEF LockstepAssumption, LoopWake, InputWaiting, TargetFor, hostVars, inputVars, outputVars,
       coordinatorVars, handover, IInv, KindsInv, SequenceInv, TurnInv, DataInv, StateInv,
       BoundInv, Asking, Topic, Outputs, Answers, Output
  <2>14. ({answer, taken} \subseteq [pwm : Topic, health : Topic, metrics : Topic])'
    BY DEF LockstepAssumption, LoopWake, InputWaiting, TargetFor, hostVars, inputVars, outputVars,
       coordinatorVars, handover, IInv, KindsInv, SequenceInv, TurnInv, DataInv, StateInv,
       BoundInv, Asking, Topic, Outputs, Answers, Output
  <2> QED
    BY <2>1, <2>2, <2>3, <2>4, <2>5, <2>6, <2>7, <2>8, <2>9, <2>10, <2>11, <2>12, <2>13, <2>14
    DEF BoundInv
<1>9. QED
  BY <1>1, <1>2, <1>3, <1>4, <1>5, <1>6, <1>7, <1>8 DEF IInv

\* The loop goes to sleep when it has found every input there is.
LEMMA LoopBlockInv == ASSUME IInv, LoopBlock PROVE IInv'
<1>1. KindsInv'
  BY DEF LoopBlock, hostVars, inputVars, outputVars, coordinatorVars, handover, IInv,
     KindsInv
<1>2. SequenceInv'
  BY DEF LoopBlock, hostVars, inputVars, outputVars, coordinatorVars, IInv, SequenceInv, Posted,
     Busy, Asking
<1>3. TurnInv'
  BY DEF LoopBlock, InputWaiting, hostVars, inputVars, outputVars, coordinatorVars, handover,
     IInv, KindsInv, SequenceInv, TurnInv, Posted
<1>4. DataInv'
  BY DEF LoopBlock, hostVars, outputVars, coordinatorVars, handover, IInv, DataInv, Posted,
     Settled, AnswerIsToTheRequest, Answered
<1>5. StateInv'
  BY DEF LockstepAssumption, LoopBlock, InputWaiting, hostVars, inputVars, outputVars,
     coordinatorVars, handover, IInv, KindsInv, DataInv, StateInv, FlightStateOfOnePass, Answered
<1>6. LagInv'
  BY DEF LoopBlock, hostVars, handover, IInv, SequenceInv, LagInv, HealthLag, Answered
<1>7. ClockInv'
  BY DEF LoopBlock, InputWaiting, hostVars, inputVars, outputVars, coordinatorVars, handover,
     IInv, ClockInv, Asking, Posted, Settled, ClockFollowsHost, Answered
<1>8. BoundInv'
  BY DEF LoopBlock, InputWaiting, hostVars, inputVars, outputVars, coordinatorVars, handover,
     IInv, BoundInv, Asking
<1>9. QED
  BY <1>1, <1>2, <1>3, <1>4, <1>5, <1>6, <1>7, <1>8 DEF IInv

\* It wakes for the input whose semaphore it takes.
LEMMA LoopTakeInv == ASSUME IInv, LoopTake PROVE IInv'
<1>1. KindsInv'
  BY DEF LoopTake, hostVars, inputVars, outputVars, coordinatorVars, IInv, KindsInv
<1>2. SequenceInv'
  BY DEF LoopTake, hostVars, inputVars, outputVars, coordinatorVars, IInv, SequenceInv, Posted,
     Busy, Asking
<1>3. TurnInv'
  BY DEF LoopTake, InputWaiting, hostVars, inputVars, outputVars, coordinatorVars,
     IInv, KindsInv, SequenceInv, TurnInv, Posted
<1>4. DataInv'
  BY DEF LoopTake, hostVars, outputVars, coordinatorVars, IInv, DataInv, Posted,
     Settled, AnswerIsToTheRequest, Answered
<1>5. StateInv'
  BY DEF LockstepAssumption, LoopTake, InputWaiting, hostVars, inputVars, outputVars,
     coordinatorVars, IInv, KindsInv, DataInv, StateInv, FlightStateOfOnePass, Answered
<1>6. LagInv'
  BY DEF LoopTake, hostVars, IInv, SequenceInv, LagInv, HealthLag, Answered
<1>7. ClockInv'
  BY DEF LoopTake, InputWaiting, hostVars, inputVars, outputVars, coordinatorVars,
     IInv, ClockInv, Asking, Posted, Settled, ClockFollowsHost, Answered
<1>8. BoundInv'
  BY DEF LoopTake, InputWaiting, hostVars, inputVars, outputVars, coordinatorVars,
     IInv, BoundInv, Asking
<1>9. QED
  BY <1>1, <1>2, <1>3, <1>4, <1>5, <1>6, <1>7, <1>8 DEF IInv

\* A pass moves the clock towards the target and no further.
LEMMA LoopTickInv == ASSUME IInv, LoopTick PROVE IInv'
<1>1. KindsInv'
  BY LockstepAssumption
  DEF LockstepAssumption, LoopTick, Output, NextClock, hostVars, inputVars, outputVars,
      coordinatorVars, handover, IInv, KindsInv, Outputs
<1>2. SequenceInv'
  BY DEF LoopTick, hostVars, inputVars, outputVars, coordinatorVars, IInv, SequenceInv, Posted,
     Busy, Asking
<1>3. TurnInv'
  BY DEF LoopTick, coordinatorVars, handover, IInv, TurnInv
<1>4. DataInv'
  BY DEF LoopTick, Output, hostVars, outputVars, coordinatorVars, handover, IInv, TurnInv,
     DataInv, Posted, Settled, AnswerIsToTheRequest, Answered
<1>5. StateInv'
  BY DEF LockstepAssumption, LoopTick, hostVars, inputVars, outputVars, coordinatorVars, handover,
     IInv, StateInv, FlightStateOfOnePass, Answered
<1>6. LagInv'
  BY DEF LoopTick, hostVars, handover, IInv, SequenceInv, LagInv, HealthLag, Answered
<1>7. ClockInv'
  <2>a. clock' <= target /\ coordinator = "barrier" /\ store.generation = imuGeneration
    BY LockstepAssumption DEF LockstepAssumption, LoopTick, NextClock, IInv, KindsInv, TurnInv
  <2>b. ready /\ Asking => store.of = sequence
    BY <2>a DEF IInv, KindsInv, SequenceInv, DataInv, Posted, Busy, Asking
  <2>1. (Asking => payload.target = InMicros(PlantTime[steps + 1]))'
    BY DEF LockstepAssumption, LoopTick, Output, NextClock, hostVars, inputVars, outputVars,
       coordinatorVars, handover, IInv, KindsInv, SequenceInv, TurnInv, DataInv, ClockInv, Asking,
       Posted, Settled, Busy, ClockFollowsHost, Answered
  <2>2. (host # "ended" => payload.target <= PlantTime[steps + 1])'
    BY DEF LockstepAssumption, LoopTick, Output, NextClock, hostVars, inputVars, outputVars,
       coordinatorVars, handover, IInv, KindsInv, SequenceInv, TurnInv, DataInv, ClockInv, Asking,
       Posted, Settled, Busy, ClockFollowsHost, Answered
  <2>3. (store.of = sequence => store.target = payload.target)'
    BY DEF LockstepAssumption, LoopTick, Output, NextClock, hostVars, inputVars, outputVars,
       coordinatorVars, handover, IInv, KindsInv, SequenceInv, TurnInv, DataInv, ClockInv, Asking,
       Posted, Settled, Busy, ClockFollowsHost, Answered
  <2>4. (loop = "tick" => store.target <= target /\ clock < target)'
    BY DEF LockstepAssumption, LoopTick, Output, NextClock, hostVars, inputVars, outputVars,
       coordinatorVars, handover, IInv, KindsInv, SequenceInv, TurnInv, DataInv, ClockInv, Asking,
       Posted, Settled, Busy, ClockFollowsHost, Answered
  <2>5. (Settled => store.target <= clock)'
    BY DEF LockstepAssumption, LoopTick, Output, NextClock, hostVars, inputVars, outputVars,
       coordinatorVars, handover, IInv, KindsInv, SequenceInv, TurnInv, DataInv, ClockInv, Asking,
       Posted, Settled, Busy, ClockFollowsHost, Answered
  <2>6. (host # "ended" => store.target <= PlantTime[steps + 1])'
    BY DEF LockstepAssumption, LoopTick, Output, NextClock, hostVars, inputVars, outputVars,
       coordinatorVars, handover, IInv, KindsInv, SequenceInv, TurnInv, DataInv, ClockInv, Asking,
       Posted, Settled, Busy, ClockFollowsHost, Answered
  <2>7. (host # "ended" /\ ~ready => /\ steps = 0
                                      /\ clock + Period <= PlantTime[1] + Late(imuGeneration)
                                      /\ target + Period <= PlantTime[1] + Late(imuGeneration))'
    <3> SUFFICES ASSUME host # "ended", ~ready
                 PROVE  /\ steps = 0
                        /\ clock' + Period <= PlantTime[1] + Late(imuGeneration)
                        /\ target + Period <= PlantTime[1] + Late(imuGeneration)
      BY DEF LoopTick, hostVars
    <3>1. /\ steps = 0 /\ PlantTime[1] \in Nat
          /\ target + Period <= PlantTime[1] + Late(imuGeneration)
      BY DEF IInv, KindsInv, ClockInv
    <3>2. /\ clock' \in Nat /\ target \in Nat /\ Period \in Nat /\ Late(imuGeneration) \in Nat
      BY <1>1, LateFacts, LockstepAssumption DEF LockstepAssumption, LoopTick, IInv, KindsInv
    <3> QED
      BY <2>a, <3>1, <3>2
  <2>8. (ready /\ Asking /\ responseSequence < sequence /\ ~Posted => store.of < sequence)'
    BY DEF LockstepAssumption, LoopTick, Output, NextClock, hostVars, inputVars, outputVars,
       coordinatorVars, handover, IInv, KindsInv, SequenceInv, TurnInv, DataInv, ClockInv, Asking,
       Posted, Settled, Busy, ClockFollowsHost, Answered
  <2>9. (ready /\ Asking /\ (store.of # sequence \/ store.generation # imuGeneration)
            => clock <= PlantTime[steps] + Late(timeouts))'
    BY DEF LockstepAssumption, LoopTick, Output, NextClock, hostVars, inputVars, outputVars,
       coordinatorVars, handover, IInv, KindsInv, SequenceInv, TurnInv, DataInv, ClockInv, Asking,
       Posted, Settled, Busy, ClockFollowsHost, Answered
  <2>10. (ready /\ Asking /\ store.of = sequence /\ store.generation = imuGeneration
            => /\ clock <= PlantTime[steps + 1] + Late(timeouts)
               /\ target <= PlantTime[steps + 1] + Late(timeouts))'
    BY LateFacts
    DEF LoopTick, NextClock, hostVars, coordinatorVars, handover, IInv, KindsInv, SequenceInv,
        ClockInv, Asking, Answered
  <2>11. ClockFollowsHost'
    BY DEF LockstepAssumption, LoopTick, Output, NextClock, hostVars, inputVars, outputVars,
       coordinatorVars, handover, IInv, KindsInv, SequenceInv, TurnInv, DataInv, ClockInv, Asking,
       Posted, Settled, Busy, ClockFollowsHost, Answered
  <2> QED
    BY <2>1, <2>2, <2>3, <2>4, <2>5, <2>6, <2>7, <2>8, <2>9, <2>10, <2>11 DEF ClockInv
<1>8. BoundInv'
  <2>a. clock' <= target
    BY LockstepAssumption DEF LockstepAssumption, LoopTick, NextClock, IInv, KindsInv
  <2>b. (pwm' = pwm /\ loop' = loop) \/ (pwm' = Output(pwm) /\ loop' = "health")
    BY DEF LoopTick
  <2>c. pwm.generation \in Nat /\ sample \in Nat /\ rc \in Nat /\ motorGeneration \in Nat
    BY DEF IInv, KindsInv, Outputs
  <2>d. target <= PlantTime[sequence] + Late(imuGeneration) /\ sequence' = sequence
         /\ imuGeneration' = imuGeneration /\ clock' \in Nat /\ target \in Nat
    BY <1>1 DEF LoopTick, IInv, KindsInv, BoundInv, hostVars
  <2>e. PlantTime[sequence] \in Nat /\ Late(imuGeneration) \in Nat
    BY LateFacts, FlightFacts DEF IInv, KindsInv
  <2>f. pwm' = pwm \/ ( /\ pwm'.generation = pwm.generation + 1
                          /\ pwm'.sample = sample /\ pwm'.rc = rc)
    BY <2>b DEF Output
  <2>1. (steps <= sequence)'
    BY DEF LoopTick, Output, NextClock, hostVars, IInv, BoundInv
  <2>2. (Asking => steps + 1 <= sequence)'
    BY DEF LoopTick, Output, NextClock, hostVars, IInv, BoundInv, Asking
  <2>3. (payload.target <= PlantTime[sequence] /\ store.target <= PlantTime[sequence])'
    BY DEF LoopTick, Output, NextClock, hostVars, inputVars, outputVars, coordinatorVars,
       handover, IInv, KindsInv, BoundInv
  <2>4. (clock <= PlantTime[sequence] + Late(imuGeneration))'
    BY <2>a, <2>d, <2>e
  <2>5. (target <= PlantTime[sequence] + Late(imuGeneration))'
    BY DEF LoopTick, Output, NextClock, hostVars, IInv, BoundInv
  <2>6. (pwm.generation <= imuGeneration + 1)'
    BY <2>c, <2>f DEF LoopTick, IInv, BoundInv, KindsInv
  <2>7. (loop \in {"boot", "tick"} => pwm.generation <= imuGeneration)'
    BY DEF LoopTick, IInv, BoundInv
  <2>8. (health.generation <= imuGeneration)'
    BY DEF LoopTick, IInv, BoundInv
  <2>9. (loop \in {"tick", "health"} => health.generation < imuGeneration)'
    BY DEF LoopTick, IInv, BoundInv
  <2>10. (pwm.sample <= sequence /\ health.sample <= sequence /\ sample <= sequence)'
    BY <2>c, <2>f DEF LoopTick, IInv, BoundInv, hostVars
  <2>11. (pwm.rc <= sequence /\ health.rc <= sequence)'
    BY <2>c, <2>f DEF LoopTick, IInv, BoundInv, DataInv, hostVars
  <2>12. (metrics.sample <= sequence /\ metrics.rc <= sequence)'
    BY DEF LoopTick, IInv, BoundInv, hostVars
  <2>13. (motorGeneration <= pwm.generation)'
    BY <2>c, <2>f DEF LoopTick, IInv, BoundInv, coordinatorVars
  <2>14. ({answer, taken} \subseteq [pwm : Topic, health : Topic, metrics : Topic])'
    BY DEF LoopTick, Output, NextClock, hostVars, inputVars, outputVars, IInv, KindsInv, BoundInv
  <2> QED
    BY <2>1, <2>2, <2>3, <2>4, <2>5, <2>6, <2>7, <2>8, <2>9, <2>10, <2>11, <2>12, <2>13, <2>14
    DEF BoundInv
<1>9. QED
  BY <1>1, <1>2, <1>3, <1>4, <1>5, <1>6, <1>7, <1>8 DEF IInv

\* The publish divider counts the inputs down.
LEMMA LoopHealthInv == ASSUME IInv, LoopHealth PROVE IInv'
<1>1. KindsInv'
  BY LockstepAssumption
  DEF LockstepAssumption, LoopHealth, Output, CountDown, hostVars, inputVars, outputVars,
      coordinatorVars, handover, IInv, KindsInv, Outputs
<1>2. SequenceInv'
  BY DEF LoopHealth, hostVars, inputVars, outputVars, coordinatorVars, IInv, SequenceInv, Posted,
     Busy, Asking
<1>3. TurnInv'
  BY DEF LoopHealth, coordinatorVars, handover, IInv, TurnInv
<1>4. DataInv'
  BY DEF LoopHealth, hostVars, outputVars, coordinatorVars, handover, IInv, DataInv, Posted,
     Settled, AnswerIsToTheRequest, Answered
<1>5. StateInv'
  BY DEF LoopHealth, Output, hostVars, outputVars, coordinatorVars, handover, IInv, KindsInv,
     TurnInv, StateInv, Outputs, FlightStateOfOnePass, Answered
<1>6. LagInv'
  BY LockstepAssumption
  DEF LoopHealth, Output, CountDown, hostVars, handover, IInv, KindsInv, SequenceInv, TurnInv,
      DataInv, LagInv, Outputs, HealthLag, Answered
<1>7. ClockInv'
  BY DEF LoopHealth, hostVars, inputVars, outputVars, coordinatorVars, handover, IInv, ClockInv,
     Asking, Posted, Settled, ClockFollowsHost, Answered
<1>8. BoundInv'
  <2>b. (health' = health /\ loop' = "wait") \/ (health' = Output(health) /\ loop' = "metrics")
    BY DEF LoopHealth
  <2>c. health.generation \in Nat /\ sample \in Nat /\ rc \in Nat /\ imuGeneration \in Nat
    BY DEF IInv, KindsInv, Outputs
  <2>f. health' = health \/ ( /\ health'.generation = health.generation + 1
                                /\ health'.sample = sample /\ health'.rc = rc)
    BY <2>b DEF Output
  <2>1. (steps <= sequence)'
    BY DEF LockstepAssumption, LoopHealth, Output, CountDown, hostVars, inputVars, outputVars,
       coordinatorVars, handover, IInv, KindsInv, SequenceInv, TurnInv, DataInv, StateInv,
       BoundInv, Asking, Topic, Outputs, Answers
  <2>2. (Asking => steps + 1 <= sequence)'
    BY DEF LockstepAssumption, LoopHealth, Output, CountDown, hostVars, inputVars, outputVars,
       coordinatorVars, handover, IInv, KindsInv, SequenceInv, TurnInv, DataInv, StateInv,
       BoundInv, Asking, Topic, Outputs, Answers
  <2>3. (payload.target <= PlantTime[sequence] /\ store.target <= PlantTime[sequence])'
    BY DEF LockstepAssumption, LoopHealth, Output, CountDown, hostVars, inputVars, outputVars,
       coordinatorVars, handover, IInv, KindsInv, SequenceInv, TurnInv, DataInv, StateInv,
       BoundInv, Asking, Topic, Outputs, Answers
  <2>4. (clock <= PlantTime[sequence] + Late(imuGeneration))'
    BY DEF LockstepAssumption, LoopHealth, Output, CountDown, hostVars, inputVars, outputVars,
       coordinatorVars, handover, IInv, KindsInv, SequenceInv, TurnInv, DataInv, StateInv,
       BoundInv, Asking, Topic, Outputs, Answers
  <2>5. (target <= PlantTime[sequence] + Late(imuGeneration))'
    BY DEF LockstepAssumption, LoopHealth, Output, CountDown, hostVars, inputVars, outputVars,
       coordinatorVars, handover, IInv, KindsInv, SequenceInv, TurnInv, DataInv, StateInv,
       BoundInv, Asking, Topic, Outputs, Answers
  <2>6. (pwm.generation <= imuGeneration + 1)'
    BY DEF LockstepAssumption, LoopHealth, Output, CountDown, hostVars, inputVars, outputVars,
       coordinatorVars, handover, IInv, KindsInv, SequenceInv, TurnInv, DataInv, StateInv,
       BoundInv, Asking, Topic, Outputs, Answers
  <2>7. (loop \in {"boot", "tick"} => pwm.generation <= imuGeneration)'
    BY DEF LockstepAssumption, LoopHealth, Output, CountDown, hostVars, inputVars, outputVars,
       coordinatorVars, handover, IInv, KindsInv, SequenceInv, TurnInv, DataInv, StateInv,
       BoundInv, Asking, Topic, Outputs, Answers
  <2>8. (health.generation <= imuGeneration)'
    BY <2>c, <2>f DEF LoopHealth, IInv, BoundInv, KindsInv
  <2>9. (loop \in {"tick", "health"} => health.generation < imuGeneration)'
    BY DEF LockstepAssumption, LoopHealth, Output, CountDown, hostVars, inputVars, outputVars,
       coordinatorVars, handover, IInv, KindsInv, SequenceInv, TurnInv, DataInv, StateInv,
       BoundInv, Asking, Topic, Outputs, Answers
  <2>10. (pwm.sample <= sequence /\ health.sample <= sequence /\ sample <= sequence)'
    BY <2>c, <2>f DEF LoopHealth, IInv, BoundInv, hostVars
  <2>11. (pwm.rc <= sequence /\ health.rc <= sequence)'
    BY <2>c, <2>f DEF LoopHealth, IInv, BoundInv, DataInv, hostVars
  <2>12. (metrics.sample <= sequence /\ metrics.rc <= sequence)'
    BY DEF LockstepAssumption, LoopHealth, Output, CountDown, hostVars, inputVars, outputVars,
       coordinatorVars, handover, IInv, KindsInv, SequenceInv, TurnInv, DataInv, StateInv,
       BoundInv, Asking, Topic, Outputs, Answers
  <2>13. (motorGeneration <= pwm.generation)'
    BY DEF LockstepAssumption, LoopHealth, Output, CountDown, hostVars, inputVars, outputVars,
       coordinatorVars, handover, IInv, KindsInv, SequenceInv, TurnInv, DataInv, StateInv,
       BoundInv, Asking, Topic, Outputs, Answers
  <2>14. ({answer, taken} \subseteq [pwm : Topic, health : Topic, metrics : Topic])'
    BY DEF LockstepAssumption, LoopHealth, Output, CountDown, hostVars, inputVars, outputVars,
       coordinatorVars, handover, IInv, KindsInv, SequenceInv, TurnInv, DataInv, StateInv,
       BoundInv, Asking, Topic, Outputs, Answers
  <2> QED
    BY <2>1, <2>2, <2>3, <2>4, <2>5, <2>6, <2>7, <2>8, <2>9, <2>10, <2>11, <2>12, <2>13, <2>14
    DEF BoundInv
<1>9. QED
  BY <1>1, <1>2, <1>3, <1>4, <1>5, <1>6, <1>7, <1>8 DEF IInv

\* The last topic makes the flight state whole.
LEMMA LoopMetricsInv == ASSUME IInv, LoopMetrics PROVE IInv'
<1>1. KindsInv'
  BY DEF LoopMetrics, Output, hostVars, inputVars, outputVars, coordinatorVars, handover, IInv,
     KindsInv, Outputs
<1>2. SequenceInv'
  BY DEF LoopMetrics, hostVars, inputVars, outputVars, coordinatorVars, IInv, SequenceInv, Posted,
     Busy, Asking
<1>3. TurnInv'
  BY DEF LoopMetrics, Output, hostVars, inputVars, outputVars, coordinatorVars, handover, IInv,
     KindsInv, SequenceInv, TurnInv, Posted
<1>4. DataInv'
  BY DEF LoopMetrics, hostVars, outputVars, coordinatorVars, handover, IInv, DataInv, Posted,
     Settled, AnswerIsToTheRequest, Answered
<1>5. StateInv'
  BY DEF LockstepAssumption, LoopMetrics, Output, hostVars, inputVars, outputVars,
     coordinatorVars, handover, IInv, KindsInv, DataInv, StateInv, FlightStateOfOnePass, Answered
<1>6. LagInv'
  BY DEF LoopMetrics, hostVars, handover, IInv, SequenceInv, LagInv, HealthLag, Answered
<1>7. ClockInv'
  BY DEF LoopMetrics, Output, hostVars, inputVars, outputVars, coordinatorVars, handover, IInv,
     ClockInv, Asking, Posted, Settled, ClockFollowsHost, Answered
<1>8. BoundInv'
  BY DEF LoopMetrics, Output, hostVars, inputVars, outputVars, coordinatorVars, handover, IInv,
     KindsInv, SequenceInv, TurnInv, DataInv, StateInv, BoundInv, Asking, Topic, Outputs, Answers
<1>9. QED
  BY <1>1, <1>2, <1>3, <1>4, <1>5, <1>6, <1>7, <1>8 DEF IInv

-----------------------------------------------------------------------------
(* The theorems                                                            *)

\* The invariant holds when the firmware starts.
LEMMA InitInv == Init => IInv
<1> SUFFICES ASSUME Init PROVE IInv
  OBVIOUS
<1> USE LockstepAssumption DEF LockstepAssumption, Init
<1>a. /\ PlantTime[0] = 0 /\ PlantTime[1] \in Nat /\ Period <= PlantTime[1]
  BY FlightFacts, StepAssumption DEF StepAssumption
<1>1. KindsInv
  <2>1. Empty \in Outputs
    BY DEF Empty, Outputs
  <2>2. NoAnswer \in Answers
    BY <2>1 DEF NoAnswer, Answers
  <2>3. ready \in BOOLEAN /\ terminate \in BOOLEAN
    OBVIOUS
  <2>4. payload \in [of : Nat, target : Nat] /\ store \in [generation : Nat, of : Nat, target : Nat]
    OBVIOUS
  <2> QED
    BY <1>a, <2>1, <2>2, <2>3, <2>4 DEF KindsInv
<1>2. SequenceInv /\ TurnInv
  BY DEF SequenceInv, TurnInv, Busy, Posted, Asking
<1>3. DataInv /\ StateInv
  BY DEF DataInv, StateInv, Settled, Posted, NoAnswer, Empty, AnswerIsToTheRequest,
         FlightStateOfOnePass, Answered
<1>4. LagInv
  BY DEF LagInv, Empty, HealthLag, Answered
<1>5. ClockInv
  BY <1>a, LateFacts DEF ClockInv, Asking, Settled, Posted, ClockFollowsHost, Answered
<1>6. BoundInv
  <2>1. Empty \in Topic
    BY DEF Empty, Topic
  <2>2. {answer, taken} \subseteq [pwm : Topic, health : Topic, metrics : Topic]
    BY <2>1 DEF NoAnswer
  <2> QED
    BY <1>a, <2>2, LateFacts DEF BoundInv, Asking, Empty
<1> QED
  BY <1>1, <1>2, <1>3, <1>4, <1>5, <1>6 DEF IInv

\* A step that changes nothing keeps the invariant.
LEMMA StutterInv == ASSUME IInv, UNCHANGED vars PROVE IInv'
<1> USE DEF vars, hostVars, inputVars, outputVars, coordinatorVars, handover, loopVars
<1>1. KindsInv'
  BY DEF IInv, KindsInv
<1>2. SequenceInv' /\ TurnInv'
  BY DEF IInv, SequenceInv, TurnInv, Busy, Posted, Asking
<1>3. DataInv' /\ StateInv'
  BY DEF IInv, DataInv, StateInv, Settled, Posted, AnswerIsToTheRequest, Output,
         FlightStateOfOnePass, Answered
<1>4. LagInv' /\ ClockInv'
  BY DEF IInv, LagInv, ClockInv, HealthLag, ClockFollowsHost, Asking, Settled, Posted, Answered
<1>5. BoundInv'
  BY DEF IInv, BoundInv, Asking
<1> QED
  BY <1>1, <1>2, <1>3, <1>4, <1>5 DEF IInv

\* Every behaviour keeps the invariant.
THEOREM Inductive == Spec => []IInv
<1>1. IInv /\ [Next]_vars => IInv'
  <2> SUFFICES ASSUME IInv, [Next]_vars PROVE IInv'
    OBVIOUS
  <2>1. CASE HostFill
    BY <2>1, HostFillInv
  <2>2. CASE HostRequest
    BY <2>2, HostRequestInv
  <2>3. CASE HostTake
    BY <2>3, HostTakeInv
  <2>4. CASE HostTimeout
    BY <2>4, HostTimeoutInv
  <2>5. CASE HostEnd
    BY <2>5, HostEndInv
  <2>6. CASE Coordinator
    BY <2>6, CoordinatorWaitInv, CoordinatorRcInv, StoreInv, GiveInv, CoordinatorBarrierInv,
       CoordinatorHealthInv, CoordinatorMetricsInv, CoordinatorRespondInv
    DEF Coordinator, CoordinatorInput
  <2>7. CASE Loop
    BY <2>7, LoopBootInv, LoopWakeInv, LoopBlockInv, LoopTakeInv, LoopTickInv,
       LoopHealthInv, LoopMetricsInv DEF Loop
  <2>8. CASE UNCHANGED vars
    BY <2>8, StutterInv
  <2> QED
    BY <2>1, <2>2, <2>3, <2>4, <2>5, <2>6, <2>7, <2>8 DEF Next
<1> QED
  BY <1>1, InitInv, PTL DEF Spec

\* Every variable holds a value of its kind: no topic is published more often
\* than once per exchange and once at start, and no time runs further than the
\* exchanges carry it.
THEOREM TypeCorrect == Spec => []TypeOK
<1>1. IInv => TypeOK
  <2> SUFFICES ASSUME IInv PROVE TypeOK
    OBVIOUS
  <2> USE LockstepAssumption DEF LockstepAssumption
  <2>1. /\ payload.of \in 0 .. MaxExchanges /\ inputSequence \in 0 .. MaxExchanges
        /\ responseSequence \in 0 .. MaxExchanges /\ current \in 0 .. MaxExchanges
        /\ store.generation \in 0 .. MaxExchanges /\ store.of \in 0 .. MaxExchanges
        /\ imuGeneration \in 0 .. MaxExchanges /\ sample \in 0 .. MaxExchanges
        /\ rc \in 0 .. MaxExchanges /\ steps \in 0 .. MaxExchanges
    BY DEF IInv, KindsInv, SequenceInv, TurnInv, DataInv, BoundInv
  <2>2. \A n \in Nat : n <= PlantTime[sequence] + Late(imuGeneration) => n \in Times
    <3>1. /\ sequence \in 0 .. MaxExchanges + 1 /\ MaxExchanges \in 0 .. MaxExchanges + 1
          /\ sequence <= MaxExchanges /\ imuGeneration \in Nat /\ imuGeneration <= MaxExchanges
      BY <2>1 DEF IInv, KindsInv
    <3>2. /\ PlantTime[sequence] \in Nat /\ PlantTime[MaxExchanges] \in Nat
          /\ PlantTime[sequence] <= PlantTime[MaxExchanges]
      BY <3>1, FlightMonotone
    <3>3. /\ Late(imuGeneration) \in Nat /\ Late(MaxExchanges) \in Nat
          /\ Late(imuGeneration) <= Late(MaxExchanges)
      BY <3>1, LateMonotone, LateFacts
    <3>4. Times = 0 .. PlantTime[MaxExchanges] + Late(MaxExchanges)
      BY DEF Times, Late
    <3> QED
      BY <3>2, <3>3, <3>4
  <2>3. /\ payload.target \in Times /\ store.target \in Times
        /\ clock \in Times /\ target \in Times
    <3>1. PlantTime[sequence] \in Nat /\ Late(imuGeneration) \in Nat
      BY FlightFacts, LateFacts DEF IInv, KindsInv
    <3> QED
      BY <2>2, <3>1 DEF IInv, KindsInv, BoundInv
  <2>4. pwm \in Topic /\ health \in Topic
    BY <2>1 DEF IInv, KindsInv, BoundInv, Outputs, Topic
  <2>5. metrics \in Topic
    <3>1. metrics.generation <= health.generation
      BY DEF IInv, KindsInv, StateInv, Outputs, Output
    <3> QED
      BY <2>1, <3>1 DEF IInv, KindsInv, BoundInv, Outputs, Topic
  <2>6. motorGeneration \in 0 .. MaxExchanges + 1 /\ flightGeneration \in 0 .. MaxExchanges + 1
    BY <2>1 DEF IInv, KindsInv, BoundInv, StateInv, Outputs
  <2>7. /\ payload \in [of : 0 .. MaxExchanges, target : Times]
        /\ store \in [generation : 0 .. MaxExchanges, of : 0 .. MaxExchanges, target : Times]
    BY <2>1, <2>3 DEF IInv, KindsInv
  <2>8. {taken, answer} \subseteq [pwm : Topic, health : Topic, metrics : Topic]
    BY DEF IInv, BoundInv
  <2>9. {pwm, health, metrics} \subseteq Topic
    BY <2>4, <2>5
  <2> QED
    BY <2>1, <2>3, <2>6, <2>7, <2>8, <2>9 DEF IInv, KindsInv, TypeOK
<1> QED
  BY <1>1, Inductive, PTL

\* The command the plant is stepped with was computed from the very request it
\* answers: the coordinator reaches its barrier with a new output only after the
\* loop, the more urgent of the two, has worked off the input it handed over.
THEOREM AnswersMatch == Spec => []AnswerIsToTheRequest
<1>1. IInv => AnswerIsToTheRequest
  BY DEF IInv, DataInv
<1> QED
  BY <1>1, Inductive, PTL

\* When the plant moves on, the firmware's clock is behind the end of its step
\* by less than a microsecond, and ahead of it by a period at most for each
\* request tried again, for every course of the plant's time.
THEOREM ClockFollows == Spec => []ClockFollowsHost
<1>1. IInv => ClockFollowsHost
  BY DEF IInv, ClockInv
<1> QED
  BY <1>1, Inductive, PTL

\* The health in an answer is younger than PublishDiv answers, counting the
\* requests given up on, for every divider.
THEOREM HealthBounded == Spec => []HealthLag
<1>1. IInv => HealthLag
  BY DEF IInv, LagInv
<1> QED
  BY <1>1, Inductive, PTL

\* The flight state of an answer is of one pass, although it is copied topic
\* by topic without a lock.
THEOREM FlightStateWhole == Spec => []FlightStateOfOnePass
<1>1. IInv => FlightStateOfOnePass
  BY DEF IInv, StateInv
<1> QED
  BY <1>1, Inductive, PTL

=============================================================================
