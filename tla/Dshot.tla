-------------------------------- MODULE Dshot --------------------------------
(***************************************************************************)
(* The motors' lines, nxp_flexio_dshot.c: the control loop hands a packet  *)
(* per channel to the driver and triggers them together; the interrupt     *)
(* feeds the second half of each to the hardware, and turns a              *)
(* bidirectional channel's line around for the motor controller's answer.  *)
(* The interrupt preempts the loop between any two of its accesses to the  *)
(* hardware, and the hardware runs on while either does.                   *)
(*                                                                         *)
(* Shifter and timer n serve channel n: the driver is the only child of    *)
(* its FlexIO, which hands both out in order.  The loop comes back long    *)
(* after the lines fell silent: a packet takes 27 us, a pass 625 us.       *)
(***************************************************************************)
EXTENDS DshotCodec, FiniteSets

CONSTANTS ChannelCount, Throttles,
          Words,         \* what motor controllers answer
          MaxPasses, MaxDisturbed, MaxBroken   \* bounds

ASSUME ChannelsAssumption == ChannelCount \in Nat \ {0}
ASSUME BoundsAssumption == {MaxPasses, MaxDisturbed, MaxBroken} \subseteq Nat
ASSUME ThrottlesAssumption == Throttles \subseteq 0 .. 2047
\* a shorter period is no speed of a motor: zero would be divided by, and
\* below ten the speed does not fit its sixteen bits
ASSUME WordsAssumption ==
  /\ Words \subseteq 0 .. 4095
  /\ \A word \in Words : word = StopWord \/ (Period(word) \in Nat /\ Period(word) >= 10)

VARIABLES
  bdshot,       \* the bidirectional channels, from the devicetree
  info,         \* dshot_info: what the driver keeps of each channel
  recvMask, parsedMask,
  fetch, seen,  \* the channel a fetch looks at, 0 outside one, and the pass it saw an answer in
  at, channel,  \* where the loop is in its pass
  isr,          \* the channel whose timer the interrupt handler looks at, 0 outside it
  shifterIrq, timerIrq,   \* interrupts enabled
  hw,           \* shifter and timer of each channel
  line,         \* the thirds each line carried since the trigger
  passes, wanted,
  answers,      \* history: what was answered, by whom and in which pass
  disturbed     \* history: passes in which the hardware outran the interrupt,
                \* or that were set up while an answer was still to come

vars == <<bdshot, info, recvMask, parsedMask, fetch, seen, at, channel, isr, shifterIrq, timerIrq,
          hw, line, passes, wanted, answers, disturbed>>
handler == <<isr, shifterIrq, timerIrq>>
loop == <<at, channel, passes, wanted>>
fixed == <<bdshot, parsedMask, fetch, seen>>
history == <<answers, disturbed>>

Channels == 1 .. ChannelCount
States == {"START", "12BIT_FIFO", "12BIT_TRANSFERRED", "TRANSMIT_COMPLETE",
           "RECEIVE", "RECEIVE_COMPLETE"}
\* what is received as one out of step or with a broken check is no word
OutOfStep == 4096
BadCheck == 4097
Answers == {OutOfStep, BadCheck} \cup Words
\* the words before the first packet
Zeros == [k \in 1 .. 24 |-> 0]
Bidirectional(c) == IF c \in bdshot THEN 1 ELSE 0

-----------------------------------------------------------------------------
(* The hardware.  A shifter set to transmit asks for data while its buffer *)
(* is empty, one set to receive while its buffer holds what came in.       *)

Configured(mode) ==
  [mode |-> mode, on |-> TRUE, sending |-> <<>>, buf |-> <<>>, timer |-> FALSE, heard |-> FALSE]

ShifterFlag(c) == IF hw[c].mode = "out" THEN hw[c].buf = <<>> ELSE hw[c].buf # <<>>

Put(unit, half) ==
  IF unit.mode = "in" THEN [unit EXCEPT !.buf = <<>>]
  ELSE IF unit.sending = <<>> THEN [unit EXCEPT !.sending = half]
  ELSE [unit EXCEPT !.buf = half]

Pending ==
  \/ \E c \in shifterIrq : ShifterFlag(c)
  \/ \E c \in timerIrq : hw[c].timer

Disturb(is) ==
  /\ disturbed' = IF is THEN disturbed \cup {passes} ELSE disturbed
  /\ Cardinality(disturbed') <= MaxDisturbed   \* bound

\* the timer's compare: a half is out, and the next one begins if it is there
HalfSent(c) ==
  /\ hw[c].on /\ hw[c].sending # <<>>
  /\ hw' = [hw EXCEPT ![c].sending = hw[c].buf, ![c].buf = <<>>, ![c].timer = TRUE]
  /\ line' = [line EXCEPT ![c] = @ \o hw[c].sending]
  /\ Disturb(at # "idle" \/ hw[c].timer \/ (c \in shifterIrq /\ ShifterFlag(c)))
  /\ UNCHANGED <<fixed, info, recvMask, handler, loop, answers>>

\* a motor controller answers a packet once, or not
Response(c, answer) ==
  /\ hw[c].mode = "in" /\ hw[c].on /\ ~hw[c].heard
  /\ hw' = [hw EXCEPT ![c].buf = <<answer>>, ![c].timer = TRUE, ![c].heard = TRUE]
  /\ answers' = answers \cup
       {[channel |-> c, pass |-> IF line[c] = <<>> THEN passes - 1 ELSE passes, answer |-> answer]}
  /\ Cardinality({a \in answers' : a.answer \notin Words}) <= MaxBroken   \* bound
  /\ Disturb(line[c] = <<>>)
  /\ UNCHANGED <<fixed, info, recvMask, handler, loop, line>>

-----------------------------------------------------------------------------
(* The loop: data_set for every channel, then trigger                      *)

Undisturbed == isr = 0 /\ ~Pending
InStep(stage) == at = stage /\ Undisturbed

Quiet ==
  /\ Undisturbed
  /\ \A c \in Channels : hw[c].mode = "out" => hw[c].sending = <<>>

Begin ==
  /\ at = "idle" /\ Quiet
  /\ passes + Cardinality(bdshot) < MaxPasses   \* fewer the more channels answer
  /\ seen \in {0, passes}   \* bound: passes a fetch is interrupted for
  /\ at' = "set" /\ channel' = 1
  /\ passes' = passes + 1
  /\ line' = [c \in Channels |-> <<>>]
  /\ UNCHANGED <<fixed, info, recvMask, handler, hw, wanted, history>>

\* variant: the second half keeps its former value
DataSetKeepsHalf(throttle) ==
  /\ info' = [info EXCEPT ![channel].seg1 = FirstHalf(Packet(throttle, 0, Bidirectional(channel))),
                          ![channel].state = "START"]
\* the packet and the state the interrupt finds it in
DataSet(throttle) ==
  /\ info' = [info EXCEPT ![channel].seg1 = FirstHalf(Packet(throttle, 0, Bidirectional(channel))),
                          ![channel].irqData = SecondHalf(Packet(throttle, 0, Bidirectional(channel))),
                          ![channel].state = "START"]

NextChannel ==
  IF channel < ChannelCount THEN at' = "set" /\ channel' = channel + 1
  ELSE at' = "put" /\ channel' = 1

SetPacket(throttle) ==
  /\ InStep("set") /\ throttle # wanted[channel]   \* bound: a packet unlike the last
  /\ DataSet(throttle)
  /\ wanted' = [wanted EXCEPT ![channel] = throttle]
  /\ IF channel \in bdshot THEN at' = "turn" /\ UNCHANGED channel ELSE NextChannel
  /\ UNCHANGED <<fixed, recvMask, handler, hw, line, passes, history>>

TimersCleared == [c \in Channels |-> [hw[c] EXCEPT !.timer = FALSE]]

\* a bidirectional channel's line is turned around again; all shifters are
\* masked and all timer flags cleared.  Its timer off, what comes in on the
\* channel can no longer interrupt, and what another channel's interrupt
\* would do here it does as well before
TurnBack ==
  /\ InStep("turn") /\ NextChannel
  /\ shifterIrq' = {}
  /\ hw' = [TimersCleared EXCEPT ![channel] = Configured("out")]
  /\ UNCHANGED <<fixed, info, recvMask, isr, timerIrq, passes, wanted, line, history>>

\* variant: an answer is looked for among what was decoded
SilentIfUnparsed(c) == c \in bdshot /\ c \notin parsedMask
Silent(c) == c \in bdshot /\ c \notin recvMask

\* the first channel's turn clears the timer flags too
TriggerPut ==
  /\ InStep("put")
  /\ info' = [info EXCEPT ![channel].noResponse = @ + IF Silent(channel) THEN 1 ELSE 0]
  /\ hw' = [IF channel = 1 THEN TimersCleared ELSE hw EXCEPT ![channel] =
            IF info[channel].seg1 = Zeros THEN @ ELSE Put(@, info[channel].seg1)]
  /\ IF channel < ChannelCount THEN channel' = channel + 1 /\ UNCHANGED at
     ELSE at' = "arm" /\ UNCHANGED channel
  /\ UNCHANGED <<fixed, recvMask, handler, passes, wanted, line, history>>

\* variant: the answers are left to be decoded again
AnswersKept == recvMask
AnswersForgotten == {}
\* the timer flags once more, then the interrupts
TriggerArm ==
  /\ InStep("arm") /\ at' = "idle"
  /\ recvMask' = AnswersForgotten
  /\ hw' = TimersCleared
  /\ shifterIrq' = Channels /\ timerIrq' = Channels
  /\ UNCHANGED <<fixed, info, isr, channel, passes, wanted, line, history>>

-----------------------------------------------------------------------------
(* The interrupt: the shifters once, then the timers until none is set     *)

FeedsSecondHalf(c) == info[c].state = "START"

ServeShifters ==
  LET flagged == {c \in Channels : ShifterFlag(c)}
      feeding == {c \in flagged : FeedsSecondHalf(c)}
      received == {c \in flagged : info[c].state = "RECEIVE"}
      timers == {c \in Channels : hw[c].timer}
  IN /\ isr = 0 /\ Pending
     /\ shifterIrq' = shifterIrq \ flagged
     /\ info' = [c \in Channels |->
          IF c \in feeding THEN [info[c] EXCEPT !.state = "12BIT_FIFO"]
          ELSE IF c \in received THEN [info[c] EXCEPT !.state = "RECEIVE_COMPLETE", !.raw = hw[c].buf]
          ELSE info[c]]
     /\ hw' = [c \in Channels |->
          IF c \in feeding THEN Put(hw[c], info[c].irqData)
          ELSE IF c \in received THEN [hw[c] EXCEPT !.buf = <<>>] ELSE hw[c]]
     /\ recvMask' = recvMask \cup received
     /\ isr' = IF timers = {} THEN 0 ELSE 1
     /\ UNCHANGED <<fixed, timerIrq, loop, line, history>>

\* the line is turned around: the packet is out, the answer may come
TurnAround(c) ==
  /\ shifterIrq' = shifterIrq \cup {c}
  /\ hw' = [hw EXCEPT ![c] = Configured("in")]

\* variant: every line is turned around
EveryLineTurned(c) ==
  IF info[c].state = "12BIT_FIFO" THEN "12BIT_TRANSFERRED"
  ELSE IF info[c].state = "12BIT_TRANSFERRED" THEN "RECEIVE"
  ELSE info[c].state
AfterTimer(c) ==
  IF info[c].state = "12BIT_FIFO" THEN "12BIT_TRANSFERRED"
  ELSE IF info[c].state = "12BIT_TRANSFERRED"
  THEN IF c \in bdshot THEN "RECEIVE" ELSE "TRANSMIT_COMPLETE"
  ELSE info[c].state

\* variant: only the first channel's flag is ever cleared
NextServedOne(c) == 1
NextServed(c) == (c % ChannelCount) + 1

ServeTimer ==
  LET c == isr
      flags == {d \in Channels : hw[d].timer}
  IN /\ isr # 0
     /\ isr' = IF flags = {} THEN 0 ELSE NextServed(c)
     /\ IF c \in flags
        THEN /\ info' = [info EXCEPT ![c].state = AfterTimer(c)]
             /\ IF AfterTimer(c) = "RECEIVE" /\ info[c].state # "RECEIVE" THEN TurnAround(c)
                ELSE hw' = [hw EXCEPT ![c].timer = FALSE] /\ UNCHANGED shifterIrq
        ELSE UNCHANGED <<info, hw, shifterIrq>>
     /\ UNCHANGED <<fixed, recvMask, timerIrq, loop, line, history>>

-----------------------------------------------------------------------------
(* Decoding, by the sensor shell, which is less urgent than the loop: whole *)
(* passes may go by between two of its steps.                              *)

FetchMayRun == at = "idle" /\ Undisturbed

NextFetched ==
  /\ fetch' = IF fetch < ChannelCount THEN fetch + 1 ELSE 0
  /\ seen' = 0

FetchBegin ==
  /\ FetchMayRun /\ fetch = 0
  /\ recvMask \cup parsedMask # {}
  /\ parsedMask' = {}
  /\ fetch' = 1
  /\ UNCHANGED <<bdshot, info, recvMask, seen, handler, loop, hw, line, history>>

FetchCheck ==
  /\ FetchMayRun /\ fetch # 0 /\ seen = 0
  /\ IF fetch \in recvMask THEN seen' = passes /\ UNCHANGED fetch ELSE NextFetched
  /\ UNCHANGED <<bdshot, info, recvMask, parsedMask, handler, loop, hw, line, history>>

Decoded(is, answer) ==
  IF answer = OutOfStep THEN [is EXCEPT !.frameErrors = @ + 1]
  ELSE IF answer = BadCheck THEN [is EXCEPT !.crcErrors = @ + 1]
  ELSE [is EXCEPT !.erpm = Erpm(answer), !.lastNoResponse = is.noResponse]

FetchDecode ==
  LET answer == info[fetch].raw[1] IN
  /\ FetchMayRun /\ seen # 0
  /\ info' = [info EXCEPT ![fetch] = Decoded(@, answer)]
  /\ parsedMask' = IF answer \in Words THEN parsedMask \cup {fetch} ELSE parsedMask
  /\ NextFetched
  /\ info'[fetch].crcErrors + info'[fetch].frameErrors   \* bound: counted once
       <= Cardinality({a \in answers : a.channel = fetch})
  /\ UNCHANGED <<bdshot, recvMask, handler, loop, hw, line, history>>

-----------------------------------------------------------------------------

Init ==
  /\ \E n \in 0 .. ChannelCount : bdshot = {c \in Channels : c > n}   \* bound: the last ones
  /\ info = [c \in Channels |->
       [seg1 |-> Zeros, irqData |-> Zeros, state |-> "START", raw |-> <<>>, erpm |-> 0,
        crcErrors |-> 0, frameErrors |-> 0, noResponse |-> 0, lastNoResponse |-> 0]]
  /\ recvMask = {} /\ parsedMask = {} /\ fetch = 0 /\ seen = 0
  /\ at = "idle" /\ channel = 1 /\ isr = 0
  /\ shifterIrq = {} /\ timerIrq = {}
  /\ hw = [c \in Channels |-> Configured("out")]
  /\ line = [c \in Channels |-> <<>>]
  /\ passes = 0 /\ wanted = [c \in Channels |-> 0]
  /\ answers = {} /\ disturbed = {}

Loop ==
  \/ \E throttle \in Throttles : SetPacket(throttle)
  \/ TurnBack \/ TriggerPut \/ TriggerArm
Interrupt == ServeShifters \/ ServeTimer
SampleFetch == FetchBegin \/ FetchCheck \/ FetchDecode

Next ==
  \/ Begin \/ Loop \/ Interrupt \/ SampleFetch
  \/ \E c \in Channels : HalfSent(c) \/ \E answer \in Answers : Response(c, answer)

Fairness ==
  /\ WF_vars(Loop) /\ WF_vars(Interrupt)
  /\ \A c \in Channels : WF_vars(HalfSent(c))
Spec == Init /\ [][Next]_vars /\ Fairness

-----------------------------------------------------------------------------
(* Properties                                                              *)

Halves == UNION {{FirstHalf(Packet(t, 0, b)), SecondHalf(Packet(t, 0, b))} :
                   t \in Throttles, b \in {0, 1}}

\* Types, and what the shape of the driver's state promises: only a
\* bidirectional channel listens or has an answer, and the handler looks at
\* a channel there is.
TypeOK ==
  /\ bdshot \subseteq Channels
  /\ recvMask \subseteq bdshot /\ parsedMask \subseteq bdshot
  /\ fetch \in 0 .. ChannelCount /\ seen \in 0 .. passes
  /\ at \in {"idle", "set", "turn", "put", "arm"}
  /\ channel \in Channels /\ isr \in 0 .. ChannelCount
  /\ shifterIrq \subseteq Channels /\ timerIrq \subseteq Channels
  /\ \A c \in Channels :
       /\ info[c].state \in States
       /\ info[c].state \in {"RECEIVE", "RECEIVE_COMPLETE"} \/ hw[c].mode = "in" => c \in bdshot
       /\ {info[c].seg1, info[c].irqData} \subseteq Halves \cup {Zeros}
       /\ hw[c].sending \in Halves \cup {Zeros, <<>>}
       /\ c \in recvMask => info[c].raw # <<>>
  /\ passes \in 0 .. MaxPasses

\* When the lines are silent between two passes, each carried exactly the
\* packet the loop asked for in this pass, halves in order and the check
\* right for the line's kind - unless the hardware had to wait for the
\* interrupt or an answer still came in while the pass was set up.  A
\* disturbed pass spoils no later one.
PacketsWhole ==
  (at = "idle" /\ Quiet /\ passes > 0 /\ passes \notin disturbed) =>
    \A c \in Channels : Taken(line[c], Bidirectional(c)) = <<wanted[c]>>

\* A speed is decoded only from what the channel's motor controller answered
\* to the packet of the pass the fetch saw it in, or of a later one when the
\* loop ran in between; it is the nearest to the period answered.  Never from
\* an answer of an earlier pass, a broken one or another channel's.
ErpmOfThisPass ==
  [][\A c \in parsedMask' \ parsedMask :
       \E a \in answers :
         /\ a.channel = c /\ a.pass \in seen .. passes /\ a.answer \in Words
         /\ Nearest(info'[c].erpm, a.answer)]_vars

\* A bidirectional channel's count of missing answers is the number of its
\* packets before this pass's that nobody answered, one before the first
\* packet included; only an answer in a disturbed pass may count as missing.
NoResponseIsSilence ==
  at = "idle" => \A c \in bdshot :
    LET heard == {a \in answers : a.channel = c /\ a.pass < passes}
        silent == passes - Cardinality(heard)
        lost == {a \in heard : {a.pass, a.pass + 1} \cap disturbed # {}}
    IN info[c].noResponse \in silent .. silent + Cardinality(lost)

\* A pass begun ends: the loop gets through, the handler's second loop finds
\* no timer flag set, and every packet is done with - sent, or sent and
\* listening or answered, unless the pass was disturbed.
Finished(c) == info[c].state \in {"TRANSMIT_COMPLETE", "RECEIVE", "RECEIVE_COMPLETE"}
PassCompletes ==
  (at = "set") ~> (/\ at = "idle" /\ isr = 0
                   /\ passes \in disturbed \/ \A c \in Channels : Finished(c))

=============================================================================
