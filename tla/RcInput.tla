------------------------------ MODULE RcInput -------------------------------
(***************************************************************************)
(* The RC sample of src/rc_input.c: the input callback writes it between   *)
(* two increments of g_rc_seq, readers copy it and compare g_rc_seq before *)
(* and after.  The threads share one core: a thread takes a step only      *)
(* while no more urgent thread is ready, and the words of a copy move in   *)
(* any order the compiler chooses.                                         *)
(*                                                                         *)
(* Two builds differ in who writes and in who is more urgent.  On the      *)
(* target the CRSF driver's thread runs the callback and preempts the      *)
(* control loop; in lockstep the coordinator runs it, is less urgent than  *)
(* the control loop and is also who lets the loop go.                      *)
(*                                                                         *)
(* A sample is the number of the synchronised event that published it, a   *)
(* word of it the number it was last written under.  The staging copy is   *)
(* the callback's own.                                                     *)
(***************************************************************************)
EXTENDS Naturals

CONSTANTS
  Words,      \* the words of channels, validity and stamp that one store moves
  MaxFrames   \* bound: synchronised events

ASSUME WordsAssumption == Words # {} /\ MaxFrames \in Nat

VARIABLES
  build,     \* which of the two builds runs, fixed
  seq,       \* g_rc_seq
  latest,    \* g_rc_latest, g_rc_latest_valid and g_rc_latest_stamp_ms
  writing,   \* where the callback is: "idle", "begin", "copy"
  unwritten, \* words the callback has yet to store
  reading,   \* where each reader is: "idle", "start", "copy"
  uncopied,  \* words each reader has yet to load
  seqStart,  \* seq_start of each reader
  seqEnd,    \* seq_end of each reader
  local,     \* *rc, *stamp_ms and *valid of each reader
  returned   \* what each reader last returned with

writerVars == <<writing, unwritten, latest>>
readerVars == <<reading, uncopied, seqStart, seqEnd, local, returned>>
vars == <<build, seq, writerVars, readerVars>>

-----------------------------------------------------------------------------
(* Threads and priorities: the smaller number is the more urgent           *)

Builds == {"native", "lockstep"}
Readers == {"main", "shell"}
Threads == Readers \cup {"writer"}

\* variant: the CRSF thread is less urgent than the control loop
PriorityBelowLoop(thread) ==
  CASE thread = "main" -> 2 [] thread = "shell" -> 14 [] OTHER -> 5
Priority(thread) ==
  CASE thread = "main" -> 2
    [] thread = "shell" -> 14
    [] OTHER -> IF build = "native" THEN 1 ELSE 5

Ready(thread) == IF thread = "writer" THEN writing # "idle" ELSE reading[thread] # "idle"

Runs(thread) ==
  /\ Ready(thread)
  /\ \A other \in Threads : Ready(other) => Priority(thread) <= Priority(other)

-----------------------------------------------------------------------------
(* The writer: rc_input_cb on a synchronised event                         *)

\* a synchronised event reaches the callback
Arrive ==
  /\ writing = "idle" /\ seq < 2 * MaxFrames
  /\ writing' = "begin"
  /\ UNCHANGED <<build, seq, unwritten, latest, readerVars>>

\* variant: the second increment is lost
BumpOnce == IF writing = "begin" THEN seq + 1 ELSE seq
Bump == seq + 1

WriteBegin ==
  /\ writing = "begin" /\ Runs("writer")
  /\ seq' = Bump
  /\ writing' = "copy" /\ unwritten' = Words
  /\ UNCHANGED <<build, latest, readerVars>>

WriteWord(word) ==
  /\ writing = "copy" /\ Runs("writer")
  /\ word \in unwritten
  /\ latest' = [latest EXCEPT ![word] = (seq + 1) \div 2]
  /\ unwritten' = unwritten \ {word}
  /\ UNCHANGED <<build, seq, writing, readerVars>>

WriteEnd ==
  /\ writing = "copy" /\ Runs("writer")
  /\ unwritten = {}
  /\ seq' = Bump
  /\ writing' = "idle"
  /\ UNCHANGED <<build, unwritten, latest, readerVars>>

Write == WriteBegin \/ (\E word \in Words : WriteWord(word)) \/ WriteEnd

-----------------------------------------------------------------------------
(* A reader: rdd2_rc_input_latest_get                                      *)

\* The control loop calls it once a pass: on the target when the IMU has
\* delivered, in lockstep when the coordinator has given it an input, which
\* it does after the callback has returned.  The crsf shell command calls it
\* at any time and exists only on the target.
MayCall(r) ==
  IF build = "native" THEN TRUE ELSE r = "main" /\ writing = "idle"

Call(r) ==
  /\ reading[r] = "idle"
  /\ MayCall(r)
  /\ reading' = [reading EXCEPT ![r] = "start"]
  /\ seqEnd' = [seqEnd EXCEPT ![r] = 0]
  /\ UNCHANGED <<build, seq, writerVars, uncopied, seqStart, local, returned>>

\* variant: the copy is returned without a second look at g_rc_seq
NeverRetry(start, end) == FALSE
Retry(start, end) == start # end

\* the loop's condition on two numbers: go round again, or return the copy
LeaveOrRetry(r, start, end) ==
  IF Retry(start, end)
  THEN /\ reading' = [reading EXCEPT ![r] = "start"]
       /\ UNCHANGED returned
  ELSE /\ reading' = [reading EXCEPT ![r] = "idle"]
       /\ returned' = [returned EXCEPT ![r] = local[r]]

\* `continue` on an odd number goes to the condition, where seq_end is still
\* the one of the round before, or 0 in the first
ReadStart(r) ==
  /\ reading[r] = "start" /\ Runs(r)
  /\ seqStart' = [seqStart EXCEPT ![r] = seq]
  /\ IF seq % 2 = 1
     THEN /\ LeaveOrRetry(r, seq, seqEnd[r])
          /\ UNCHANGED uncopied
     ELSE /\ reading' = [reading EXCEPT ![r] = "copy"]
          /\ uncopied' = [uncopied EXCEPT ![r] = Words]
          /\ UNCHANGED returned
  /\ UNCHANGED <<build, seq, writerVars, seqEnd, local>>

ReadWord(r, word) ==
  /\ reading[r] = "copy" /\ Runs(r)
  /\ word \in uncopied[r]
  /\ local' = [local EXCEPT ![r][word] = latest[word]]
  /\ uncopied' = [uncopied EXCEPT ![r] = @ \ {word}]
  /\ UNCHANGED <<build, seq, writerVars, reading, seqStart, seqEnd, returned>>

ReadEnd(r) ==
  /\ reading[r] = "copy" /\ Runs(r)
  /\ uncopied[r] = {}
  /\ seqEnd' = [seqEnd EXCEPT ![r] = seq]
  /\ LeaveOrRetry(r, seqStart[r], seq)
  /\ UNCHANGED <<build, seq, writerVars, uncopied, seqStart, local>>

Read(r) ==
  ReadStart(r) \/ (\E word \in Words : ReadWord(r, word)) \/ ReadEnd(r)

-----------------------------------------------------------------------------
(* The specification                                                       *)

Samples == [Words -> 0 .. MaxFrames]
Default == [word \in Words |-> 0]

Init ==
  /\ build \in Builds
  /\ seq = 0 /\ latest = Default
  /\ writing = "idle" /\ unwritten = {}
  /\ reading = [r \in Readers |-> "idle"]
  /\ uncopied = [r \in Readers |-> {}]
  /\ seqStart = [r \in Readers |-> 0] /\ seqEnd = [r \in Readers |-> 0]
  /\ local = [r \in Readers |-> Default] /\ returned = [r \in Readers |-> Default]

Next ==
  \/ Arrive
  \/ Write
  \/ \E r \in Readers : Call(r) \/ Read(r)

\* the scheduler runs the most urgent ready thread; events and calls need not come
Fairness == WF_vars(Write) /\ \A r \in Readers : WF_vars(Read(r))

Spec == Init /\ [][Next]_vars /\ Fairness

-----------------------------------------------------------------------------
(* Properties                                                              *)

\* Every variable holds a value of its kind, and g_rc_seq is odd exactly
\* while the callback stores.
TypeOK ==
  /\ build \in Builds
  /\ seq \in 0 .. 2 * MaxFrames /\ (seq % 2 = 1 <=> writing = "copy")
  /\ latest \in Samples
  /\ writing \in {"idle", "begin", "copy"} /\ unwritten \in SUBSET Words
  /\ reading \in [Readers -> {"idle", "start", "copy"}]
  /\ uncopied \in [Readers -> SUBSET Words]
  /\ seqStart \in [Readers -> 0 .. 2 * MaxFrames]
  /\ seqEnd \in [Readers -> 0 .. 2 * MaxFrames]
  /\ local \in [Readers -> Samples] /\ returned \in [Readers -> Samples]

\* the sample a reader returned with, or no sample at all if its words differ
Returned(r) ==
  IF \E n \in 0 .. MaxFrames : returned[r] = [word \in Words |-> n]
  THEN CHOOSE n \in 0 .. MaxFrames : returned[r] = [word \in Words |-> n]
  ELSE MaxFrames + 1

Register == INSTANCE SampleRegister WITH
  value <- seq \div 2,
  held <- [r \in Readers |-> Returned(r)]

\* Whatever preempts whom, a reader returns with the words of one published
\* sample, and with the newest one: the copy is as good as one atomic load,
\* although `continue` compares numbers of two different rounds.
ReadsAreAtomic == Register!Spec

\* The control loop never stays inside rdd2_rc_input_latest_get: it is not
\* left spinning on an odd sequence number by a writer it has preempted.
LoopReturns == (reading["main"] # "idle") ~> (reading["main"] = "idle")

=============================================================================
