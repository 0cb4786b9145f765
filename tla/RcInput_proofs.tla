--------------------------- MODULE RcInput_proofs ---------------------------
(***************************************************************************)
(* The copy guarded by g_rc_seq is an atomic register, for any number of   *)
(* words and samples.  The argument is the scheduler's: whoever reads has  *)
(* the core while nobody stores, so a reader never sees an odd number, and *)
(* the comparison of two rounds' numbers that `continue` would make is     *)
(* never made.                                                             *)
(***************************************************************************)
EXTENDS RcInput, TLAPS

-----------------------------------------------------------------------------
(* The strengthened invariant                                              *)

Value == seq \div 2

\* the words stored so far are the new sample's, the others the last one's
StoreInv ==
  /\ writing = "idle" \/ writing = "begin" => unwritten = {}
  /\ \A word \in Words :
       latest[word] = IF writing = "copy" /\ word \notin unwritten THEN Value + 1 ELSE Value
  /\ writing = "copy" => seq < 2 * MaxFrames
  /\ writing = "begin" => seq < 2 * MaxFrames

\* in lockstep the loop is let go when the callback is done, and the callback
\* does not run again before the loop waits
TurnInv ==
  build = "lockstep" =>
    /\ reading["shell"] = "idle"
    /\ reading["main"] # "idle" => writing # "copy"

\* a copy whose number still holds is of one sample
CopyInv ==
  \A r \in Readers :
    /\ reading[r] = "copy" => seqStart[r] % 2 = 0 /\ seqStart[r] <= seq
    /\ reading[r] = "copy" /\ seqStart[r] = seq =>
         \A word \in Words \ uncopied[r] : local[r][word] = Value

\* what a reader returned with is one sample
HeldInv == \A r \in Readers : \E n \in 0 .. MaxFrames : returned[r] = [word \in Words |-> n]

IInv == TypeOK /\ StoreInv /\ TurnInv /\ CopyInv /\ HeldInv

-----------------------------------------------------------------------------
(* Lemmas                                                                  *)

\* Nobody stores while a reader has the core.
LEMMA ReaderAlone ==
  ASSUME IInv, NEW r \in Readers, reading[r] # "idle", Runs(r)
  PROVE  writing # "copy" /\ seq % 2 = 0 /\ \A word \in Words : latest[word] = Value
<1>1. writing # "copy"
  <2>1. build \in Builds /\ "writer" \in Threads /\ writing \in {"idle", "begin", "copy"}
    BY DEF IInv, TypeOK, Threads
  <2>2. CASE build = "native"
    BY <2>1, <2>2 DEF Runs, Ready, Priority, Readers
  <2>3. CASE build = "lockstep"
    BY <2>1, <2>3 DEF IInv, TurnInv, Readers
  <2> QED
    BY <2>1, <2>2, <2>3 DEF Builds
<1>2. seq % 2 = 0
  BY <1>1 DEF IInv, TypeOK
<1> QED
  BY <1>1, <1>2 DEF IInv, StoreInv

\* Counting up by one ends a half or begins one.
LEMMA HalfFacts ==
  ASSUME NEW n \in Nat
  PROVE  /\ n % 2 = 0 => (n + 1) % 2 = 1 /\ (n + 1) \div 2 = n \div 2
         /\ n % 2 = 1 => (n + 1) % 2 = 0 /\ (n + 1) \div 2 = n \div 2 + 1
         /\ n \div 2 \in Nat /\ (n % 2 = 0 \/ n % 2 = 1)
OBVIOUS

\* The value numbers a sample there may be.
LEMMA ValueFacts ==
  ASSUME TypeOK
  PROVE  Value \in 0 .. MaxFrames /\ (seq < 2 * MaxFrames => Value + 1 \in 0 .. MaxFrames)
BY WordsAssumption DEF WordsAssumption, TypeOK, Value

-----------------------------------------------------------------------------
(* The writer                                                              *)

\* A callback that starts changes nothing yet.
LEMMA ArriveInv == ASSUME IInv, Arrive PROVE IInv'
<1>1. TypeOK'
  BY DEF IInv, TypeOK, Arrive, readerVars
<1>2. StoreInv' /\ TurnInv' /\ CopyInv' /\ HeldInv'
  BY DEF IInv, TypeOK, StoreInv, TurnInv, CopyInv, HeldInv, Arrive, readerVars, Value
<1> QED
  BY <1>1, <1>2 DEF IInv

\* The first increment makes the number odd; no reader is between its two looks
\* with that number.
LEMMA WriteBeginInv == ASSUME IInv, WriteBegin PROVE IInv'
<1> USE DEF IInv, WriteBegin, Bump, readerVars
<1>1. seq \in Nat /\ seq % 2 = 0 /\ seq < 2 * MaxFrames /\ MaxFrames \in Nat
  BY HalfFacts, WordsAssumption DEF TypeOK, StoreInv, WordsAssumption
<1>2. (seq + 1) % 2 = 1 /\ Value' = Value
  BY <1>1, HalfFacts DEF Value
<1>3. seq + 1 < 2 * MaxFrames
  BY <1>1
<1>4. TypeOK'
  BY <1>1, <1>2 DEF TypeOK
<1>5. StoreInv'
  BY <1>2, <1>3 DEF StoreInv, TypeOK
<1>6. TurnInv'
  BY DEF TurnInv, Runs, Ready, Priority, Threads, Readers
<1>7. CopyInv'
  BY <1>1 DEF CopyInv, TypeOK
<1>8. HeldInv'
  BY DEF HeldInv
<1> QED
  BY <1>4, <1>5, <1>6, <1>7, <1>8

\* A word stored is a word of the new sample.
LEMMA WriteWordInv == ASSUME IInv, NEW word \in Words, WriteWord(word) PROVE IInv'
<1> USE DEF IInv, WriteWord, readerVars
<1>1. seq \in Nat /\ seq % 2 = 1 /\ seq < 2 * MaxFrames
  BY DEF TypeOK, StoreInv
<1>2. (seq + 1) \div 2 = Value + 1 /\ Value + 1 \in 0 .. MaxFrames /\ Value' = Value
  BY <1>1, HalfFacts, ValueFacts DEF Value
<1>3. latest' \in Samples
  BY <1>2 DEF TypeOK, Samples
<1>4. TypeOK'
  BY <1>3 DEF TypeOK
<1>5. StoreInv'
  BY <1>2 DEF StoreInv, TypeOK, Samples
<1>6. TurnInv' /\ CopyInv' /\ HeldInv'
  BY <1>2 DEF TurnInv, CopyInv, HeldInv
<1> QED
  BY <1>4, <1>5, <1>6

\* The second increment publishes the sample.
LEMMA WriteEndInv == ASSUME IInv, WriteEnd PROVE IInv'
<1> USE DEF IInv, WriteEnd, Bump, readerVars
<1>1. seq \in Nat /\ seq % 2 = 1 /\ seq < 2 * MaxFrames /\ MaxFrames \in Nat
  BY WordsAssumption DEF TypeOK, StoreInv, WordsAssumption
<1>2. (seq + 1) % 2 = 0 /\ Value' = Value + 1
  BY <1>1, HalfFacts DEF Value
<1>4. TypeOK'
  BY <1>1, <1>2 DEF TypeOK
<1>5. StoreInv'
  BY <1>2 DEF StoreInv
<1>6. TurnInv'
  BY DEF TurnInv
<1>7. CopyInv'
  BY <1>1 DEF CopyInv, TypeOK
<1>8. HeldInv'
  BY DEF HeldInv
<1> QED
  BY <1>4, <1>5, <1>6, <1>7, <1>8

-----------------------------------------------------------------------------
(* The readers                                                             *)

\* A reader may be called where no store is under way that it would outrun.
LEMMA CallInv == ASSUME IInv, NEW r \in Readers, Call(r) PROVE IInv'
<1> USE DEF IInv, Call, writerVars
<1>1. TypeOK'
  BY WordsAssumption DEF TypeOK, WordsAssumption
<1>2. StoreInv'
  BY DEF StoreInv, Value
<1>3. TurnInv'
  BY DEF TurnInv, MayCall, TypeOK, Readers
<1>4. CopyInv' /\ HeldInv'
  BY DEF CopyInv, HeldInv, TypeOK, Value
<1> QED
  BY <1>1, <1>2, <1>3, <1>4

\* A first look at the number finds it even.
LEMMA ReadStartInv == ASSUME IInv, NEW r \in Readers, ReadStart(r) PROVE IInv'
<1> USE DEF IInv, writerVars
<1>1. seq % 2 = 0
  BY ReaderAlone DEF ReadStart
<1>2. /\ seqStart' = [seqStart EXCEPT ![r] = seq]
      /\ reading' = [reading EXCEPT ![r] = "copy"]
      /\ uncopied' = [uncopied EXCEPT ![r] = Words]
      /\ UNCHANGED <<build, seq, writerVars, seqEnd, local, returned>>
  BY <1>1 DEF ReadStart
<1>3. TypeOK'
  BY <1>2 DEF TypeOK
<1>4. StoreInv' /\ HeldInv'
  BY <1>2 DEF StoreInv, HeldInv, Value
<1>5. TurnInv'
  BY <1>2 DEF TurnInv, ReadStart, TypeOK, Readers
<1>6. CopyInv'
  BY <1>1, <1>2 DEF CopyInv, TypeOK, Value
<1> QED
  BY <1>3, <1>4, <1>5, <1>6

\* A word copied is a word of the sample whose number holds.
LEMMA ReadWordInv ==
  ASSUME IInv, NEW r \in Readers, NEW word \in Words, ReadWord(r, word) PROVE IInv'
<1> USE DEF IInv, ReadWord, writerVars
<1>1. latest[word] = Value /\ Value \in 0 .. MaxFrames
  BY ReaderAlone, ValueFacts
<1>2. local' \in [Readers -> Samples]
  BY <1>1 DEF TypeOK, Samples
<1>3. TypeOK'
  BY <1>2 DEF TypeOK
<1>4. StoreInv' /\ TurnInv' /\ HeldInv'
  BY DEF StoreInv, TurnInv, HeldInv, Value
<1>5. CopyInv'
  BY <1>1 DEF CopyInv, TypeOK, Samples, Value
<1> QED
  BY <1>3, <1>4, <1>5

\* The second look: the copy is returned if the number is the first look's.
LEMMA ReadEndFacts ==
  ASSUME IInv, NEW r \in Readers, ReadEnd(r)
  PROVE  \/ /\ seqStart[r] # seq
            /\ reading' = [reading EXCEPT ![r] = "start"] /\ returned' = returned
         \/ /\ seqStart[r] = seq /\ local[r] = [word \in Words |-> Value]
            /\ reading' = [reading EXCEPT ![r] = "idle"]
            /\ returned' = [returned EXCEPT ![r] = [word \in Words |-> Value]]
<1>1. CASE seqStart[r] = seq
  <2>1. local[r] = [word \in Words |-> Value]
    BY <1>1 DEF IInv, CopyInv, TypeOK, Samples, ReadEnd
  <2> QED
    BY <1>1, <2>1 DEF ReadEnd, LeaveOrRetry, Retry
<1> QED
  BY <1>1 DEF ReadEnd, LeaveOrRetry, Retry

\* A reader that ends keeps the invariant.
LEMMA ReadEndInv == ASSUME IInv, NEW r \in Readers, ReadEnd(r) PROVE IInv'
<1>1. Value \in 0 .. MaxFrames /\ [word \in Words |-> Value] \in Samples
  BY ValueFacts DEF IInv, Samples
<1>2. TypeOK'
  BY <1>1, ReadEndFacts DEF ReadEnd, IInv, TypeOK, writerVars
<1>3. StoreInv'
  BY DEF ReadEnd, IInv, StoreInv, Value, writerVars
<1>4. TurnInv'
  BY ReadEndFacts DEF ReadEnd, IInv, TurnInv, TypeOK, Readers, writerVars
<1>5. CopyInv'
  BY ReadEndFacts DEF ReadEnd, IInv, CopyInv, TypeOK, Value, writerVars
<1>6. HeldInv'
  <2> SUFFICES ASSUME NEW s \in Readers
               PROVE  \E n \in 0 .. MaxFrames : returned'[s] = [word \in Words |-> n]
    BY DEF HeldInv
  <2>1. PICK n \in 0 .. MaxFrames : returned[s] = [word \in Words |-> n]
    BY DEF IInv, HeldInv
  <2>2. returned \in [Readers -> Samples]
    BY DEF IInv, TypeOK
  <2>3. CASE returned'[s] = returned[s]
    BY <2>1, <2>3
  <2>4. CASE returned'[s] = [word \in Words |-> Value]
    BY <1>1, <2>4
  <2> QED
    BY <2>2, <2>3, <2>4, ReadEndFacts
<1> QED
  BY <1>2, <1>3, <1>4, <1>5, <1>6 DEF IInv

-----------------------------------------------------------------------------
(* The theorems                                                            *)

\* Every behaviour keeps the invariant.
THEOREM Inductive == Spec => []IInv
<1>1. Init => IInv
  <2> SUFFICES ASSUME Init PROVE IInv
    OBVIOUS
  <2>1. TypeOK
    BY WordsAssumption DEF Init, TypeOK, Samples, Default, WordsAssumption
  <2>2. StoreInv /\ TurnInv /\ CopyInv
    BY DEF Init, StoreInv, TurnInv, CopyInv, Value, Default, Readers
  <2>3. HeldInv
    BY WordsAssumption DEF Init, HeldInv, Default, WordsAssumption
  <2> QED
    BY <2>1, <2>2, <2>3 DEF IInv
<1>2. IInv /\ [Next]_vars => IInv'
  <2> SUFFICES ASSUME IInv, [Next]_vars PROVE IInv'
    OBVIOUS
  <2>1. CASE Arrive
    BY <2>1, ArriveInv
  <2>2. CASE Write
    BY <2>2, WriteBeginInv, WriteWordInv, WriteEndInv DEF Write
  <2>3. CASE \E r \in Readers : Call(r) \/ Read(r)
    BY <2>3, CallInv, ReadStartInv, ReadWordInv, ReadEndInv DEF Read
  <2>4. CASE UNCHANGED vars
    <3>1. TypeOK'
      BY <2>4 DEF IInv, TypeOK, vars, writerVars, readerVars
    <3> QED
      BY <2>4, <3>1 DEF IInv, StoreInv, TurnInv, CopyInv, HeldInv, Value, vars, writerVars, readerVars
  <2> QED
    BY <2>1, <2>2, <2>3, <2>4 DEF Next
<1> QED
  BY <1>1, <1>2, PTL DEF Spec

\* Every variable holds a value of its kind, and g_rc_seq is odd exactly while
\* the callback stores.
THEOREM TypeCorrect == Spec => []TypeOK
<1>1. IInv => TypeOK
  BY DEF IInv
<1> QED
  BY <1>1, Inductive, PTL

\* The number of the sample whose words these are.
LEMMA ReturnedFacts ==
  ASSUME NEW r \in Readers, NEW n \in 0 .. MaxFrames, returned[r] = [word \in Words |-> n]
  PROVE  Returned(r) = n
<1> DEFINE C == CHOOSE m \in 0 .. MaxFrames : returned[r] = [word \in Words |-> m]
<1>1. C \in 0 .. MaxFrames /\ returned[r] = [word \in Words |-> C]
  OBVIOUS
<1>2. PICK word \in Words : TRUE
  BY WordsAssumption DEF WordsAssumption
<1>3. C = n
  BY <1>1, <1>2
<1> QED
  BY <1>3 DEF Returned

\* So it is after a step.
LEMMA ReturnedThen ==
  ASSUME NEW r \in Readers, NEW n \in 0 .. MaxFrames, returned'[r] = [word \in Words |-> n]
  PROVE  Returned(r)' = n
<1> DEFINE C == CHOOSE m \in 0 .. MaxFrames : returned'[r] = [word \in Words |-> m]
<1>1. C \in 0 .. MaxFrames /\ returned'[r] = [word \in Words |-> C]
  OBVIOUS
<1>2. PICK word \in Words : TRUE
  BY WordsAssumption DEF WordsAssumption
<1>3. C = n
  BY <1>1, <1>2
<1> QED
  BY <1>3 DEF Returned

\* Readers that share one core with a writer by priority see a register that
\* is written and read in one step: the guarded copy implements the atomic one.
THEOREM Atomic == Spec => ReadsAreAtomic
<1> DEFINE Held == [r \in Readers |-> Returned(r)]
<1>1. Init => Register!Init
  <2> SUFFICES ASSUME Init PROVE Register!Init
    OBVIOUS
  <2>1. \A r \in Readers : Returned(r) = 0
    BY ReturnedFacts, WordsAssumption DEF Init, Default, WordsAssumption
  <2> QED
    BY <2>1 DEF Init, Register!Init
<1>2. IInv /\ [Next]_vars => [Register!Next]_Register!vars
  <2> SUFFICES ASSUME IInv, [Next]_vars PROVE [Register!Next]_Register!vars
    OBVIOUS
  <2>1. seq \in Nat /\ MaxFrames \in Nat
    BY WordsAssumption DEF IInv, TypeOK, WordsAssumption
  <2>2. returned' = returned => Held' = Held
    BY DEF Returned
  <2>3. CASE Arrive \/ \E word \in Words : WriteWord(word)
    BY <2>2, <2>3 DEF Arrive, WriteWord, readerVars, Register!vars
  <2>4. CASE WriteBegin
    <3>1. seq % 2 = 0
      BY <2>4 DEF WriteBegin, IInv, TypeOK
    <3>2. seq' \div 2 = seq \div 2
      BY <2>1, <2>4, <3>1, HalfFacts DEF WriteBegin, Bump
    <3> QED
      BY <2>2, <2>4, <3>2 DEF WriteBegin, readerVars, Register!vars
  <2>5. CASE WriteEnd
    <3>1. seq % 2 = 1
      BY <2>5 DEF WriteEnd, IInv, TypeOK
    <3>2. seq' \div 2 = seq \div 2 + 1
      BY <2>1, <2>5, <3>1, HalfFacts DEF WriteEnd, Bump
    <3> QED
      BY <2>2, <2>5, <3>2 DEF WriteEnd, readerVars, Register!Next, Register!Write
  <2>6. CASE \E r \in Readers : Call(r) \/ \E word \in Words : ReadWord(r, word)
    BY <2>2, <2>6 DEF Call, ReadWord, Register!vars
  <2>7. CASE \E r \in Readers : ReadStart(r)
    <3>1. PICK r \in Readers : ReadStart(r)
      BY <2>7
    <3>2. seq % 2 = 0
      BY <3>1, ReaderAlone DEF ReadStart
    <3> QED
      BY <2>2, <3>1, <3>2 DEF ReadStart, Register!vars
  <2>8. CASE \E r \in Readers : ReadEnd(r)
    <3>1. PICK r \in Readers : ReadEnd(r)
      BY <2>8
    <3>2. seq' = seq
      BY <3>1 DEF ReadEnd
    <3>3. CASE returned' = returned
      BY <2>2, <3>2, <3>3 DEF Register!vars
    <3>4. CASE returned' = [returned EXCEPT ![r] = [word \in Words |-> Value]]
      <4>1. Value \in 0 .. MaxFrames /\ returned \in [Readers -> Samples]
        BY ValueFacts DEF IInv, TypeOK
      <4>2. returned'[r] = [word \in Words |-> Value]
        BY <3>4, <4>1
      <4>3. Returned(r)' = Value
        BY <4>1, <4>2, ReturnedThen
      <4>4. \A s \in Readers \ {r} : Returned(s)' = Returned(s)
        BY <3>4, <4>1 DEF Returned
      <4>5. Held' = [Held EXCEPT ![r] = Value]
        BY <4>3, <4>4
      <4> QED
        BY <3>2, <4>5 DEF Register!Next, Register!Read, Value
    <3> QED
      BY <3>1, <3>3, <3>4, ReadEndFacts
  <2>9. CASE UNCHANGED vars
    BY <2>2, <2>9 DEF vars, readerVars, Register!vars
  <2> QED
    BY <2>3, <2>4, <2>5, <2>6, <2>7, <2>8, <2>9 DEF Next, Write, Read
<1> QED
  BY <1>1, <1>2, Inductive, PTL DEF Spec, ReadsAreAtomic, Register!Spec

=============================================================================
