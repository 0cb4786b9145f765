--------------------------- MODULE SampleRegister ---------------------------
(***************************************************************************)
(* What rdd2_rc_input_latest_get promises its callers: the RC sample is a  *)
(* register that is written and read in one step.  Samples are numbered in *)
(* the order they are published; 0 is the default of rdd2_rc_input_init.   *)
(***************************************************************************)
EXTENDS Naturals

CONSTANT Readers

VARIABLES
  value,   \* the number of the sample in the register
  held     \* the number of the sample each reader last returned with

vars == <<value, held>>

Init == value = 0 /\ held = [r \in Readers |-> 0]

Write == value' = value + 1 /\ UNCHANGED held

Read(r) == held' = [held EXCEPT ![r] = value] /\ UNCHANGED value

Next == Write \/ \E r \in Readers : Read(r)

Spec == Init /\ [][Next]_vars

=============================================================================
