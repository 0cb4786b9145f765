---------------------------- MODULE MCLockstep ------------------------------
(* The lockstep exchange with a microsecond of three units, a period of    *)
(* six, and a plant step of ten and a third, rounded to whole units.       *)
EXTENDS Lockstep

MCPlantTime == [n \in 0 .. MaxExchanges + 1 |-> (62 * n + 3) \div 6]
=============================================================================
