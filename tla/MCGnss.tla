------------------------------- MODULE MCGnss --------------------------------
(* Three reports with numbers at and beyond the ends of the fix's fields,   *)
(* one of them without a fix and with the least vertical speed; a frame of  *)
(* another kind, one of a wrong length, one with the sync word in its       *)
(* payload and one too long to buffer.                                      *)
EXTENDS Gnss

MCPvts == <<
  [position |-> "a", accuracy |-> 70000, dop |-> 150, speed |-> 149, down |-> -7, heading |-> -1500,
   ok |-> TRUE, carrier |-> "none", type |-> "3D", satellites |-> 9, timeValid |-> TRUE,
   year |-> 2100, month |-> 3, day |-> 1, hour |-> 23, minute |-> 59, second |-> 59],
  [position |-> "b", accuracy |-> 800, dop |-> 70000, speed |-> -5, down |-> 2147483647,
   heading |-> 36000000, ok |-> TRUE, carrier |-> "floating", type |-> "2D", satellites |-> 5,
   timeValid |-> TRUE, year |-> 2024, month |-> 2, day |-> 29, hour |-> 0, minute |-> 0,
   second |-> 60],
  [position |-> "c", accuracy |-> 65536, dop |-> 65535, speed |-> 2147483647,
   down |-> -2147483647 - 1, heading |-> -2100000000, ok |-> FALSE, carrier |-> "fixed",
   type |-> "3D", satellites |-> 3, timeValid |-> TRUE, year |-> 1970, month |-> 1, day |-> 1,
   hour |-> 0, minute |-> 0, second |-> 0]>>

MCFrames ==
  {[kind |-> 3, payload |-> <<i, 0>>] : i \in 1 .. 3} \cup
  {[kind |-> 2, payload |-> <<2, 0>>], [kind |-> 3, payload |-> <<5, 6, 1>>],
   [kind |-> 2, payload |-> <<1, 2, 3, 1>>]}

\* NAV-PVT's kind, which is also a length that fits the buffer, and a sync
\* character, which is also one that does not
MCNoise == {3, 5}
=============================================================================
