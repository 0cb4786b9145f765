----------------------------- MODULE MCSerialRx -----------------------------
(* Frames of the wanted topic with the sync word in the payload and with   *)
(* its halves apart, one of another size, and one of a topic not wanted.   *)
EXTENDS SerialRx

MCFrames ==
  {[topic |-> 1, payload |-> p] : p \in {<<5, 6, 1>>, <<6, 1, 5>>, <<1>>}} \cup
  {[topic |-> 2, payload |-> <<5>>]}

\* no length, short, sync and long ones, and one beyond the buffer
MCNoise == {0, 1, 4, 5, 6, 7}
=============================================================================
