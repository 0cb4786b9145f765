------------------------------- MODULE MCDshot -------------------------------
(* Two channels, each plain or bidirectional.                              *)
EXTENDS Dshot
=============================================================================
