----------------------------- MODULE MCSerialTx -----------------------------
(* Two topics, a ring with room for one frame and a half, and two scans.   *)
EXTENDS SerialTx
=============================================================================
