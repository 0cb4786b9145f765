---------------------------- MODULE MCFlightLoop ----------------------------
(* The control loop with small dividers for TLC.                           *)
EXTENDS FlightLoop
=============================================================================
