---------------------------- MODULE MCImuStream -----------------------------
(* The IMU stream with a small pool, a small queue and a few faults.       *)
EXTENDS ImuStream
=============================================================================
