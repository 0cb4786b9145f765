----------------------------- MODULE MCRcInput ------------------------------
(* The RC sample with two words, the fewest that can be torn.              *)
EXTENDS RcInput
=============================================================================
