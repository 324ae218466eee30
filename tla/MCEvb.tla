-------------------------------- MODULE MCEvb --------------------------------
(* Instances of Evb for TLC.                                                   *)
EXTENDS Evb
=============================================================================
