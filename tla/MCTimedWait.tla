---------------------------- MODULE MCTimedWait ----------------------------
(***************************************************************************)
(* Six calls of Wait and two frames of other units.                        *)
(***************************************************************************)
EXTENDS TimedWait

CONSTANTS m1, m2
=============================================================================
