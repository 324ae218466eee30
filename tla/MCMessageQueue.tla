--------------------------- MODULE MCMessageQueue ---------------------------
(***************************************************************************)
(* Two senders, three frames of which one is an out-of-date timer frame,   *)
(* and a queue that is run, stopped and run again.                         *)
(***************************************************************************)
EXTENDS MessageQueue

CONSTANTS s1, s2, m1, m2, m3
=============================================================================
