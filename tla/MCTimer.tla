------------------------------ MODULE MCTimer ------------------------------
(***************************************************************************)
(* Instances of Timer: two clients, each served by a thread of its own.    *)
(***************************************************************************)
EXTENDS Timer, TLC

CONSTANTS c1, c2, th1, th2

OneThreadEach == (th1 :> c1) @@ (th2 :> c2)

\* Exchanging both clients together with their threads leaves Owner unchanged.
Swap == {(c1 :> c2) @@ (c2 :> c1) @@ (th1 :> th2) @@ (th2 :> th1)}
=============================================================================
