---------------------------- MODULE MCThreadPool ----------------------------
(***************************************************************************)
(* Two pool threads and three works, two of which have the same name.      *)
(***************************************************************************)
EXTENDS ThreadPool, TLC

CONSTANTS t1, t2, w1, w2, w3, n1, n2

TwoNames == (w1 :> n1) @@ (w2 :> n1) @@ (w3 :> n2)
=============================================================================
