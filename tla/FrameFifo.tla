----------------------------- MODULE FrameFifo -----------------------------
(***************************************************************************)
(* What a MessageQueue promises its senders and its handler: frames reach  *)
(* the handler one at a time and in the order in which they were accepted, *)
(* none twice; an out-of-date timer frame is passed over; and a frame is   *)
(* abandoned only once the queue has been told to stop.                    *)
(***************************************************************************)
EXTENDS Sequences

CONSTANTS
  Msgs,   \* frames
  Stale   \* timer frames that ValidateTimer refuses

VARIABLES
  pending,    \* accepted and not yet handled, in order
  handled,    \* given to the handler, in order
  stopping    \* Stop has been called

Init == pending = <<>> /\ handled = <<>> /\ stopping = FALSE

Accept(m) == pending' = Append(pending, m) /\ UNCHANGED <<handled, stopping>>

Take ==
  /\ pending # <<>>
  /\ pending' = Tail(pending)
  /\ handled' = IF Head(pending) \in Stale THEN handled
                                           ELSE Append(handled, Head(pending))
  /\ UNCHANGED stopping

RequestStop == stopping' = TRUE /\ UNCHANGED <<pending, handled>>

Abandon ==
  /\ stopping
  /\ pending # <<>>
  /\ pending' = Tail(pending)
  /\ UNCHANGED <<handled, stopping>>

Next == (\E m \in Msgs : Accept(m)) \/ Take \/ RequestStop \/ Abandon

Spec == Init /\ [][Next]_<<pending, handled, stopping>>
=============================================================================
