----------------------------- MODULE PoolPromise ----------------------------
(***************************************************************************)
(* What a ThreadPool promises those who hand it works: works are begun in  *)
(* the order in which they were assigned, each at most once; a             *)
(* cancellation takes out the earliest assigned work of that name, and     *)
(* such a work is never begun and stays the caller's; only a work that was *)
(* begun is deleted, until the pool is closed, which happens once, deletes *)
(* every work that still waits and may delete works that are being         *)
(* executed.                                                               *)
(***************************************************************************)
EXTENDS Naturals, Sequences

CONSTANTS
  Works,
  Name    \* the name of each work

VARIABLES
  fresh,    \* not yet assigned
  queue,    \* assigned and not yet begun, in order
  begun,    \* given to a thread
  gone,     \* deleted
  closed    \* the pool was destroyed

Init == fresh = Works /\ queue = <<>> /\ begun = {} /\ gone = {} /\ closed = FALSE

Assign(w) ==
  /\ ~closed
  /\ w \in fresh
  /\ fresh' = fresh \ {w}
  /\ queue' = Append(queue, w)
  /\ UNCHANGED <<begun, gone, closed>>

Begin ==
  /\ ~closed
  /\ queue # <<>>
  /\ Head(queue) \notin begun \cup gone
  /\ begun' = begun \cup {Head(queue)}
  /\ queue' = Tail(queue)
  /\ UNCHANGED <<fresh, gone, closed>>

Cancel(i) ==
  /\ ~closed
  /\ i \in DOMAIN queue
  /\ \A j \in DOMAIN queue : j < i => Name[queue[j]] # Name[queue[i]]
  /\ queue' = SubSeq(queue, 1, i - 1) \o SubSeq(queue, i + 1, Len(queue))
  /\ UNCHANGED <<fresh, begun, gone, closed>>

Delete(w) ==
  /\ w \in begun
  /\ gone' = gone \cup {w}
  /\ UNCHANGED <<fresh, queue, begun, closed>>

Close ==
  /\ ~closed
  /\ closed' = TRUE
  /\ queue' = <<>>
  /\ \E abandoned \in SUBSET begun :
       gone' = gone \cup abandoned \cup {queue[i] : i \in DOMAIN queue}
  /\ UNCHANGED <<fresh, begun>>

Next ==
  \/ \E w \in Works : Assign(w) \/ Delete(w)
  \/ Begin
  \/ \E i \in DOMAIN queue : Cancel(i)
  \/ Close

Spec == Init /\ [][Next]_<<fresh, queue, begun, gone, closed>>
=============================================================================
