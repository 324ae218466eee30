------------------------- MODULE MessageQueueProofs -------------------------
(***************************************************************************)
(* Theorems about MessageQueue for every number of senders and frames and  *)
(* every number of runs and stops.                                         *)
(***************************************************************************)
EXTENDS MessageQueue, SequenceTheorems, TLAPS

\* Once Stop has returned there is no work thread (message_queue.cpp:271-282).
THEOREM StopLeavesNoWorker == Spec => []NoWorkerAfterStop
<1>1. Init => NoWorkerAfterStop
  BY DEF Init, NoWorkerAfterStop
<1>2. NoWorkerAfterStop /\ [Next]_vars => NoWorkerAfterStop'
  <2> SUFFICES ASSUME NoWorkerAfterStop, [Next]_vars PROVE NoWorkerAfterStop'
    OBVIOUS
  <2> USE DEF NoWorkerAfterStop
  <2>1. ASSUME NEW s \in Senders, Receive(s) \/ ReceiveLocked(s) PROVE NoWorkerAfterStop'
    BY <2>1 DEF Receive, ReceiveLocked, AfterPush, Signalled
  <2>2. CASE WorkerStep \/ SpuriousWakeup
    BY <2>2 DEF WorkerStep, SpuriousWakeup, EnterWait, Lock, TestEmpty, CondWait, CheckWoken,
                TakeFrame, CheckPopped, Dispatch, WorkerTo, WillStop
  <2>3. CASE Run \/ Stop \/ StopNoThread
    BY <2>3 DEF Run, Stop, StopNoThread, ControlTo
  <2>4. CASE ControlStep
    BY <2>4 DEF ControlStep, RunStored, StopSignal, StopJoin, Joined, Signalled, ControlTo
  <2>5. CASE UNCHANGED vars
    BY <2>5 DEF vars
  <2> QED BY <2>1, <2>2, <2>3, <2>4, <2>5 DEF Next
<1> QED BY <1>1, <1>2, PTL DEF Spec

\* Every variable keeps its type and the mutex is held exactly where the code
\* of Wait holds it (message_queue.cpp:114-140).  Run starts a thread only where there
\* is none, so the theorem rests on the one before.
THEOREM QueueTypeCorrect == Spec => []TypeOK
<1> USE QueueAssumption, NoMsgAssumption DEF Holding, WorkerPlaces, ControlPlaces
<1>1. Init => TypeOK
  <2>1. Init => NoMsg \in Msgs \cup {NoMsg} /\ <<>> \in Seq(Msgs) /\ 0 \in 0..MaxRuns
    OBVIOUS
  <2> QED BY <2>1 DEF Init, TypeOK
<1>2. TypeOK /\ NoWorkerAfterStop /\ [Next]_vars => TypeOK'
  <2> SUFFICES ASSUME TypeOK, NoWorkerAfterStop, [Next]_vars PROVE TypeOK'
    OBVIOUS
  <2> USE DEF TypeOK
  <2>1. ASSUME NEW s \in Senders, Receive(s) PROVE TypeOK'
    BY <2>1 DEF Receive
  <2>2. ASSUME NEW s \in Senders, ReceiveLocked(s) PROVE TypeOK'
    BY <2>2 DEF ReceiveLocked, AfterPush, Signalled
  <2>3. CASE EnterWait
    BY <2>3 DEF EnterWait, WorkerTo
  <2>4. CASE Lock
    BY <2>4 DEF Lock, WorkerTo
  <2>5. CASE TestEmpty
    BY <2>5 DEF TestEmpty, WorkerTo, HeldAfterCheck, WillStop
  <2>6. CASE CondWait
    BY <2>6 DEF CondWait, WorkerTo
  <2>7. CASE SpuriousWakeup
    BY <2>7 DEF SpuriousWakeup, WorkerTo
  <2>8. CASE CheckWoken
    BY <2>8 DEF CheckWoken, WorkerTo, HeldAfterCheck, WillStop
  <2>9. CASE TakeFrame
    <3>1. Head(frames) \in Msgs /\ Tail(frames) \in Seq(Msgs)
      BY <2>9 DEF TakeFrame
    <3> QED BY <2>9, <3>1 DEF TakeFrame, Pop
  <2>10. CASE CheckPopped
    BY <2>10 DEF CheckPopped
  <2>11. CASE Dispatch
    BY <2>11 DEF Dispatch
  <2>12. CASE Run
    BY <2>12 DEF Run, ControlTo, NoWorkerAfterStop
  <2>13. CASE RunStored
    BY <2>13 DEF RunStored, ControlTo
  <2>14. CASE StopNoThread
    BY <2>14 DEF StopNoThread, ControlTo
  <2>15. CASE Stop
    BY <2>15 DEF Stop, ControlTo
  <2>16. CASE StopSignal
    BY <2>16 DEF StopSignal, ControlTo, Signalled
  <2>17. CASE StopJoin
    BY <2>17 DEF StopJoin, ControlTo, Joined
  <2>18. CASE UNCHANGED vars
    BY <2>18 DEF vars
  <2> QED BY <2>1, <2>2, <2>3, <2>4, <2>5, <2>6, <2>7, <2>8, <2>9, <2>10, <2>11, <2>12,
             <2>13, <2>14, <2>15, <2>16, <2>17, <2>18 DEF Next, WorkerStep, ControlStep
<1> QED BY <1>1, <1>2, StopLeavesNoWorker, PTL DEF Spec

\* The frames the abstract queue holds: the popped one and those behind it.
Pending == IF hand = NoMsg THEN frames ELSE <<hand>> \o frames

\* Popping the first frame moves it from the queue into the thread's hand.
LEMMA HeadAndTail ==
  ASSUME NEW S, NEW s \in Seq(S), s # <<>>
  PROVE  <<Head(s)>> \o Tail(s) = s
<1> DEFINE t == <<Head(s)>> \o Tail(s)
<1>1. Head(s) \in S /\ Tail(s) \in Seq(S) /\ Len(s) \in Nat /\ Len(s) > 0
  OBVIOUS
<1>2. Len(Tail(s)) = Len(s) - 1 /\ \A i \in 1..(Len(s) - 1) : Tail(s)[i] = s[i + 1]
  OBVIOUS
<1>3. <<Head(s)>> \in Seq(S) /\ Len(<<Head(s)>>) = 1 /\ <<Head(s)>>[1] = s[1]
  BY <1>1
<1>4. t \in Seq(S) /\ Len(t) = Len(s)
  BY <1>1, <1>2, <1>3
<1>5. \A i \in 1..Len(s) : t[i] = s[i]
  BY <1>1, <1>2, <1>3
<1> HIDE DEF t
<1> QED BY <1>4, <1>5, SeqEqual

\* The frame in hand is the first of the pending ones.
LEMMA HandFirst ==
  ASSUME TypeOK, hand # NoMsg
  PROVE  Pending # <<>> /\ Head(Pending) = hand /\ Tail(Pending) = frames
<1>1. Pending = <<hand>> \o frames /\ frames \in Seq(Msgs) /\ hand \in Msgs
  BY DEF Pending, TypeOK
<1> DEFINE p == <<hand>> \o frames
<1>2. <<hand>> \in Seq(Msgs) /\ Len(<<hand>>) = 1 /\ <<hand>>[1] = hand
  BY <1>1
<1>3. p \in Seq(Msgs) /\ Len(p) = Len(frames) + 1 /\ p[1] = hand
      /\ \A i \in 1..Len(frames) : p[i + 1] = frames[i]
  BY <1>1, <1>2
<1> HIDE DEF p
<1>4. p # <<>> /\ Head(p) = hand
  BY <1>1, <1>3
<1>5. Tail(p) \in Seq(Msgs) /\ Len(Tail(p)) = Len(frames)
      /\ \A i \in 1..Len(frames) : Tail(p)[i] = frames[i]
  BY <1>1, <1>3
<1>6. Tail(p) = frames
  BY <1>1, <1>5, SeqEqual
<1> QED BY <1>1, <1>4, <1>6 DEF p

\* A push behind the queue is a push behind the pending frames.
LEMMA PushBehind ==
  ASSUME TypeOK, NEW m \in Msgs
  PROVE  (<<hand>> \o Append(frames, m)) = Append(<<hand>> \o frames, m)
<1>1. frames \in Seq(Msgs) /\ <<hand>> \in Seq(Msgs \cup {NoMsg}) /\ Len(<<hand>>) = 1
  BY DEF TypeOK
<1>2. frames \in Seq(Msgs \cup {NoMsg}) /\ m \in Msgs \cup {NoMsg}
  BY <1>1
<1> DEFINE a == <<hand>> \o Append(frames, m)
           b == Append(<<hand>> \o frames, m)
<1>3. /\ a \in Seq(Msgs \cup {NoMsg}) /\ b \in Seq(Msgs \cup {NoMsg})
      /\ Len(a) = Len(frames) + 2 /\ Len(b) = Len(frames) + 2
  BY <1>1, <1>2
<1>4. \A i \in 1..Len(a) : a[i] = b[i]
  BY <1>1, <1>2, <1>3
<1> HIDE DEF a, b
<1>5. a = b
  BY <1>3, <1>4, SeqEqual
<1> QED BY <1>5 DEF a, b

\* A step of the abstract queue, written with its state spelled out.
AbstractStep ==
  \/ \E m \in Msgs : /\ Pending' = Append(Pending, m)
                     /\ UNCHANGED <<handled, willBeStopped>>
  \/ /\ Pending # <<>> /\ Pending' = Tail(Pending)
     /\ handled' = IF Head(Pending) \in Stale THEN handled
                                              ELSE Append(handled, Head(Pending))
     /\ UNCHANGED willBeStopped
  \/ willBeStopped' = TRUE /\ UNCHANGED <<Pending, handled>>
  \/ willBeStopped /\ Pending # <<>> /\ Pending' = Tail(Pending)
     /\ UNCHANGED <<handled, willBeStopped>>
  \/ UNCHANGED <<Pending, handled, willBeStopped>>

\* Every step of the threads is a step of the abstract queue or invisible to it.
LEMMA StepRefines ==
  ASSUME TypeOK, [Next]_vars
  PROVE  AbstractStep
<1> USE QueueAssumption, NoMsgAssumption
<1>1. ASSUME UNCHANGED <<frames, hand, handled, willBeStopped>> PROVE AbstractStep
  BY <1>1 DEF AbstractStep, Pending
<1>2. ASSUME NEW s \in Senders, ReceiveLocked(s) PROVE AbstractStep
  <2> DEFINE m == sender[s]
  <2>1. /\ m \in Msgs /\ frames' = Append(frames, m)
        /\ UNCHANGED <<hand, handled, willBeStopped>>
    BY <1>2 DEF ReceiveLocked, TypeOK
  <2> HIDE DEF m
  <2>2. Pending' = Append(Pending, m)
    BY <2>1, PushBehind DEF Pending
  <2> QED BY <2>1, <2>2 DEF AbstractStep
<1>3. CASE TakeFrame
  <2>1. /\ hand = NoMsg /\ frames # <<>> /\ hand' = Head(frames) /\ frames' = Tail(frames)
        /\ UNCHANGED <<handled, willBeStopped>>
    BY <1>3 DEF TakeFrame, Pop, TypeOK
  <2>2. frames \in Seq(Msgs) /\ Head(frames) \in Msgs
    BY <2>1 DEF TypeOK
  <2>3. <<Head(frames)>> \o Tail(frames) = frames
    BY <2>1, <2>2, HeadAndTail
  <2>4. Pending' = Pending
    BY <2>1, <2>2, <2>3 DEF Pending
  <2> QED BY <2>1, <2>4 DEF AbstractStep
<1>4. CASE CheckPopped
  <2>1. hand # NoMsg /\ UNCHANGED <<frames, handled, willBeStopped>>
    BY <1>4 DEF CheckPopped, TypeOK
  <2>2. Pending # <<>> /\ Head(Pending) = hand /\ Tail(Pending) = frames
    BY <2>1, HandFirst
  <2>3. CASE hand' = hand
    BY <1>1, <2>1, <2>3
  <2>4. CASE hand' # hand
    <3>1. hand' = NoMsg /\ (WillStop \/ hand \in Stale)
      BY <1>4, <2>4 DEF CheckPopped
    <3>2. Pending' = Tail(Pending)
      BY <2>1, <2>2, <3>1 DEF Pending
    <3> QED BY <2>1, <2>2, <3>1, <3>2 DEF AbstractStep, WillStop
  <2> QED BY <2>3, <2>4
<1>5. CASE Dispatch
  <2>1. /\ hand # NoMsg /\ hand' = NoMsg /\ handled' = Append(handled, hand)
        /\ UNCHANGED <<frames, willBeStopped>>
    BY <1>5 DEF Dispatch, TypeOK
  <2>2. Pending # <<>> /\ Head(Pending) = hand /\ Tail(Pending) = frames
    BY <2>1, HandFirst
  <2>3. Pending' = Tail(Pending)
    BY <2>1, <2>2 DEF Pending
  <2>4. hand \notin Stale
    BY <1>5 DEF Dispatch, TypeOK
  <2> QED BY <2>1, <2>2, <2>3, <2>4 DEF AbstractStep
<1>6. CASE Stop
  BY <1>6 DEF Stop, ControlTo, AbstractStep, Pending
<1>7. CASE EnterWait \/ Lock \/ TestEmpty \/ CondWait \/ CheckWoken \/ SpuriousWakeup
  BY <1>1, <1>7 DEF EnterWait, Lock, TestEmpty, CondWait, CheckWoken, SpuriousWakeup, WorkerTo
<1>8. CASE ControlStep \/ Run \/ StopNoThread \/ UNCHANGED vars
  BY <1>1, <1>8 DEF ControlStep, RunStored, StopSignal, StopJoin, Run, StopNoThread,
                    ControlTo, vars
<1>9. ASSUME NEW s \in Senders, Receive(s) PROVE AbstractStep
  BY <1>1, <1>9 DEF Receive
<1> QED BY <1>2, <1>3, <1>4, <1>5, <1>6, <1>7, <1>8, <1>9 DEF Next, WorkerStep

\* The message queue implements the abstract first-in first-out queue.
THEOREM QueueImplementsFifo == Spec => ImplementsFifo
<1>1. Init => Fifo!Init
  BY DEF Init, Fifo!Init
<1>2. TypeOK /\ [Next]_vars => [Fifo!Next]_<<Pending, handled, willBeStopped>>
  <2> SUFFICES ASSUME TypeOK, [Next]_vars
               PROVE  [Fifo!Next]_<<Pending, handled, willBeStopped>>
    OBVIOUS
  <2>1. AbstractStep
    BY StepRefines
  <2> QED BY <2>1 DEF AbstractStep, Pending, Fifo!Next, Fifo!Accept, Fifo!Take,
                      Fifo!RequestStop, Fifo!Abandon
<1> QED BY <1>1, <1>2, QueueTypeCorrect, PTL
        DEF Spec, ImplementsFifo, Fifo!Spec, Pending
=============================================================================
