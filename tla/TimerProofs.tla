---------------------------- MODULE TimerProofs ----------------------------
(***************************************************************************)
(* Theorems about Timer for every number of clients, threads and blocks,   *)
(* every set of durations and every bound.                                 *)
(***************************************************************************)
EXTENDS Timer, TLAPS

USE DEF RELATIVE_TIMER, LOOP_TIMER, ABSOLUTE_TIMER, INVALID_TIMER_ID, Inserted, Forget

\* Reading the clock gives a pair of uint32 values (GetMonoTime, timer.cpp:175).
LEMMA MonoTimeType ==
  ASSUME NEW n \in Nat
  PROVE  GetMonoTime(n) \in TimeValues
<1>1. (n \div MsPerSec) % Word \in 0..(Word - 1)
  <2>1. n \div MsPerSec \in Int
    BY TimeValueAssumption
  <2> QED BY <2>1, TimeValueAssumption
<1>2. n % MsPerSec \in 0..(MsPerSec - 1)
  BY TimeValueAssumption
<1>3. n % MsPerSec \in 0..(Word - 1)
  BY <1>2, TimeValueAssumption
<1> QED BY <1>1, <1>3 DEF GetMonoTime, TimeValues

\* Adding a duration to an expiry gives an expiry (timer.cpp:567, 612).
LEMMA AddDurationType ==
  ASSUME NEW tv \in TimeValues, NEW d \in Nat
  PROVE  AddDuration(tv, d) \in TimeValues
<1> DEFINE ms == (tv.milisecond + d) % Word
<1>1. tv.second \in Nat /\ tv.milisecond \in Nat /\ tv.second \in 0..(Word - 1)
  BY TimeValueAssumption DEF TimeValues
<1>2. ms \in 0..(Word - 1)
  BY <1>1, TimeValueAssumption
<1>3. (tv.second + ms \div MsPerSec) % Word \in 0..(Word - 1)
  <2>1. ms \div MsPerSec \in Int
    BY <1>2, TimeValueAssumption
  <2> QED BY <1>1, <2>1, TimeValueAssumption
<1>4. ms % MsPerSec \in 0..(Word - 1)
  <2>1. ms % MsPerSec \in 0..(MsPerSec - 1)
    BY <1>2, TimeValueAssumption
  <2> QED BY <2>1, TimeValueAssumption
<1> HIDE DEF ms
<1>5. Carry(tv, ms) \in TimeValues
  BY <1>1, <1>2, <1>3, <1>4 DEF Carry, TimeValues
<1> QED BY <1>5 DEF AddDuration, ms

\* The blocks of a new batch are ids of the pool (AllocateTimerBlock).
LEMMA AvailableType ==
  ASSUME TypeOK, freelist = <<>> => pool + OnceAlloc <= MaxPool,
         NEW available, available = IF freelist = <<>> THEN Batch ELSE freelist
  PROVE  /\ available \in Seq(Tids) /\ available # <<>>
         /\ Head(available) \in Tids /\ Tail(available) \in Seq(Tids)
<1>1. available \in Seq(Tids) /\ available # <<>>
  <2>1. CASE freelist = <<>>
    <3>1. Batch \in [1..OnceAlloc -> Tids]
      BY <2>1, TimerAssumption DEF Batch, TypeOK, ListType, Tids
    <3>2. Batch \in Seq(Tids) /\ Len(Batch) = OnceAlloc
      BY <3>1, TimerAssumption
    <3>3. Batch # <<>>
      BY <3>2, TimerAssumption
    <3> QED BY <2>1, <3>2, <3>3
  <2>2. CASE freelist # <<>>
    BY <2>2 DEF TypeOK, ListType
  <2> QED BY <2>1, <2>2
<1> QED BY <1>1

\* Every variable keeps its type in every behaviour.
THEOREM TypeCorrect == Spec => []TypeOK
<1>1. Init => TypeOK
  <2> SUFFICES ASSUME Init PROVE TypeOK
    OBVIOUS
  <2>1. BlockType
    <3>1. [second |-> 0, milisecond |-> 0] \in TimeValues
      BY TimeValueAssumption DEF TimeValues
    <3> QED BY <3>1 DEF Init, BlockType, AllTypes
  <2>2. ListType
    <3>1. [i \in 1..OnceAlloc |-> i] \in Seq(Tids)
      BY TimerAssumption DEF Tids
    <3> QED BY <3>1, TimerAssumption DEF Init, ListType
  <2>3. queue \in [Clients -> Seq(Messages)]
    BY DEF Init
  <2>4. CallType
    BY TimerAssumption DEF Init, CallType, Idle, InCall, Calls, Ops, AllTypes
  <2>5. ScanType
    BY DEF Init, ScanType
  <2>6. HistoryType
    BY DEF Init, HistoryType
  <2> QED BY <2>1, <2>2, <2>3, <2>4, <2>5, <2>6 DEF TypeOK
<1>2. TypeOK /\ [Next]_vars => TypeOK'
  <2> SUFFICES ASSUME TypeOK, [Next]_vars PROVE TypeOK'
    OBVIOUS
  <2> USE TimerAssumption DEF TypeOK
  <2>1. ASSUME NEW th \in Threads, CreateTimer(th) PROVE TypeOK'
    <3> DEFINE available == IF freelist = <<>> THEN Batch ELSE freelist
               t == Head(available)
    <3>0. t \in Tids /\ Tail(available) \in Seq(Tids)
      BY <2>1, AvailableType DEF CreateTimer
    <3>y. /\ pool' = IF freelist = <<>> THEN pool + OnceAlloc ELSE pool
          /\ freelist' = Tail(available)
          /\ client' = [client EXCEPT ![t] = Owner[th]]
          /\ timers' = [timers EXCEPT ![Owner[th]] = @ \cup {t}]
          /\ armer' = [armer EXCEPT ![t] = NULL]
          /\ stopped' = [stopped EXCEPT ![t] = FALSE]
      BY <2>1 DEF CreateTimer
    <3> HIDE DEF available, t
    <3>1. BlockType'
      BY <2>1, <3>0, <3>y DEF CreateTimer, blockVars, scanVars, history, BlockType
    <3>2. ListType'
      <4>1. freelist = <<>> => pool + OnceAlloc <= MaxPool
        BY <2>1 DEF CreateTimer
      <4>2. Owner[th] \in Clients
        OBVIOUS
      <4> QED BY <3>0, <3>y, <4>1, <4>2 DEF ListType
    <3>3. (queue \in [Clients -> Seq(Messages)])'
      BY <2>1 DEF CreateTimer, blockVars, scanVars, history
    <3>4. CallType'
      BY <2>1 DEF CreateTimer, blockVars, scanVars, history, CallType
    <3>5. ScanType'
      BY <2>1 DEF CreateTimer, blockVars, scanVars, history, ScanType
    <3>6. HistoryType'
      BY <2>1, <3>0, <3>y DEF CreateTimer, blockVars, scanVars, history, HistoryType
    <3> QED BY <3>1, <3>2, <3>3, <3>4, <3>5, <3>6
  <2>2. ASSUME NEW th \in Threads, SetTimer(th) PROVE TypeOK'
    <3>1. BlockType'
      BY <2>2 DEF SetTimer, blockVars, scanVars, history, BlockType
    <3>2. ListType'
      BY <2>2 DEF SetTimer, blockVars, scanVars, history, ListType
    <3>3. (queue \in [Clients -> Seq(Messages)])'
      BY <2>2 DEF SetTimer, blockVars, scanVars, history
    <3>4. CallType'
      <4>1. PICK t \in Tids, ty \in Types, d \in Durations :
              call' = [call EXCEPT ![th] =
                         [op |-> "set", tid |-> t, type |-> ty, duration |-> d]]
        BY <2>2 DEF SetTimer
      <4>2. [op |-> "set", tid |-> t, type |-> ty, duration |-> d] \in Calls
        BY DEF Calls, Ops, AllTypes, Tids
      <4> QED BY <4>1, <4>2 DEF CallType
    <3>5. ScanType'
      BY <2>2 DEF SetTimer, blockVars, scanVars, history, ScanType
    <3>6. HistoryType'
      BY <2>2 DEF SetTimer, blockVars, scanVars, history, HistoryType
    <3> QED BY <3>1, <3>2, <3>3, <3>4, <3>5, <3>6
  <2>3. ASSUME NEW th \in Threads, SetTimerLocked(th) PROVE TypeOK'
    <3> DEFINE t == call[th].tid
    <3>0. t \in Tids
      BY <2>3 DEF SetTimerLocked, Locked, CallType
    <3> DEFINE x == AddDuration(GetMonoTime(now), call[th].duration)
    <3>x. x \in TimeValues
      BY MonoTimeType, AddDurationType DEF CallType, Calls, HistoryType
    <3>y. Rearm(t, x) /\ Locked(th, "set")
      BY <2>3 DEF SetTimerLocked
    <3> HIDE DEF x
    <3>1. BlockType'
      <4>1. /\ call[th].type \in AllTypes /\ call[th].duration \in Nat
        BY DEF CallType, Calls
      <4>2. /\ timerType' = [timerType EXCEPT ![t] = call[th].type]
            /\ duration' = [duration EXCEPT ![t] = call[th].duration]
            /\ client' = client
        BY <2>3 DEF SetTimerLocked
      <4> QED BY <3>0, <3>x, <3>y, <4>1, <4>2 DEF BlockType, Rearm, Increments
    <3>2. ListType'
      BY <2>3 DEF SetTimerLocked, blockVars, scanVars, history, ListType
    <3>3. (queue \in [Clients -> Seq(Messages)])'
      BY <2>3 DEF SetTimerLocked, blockVars, scanVars, history
    <3>4. CallType'
      BY <2>3 DEF SetTimerLocked, blockVars, scanVars, history, CallType, Return, Idle, InCall, Calls, Ops, AllTypes
    <3>5. ScanType'
      BY <2>3, <3>0, <3>x, <3>y DEF SetTimerLocked, blockVars, scanVars, history, ScanType, Rearm, TableWithout, Increments, Locked, Entries
    <3>6. HistoryType'
      BY <2>3, <3>0, <3>x, <3>y DEF SetTimerLocked, blockVars, scanVars, history, HistoryType, Rearm, TableWithout, Increments, Locked, Entries
    <3> QED BY <3>1, <3>2, <3>3, <3>4, <3>5, <3>6
  <2>4. ASSUME NEW th \in Threads, StopTimer(th) PROVE TypeOK'
    <3>1. BlockType'
      BY <2>4 DEF StopTimer, blockVars, scanVars, history, BlockType
    <3>2. ListType'
      BY <2>4 DEF StopTimer, blockVars, scanVars, history, ListType
    <3>3. (queue \in [Clients -> Seq(Messages)])'
      BY <2>4 DEF StopTimer, blockVars, scanVars, history
    <3>4. CallType'
      BY <2>4 DEF StopTimer, blockVars, scanVars, history, CallType, InCall, Calls, Ops, AllTypes, Tids
    <3>5. ScanType'
      BY <2>4 DEF StopTimer, blockVars, scanVars, history, ScanType
    <3>6. HistoryType'
      BY <2>4 DEF StopTimer, blockVars, scanVars, history, HistoryType
    <3> QED BY <3>1, <3>2, <3>3, <3>4, <3>5, <3>6
  <2>5. ASSUME NEW th \in Threads, StopTimerLocked(th) PROVE TypeOK'
    <3> DEFINE t == call[th].tid
    <3>0. t \in Tids
      BY <2>5 DEF StopTimerLocked, Locked, CallType
    <3>1. BlockType'
      BY <2>5, <3>0 DEF StopTimerLocked, blockVars, scanVars, history, BlockType, TableWithout, Locked, Entries
    <3>2. ListType'
      BY <2>5 DEF StopTimerLocked, blockVars, scanVars, history, ListType
    <3>3. (queue \in [Clients -> Seq(Messages)])'
      BY <2>5 DEF StopTimerLocked, blockVars, scanVars, history
    <3>4. CallType'
      BY <2>5 DEF StopTimerLocked, blockVars, scanVars, history, CallType, Return, Idle, InCall, Calls, Ops, AllTypes
    <3>5. ScanType'
      BY <2>5, <3>0 DEF StopTimerLocked, blockVars, scanVars, history, ScanType, TableWithout, Locked, Entries
    <3>6. HistoryType'
      BY <2>5, <3>0 DEF StopTimerLocked, blockVars, scanVars, history, HistoryType, TableWithout, Locked, Entries
    <3> QED BY <3>1, <3>2, <3>3, <3>4, <3>5, <3>6
  <2>6. ASSUME NEW th \in Threads, KillTimer(th) PROVE TypeOK'
    <3>1. BlockType'
      BY <2>6 DEF KillTimer, blockVars, scanVars, history, BlockType
    <3>2. ListType'
      BY <2>6 DEF KillTimer, blockVars, scanVars, history, ListType
    <3>3. (queue \in [Clients -> Seq(Messages)])'
      BY <2>6 DEF KillTimer, blockVars, scanVars, history
    <3>4. CallType'
      BY <2>6 DEF KillTimer, blockVars, scanVars, history, CallType, InCall, AfterKill, Calls, Ops, AllTypes, Tids
    <3>5. ScanType'
      BY <2>6 DEF KillTimer, blockVars, scanVars, history, ScanType
    <3>6. HistoryType'
      BY <2>6 DEF KillTimer, blockVars, scanVars, history, HistoryType
    <3> QED BY <3>1, <3>2, <3>3, <3>4, <3>5, <3>6
  <2>7. ASSUME NEW th \in Threads, RemoveForKill(th) PROVE TypeOK'
    <3> DEFINE t == call[th].tid
    <3>0. t \in Tids
      BY <2>7 DEF RemoveForKill, Locked, CallType
    <3>1. BlockType'
      BY <2>7, <3>0 DEF RemoveForKill, blockVars, scanVars, history, BlockType, TableWithout, Locked, Entries
    <3>2. ListType'
      BY <2>7 DEF RemoveForKill, blockVars, scanVars, history, ListType
    <3>3. (queue \in [Clients -> Seq(Messages)])'
      BY <2>7 DEF RemoveForKill, blockVars, scanVars, history
    <3>4. CallType'
      BY <2>7, <3>0 DEF RemoveForKill, blockVars, scanVars, history, CallType, InCall, Calls, Ops, AllTypes, Tids
    <3>5. ScanType'
      BY <2>7, <3>0 DEF RemoveForKill, blockVars, scanVars, history, ScanType, TableWithout, Locked, Entries
    <3>6. HistoryType'
      BY <2>7, <3>0 DEF RemoveForKill, blockVars, scanVars, history, HistoryType, TableWithout, Locked, Entries
    <3> QED BY <3>1, <3>2, <3>3, <3>4, <3>5, <3>6
  <2>8. ASSUME NEW th \in Threads, FreeBlock(th) PROVE TypeOK'
    <3> DEFINE t == call[th].tid
    <3>0. t \in Tids
      BY <2>8 DEF FreeBlock, Locked, CallType
    <3>1. BlockType'
      BY <2>8, <3>0 DEF FreeBlock, blockVars, scanVars, history, BlockType, IncrementOnFree
    <3>2. ListType'
      BY <2>8, <3>0 DEF FreeBlock, blockVars, scanVars, history, ListType, IncrementOnFree
    <3>3. (queue \in [Clients -> Seq(Messages)])'
      BY <2>8 DEF FreeBlock, blockVars, scanVars, history
    <3>4. CallType'
      BY <2>8 DEF FreeBlock, blockVars, scanVars, history, CallType, Return, Idle, InCall, Calls, Ops, AllTypes
    <3>5. ScanType'
      BY <2>8 DEF FreeBlock, blockVars, scanVars, history, ScanType
    <3>6. HistoryType'
      BY <2>8, <3>0 DEF FreeBlock, blockVars, scanVars, history, HistoryType, IncrementOnFree
    <3> QED BY <3>1, <3>2, <3>3, <3>4, <3>5, <3>6
  <2>9. ASSUME NEW th \in Threads, WaitTimerMessage(th) PROVE TypeOK'
    <3>1. BlockType'
      BY <2>9 DEF WaitTimerMessage, blockVars, scanVars, history, BlockType
    <3>2. ListType'
      BY <2>9 DEF WaitTimerMessage, blockVars, scanVars, history, ListType
    <3>3. (queue \in [Clients -> Seq(Messages)])'
      BY <2>9 DEF WaitTimerMessage, blockVars, scanVars, history
    <3>4. CallType'
      <4> DEFINE m == Head(queue[Owner[th]])
      <4>1. CASE call' = call
        BY <4>1 DEF CallType
      <4>2. CASE /\ OwnsTimer(th, m.tid)
                 /\ call' = [call EXCEPT ![th] = InCall("loop", m.tid)]
        <5>1. m.tid \in Tids
          BY <4>2 DEF OwnsTimer, ListType
        <5>2. InCall("loop", m.tid) \in Calls
          BY <5>1 DEF InCall, Calls, Ops, AllTypes, Tids
        <5> HIDE DEF m
        <5> QED BY <4>2, <5>1, <5>2 DEF CallType, InCall
      <4> QED BY <2>9, <4>1, <4>2 DEF WaitTimerMessage
    <3>5. ScanType'
      BY <2>9 DEF WaitTimerMessage, blockVars, scanVars, history, ScanType
    <3>6. HistoryType'
      BY <2>9 DEF WaitTimerMessage, blockVars, scanVars, history, HistoryType
    <3> QED BY <3>1, <3>2, <3>3, <3>4, <3>5, <3>6
  <2>10. ASSUME NEW th \in Threads, LoopTimerLocked(th) PROVE TypeOK'
    <3> DEFINE t == call[th].tid
    <3>0. t \in Tids
      BY <2>10 DEF LoopTimerLocked, Locked, CallType
    <3> DEFINE x == AddDuration(timeout[t], duration[t])
    <3>x. x \in TimeValues
      BY <3>0, AddDurationType DEF BlockType
    <3>y. Rearm(t, x) /\ Locked(th, "loop")
      BY <2>10 DEF LoopTimerLocked
    <3> HIDE DEF x
    <3>1. BlockType'
      BY <2>10, <3>0, <3>x, <3>y DEF LoopTimerLocked, blockVars, scanVars, history, BlockType, Rearm, TableWithout, Increments, Locked, Entries
    <3>2. ListType'
      BY <2>10 DEF LoopTimerLocked, blockVars, scanVars, history, ListType
    <3>3. (queue \in [Clients -> Seq(Messages)])'
      BY <2>10 DEF LoopTimerLocked, blockVars, scanVars, history
    <3>4. CallType'
      BY <2>10 DEF LoopTimerLocked, blockVars, scanVars, history, CallType, Return, Idle, InCall, Calls, Ops, AllTypes
    <3>5. ScanType'
      BY <2>10, <3>0, <3>x, <3>y DEF LoopTimerLocked, blockVars, scanVars, history, ScanType, Rearm, TableWithout, Increments, Locked, Entries
    <3>6. HistoryType'
      BY <2>10, <3>0, <3>x, <3>y DEF LoopTimerLocked, blockVars, scanVars, history, HistoryType, Rearm, TableWithout, Increments, Locked, Entries
    <3> QED BY <3>1, <3>2, <3>3, <3>4, <3>5, <3>6
  <2>11. ASSUME ScanBegin PROVE TypeOK'
    <3>1. BlockType'
      BY <2>11 DEF ScanBegin, blockVars, scanVars, history, BlockType
    <3>2. ListType'
      BY <2>11 DEF ScanBegin, blockVars, scanVars, history, ListType
    <3>3. (queue \in [Clients -> Seq(Messages)])'
      BY <2>11 DEF ScanBegin, blockVars, scanVars, history
    <3>4. CallType'
      BY <2>11 DEF ScanBegin, blockVars, scanVars, history, CallType
    <3>5. ScanType'
      BY <2>11 DEF ScanBegin, blockVars, scanVars, history, ScanType, HistoryType
    <3>6. HistoryType'
      BY <2>11 DEF ScanBegin, blockVars, scanVars, history, HistoryType
    <3> QED BY <3>1, <3>2, <3>3, <3>4, <3>5, <3>6
  <2>12. ASSUME ScanExpire PROVE TypeOK'
    <3>1. BlockType'
      BY <2>12 DEF ScanExpire, blockVars, scanVars, history, BlockType, ScanType, Entries
    <3>2. ListType'
      BY <2>12 DEF ScanExpire, blockVars, scanVars, history, ListType
    <3>3. (queue \in [Clients -> Seq(Messages)])'
      BY <2>12 DEF ScanExpire, blockVars, scanVars, history
    <3>4. CallType'
      BY <2>12 DEF ScanExpire, blockVars, scanVars, history, CallType
    <3>5. ScanType'
      BY <2>12 DEF ScanExpire, blockVars, scanVars, history, ScanType
    <3>6. HistoryType'
      BY <2>12 DEF ScanExpire, blockVars, scanVars, history, HistoryType
    <3> QED BY <3>1, <3>2, <3>3, <3>4, <3>5, <3>6
  <2>13. ASSUME ScanHook PROVE TypeOK'
    <3>0. ASSUME NEW t \in Tids PROVE TimeoutMessage(t) \in Messages
      <4>1. FlowNumber(flow[t]) \in 0..(FlowModulus - 1)
        BY DEF FlowNumber, BlockType
      <4> QED BY <4>1 DEF TimeoutMessage, Messages, BlockType, HistoryType
    <3>1. BlockType'
      BY <2>13 DEF ScanHook, blockVars, scanVars, history, BlockType
    <3>2. ListType'
      BY <2>13 DEF ScanHook, blockVars, scanVars, history, ListType
    <3>3. (queue \in [Clients -> Seq(Messages)])'
      <4>1. PICK e \in firing :
              \/ queue' = queue
              \/ /\ client[e.tid] # NULL
                 /\ queue' = [queue EXCEPT ![client[e.tid]] =
                                Append(@, TimeoutMessage(e.tid))]
        BY <2>13 DEF ScanHook
      <4>2. e.tid \in Tids
        BY DEF ScanType, Entries
      <4>3. TimeoutMessage(e.tid) \in Messages /\ client[e.tid] \in Clients \cup {NULL}
        BY <3>0, <4>2 DEF BlockType
      <4>4. ASSUME NEW s \in Seq(Messages) PROVE Append(s, TimeoutMessage(e.tid)) \in Seq(Messages)
        BY <4>3
      <4>5. CASE queue' = queue
        BY <4>5
      <4>6. CASE /\ client[e.tid] # NULL
                 /\ queue' = [queue EXCEPT ![client[e.tid]] =
                                Append(@, TimeoutMessage(e.tid))]
        <5> DEFINE c == client[e.tid]
        <5>1. c \in Clients
          BY <4>3, <4>6
        <5>2. Append(queue[c], TimeoutMessage(e.tid)) \in Seq(Messages)
          BY <4>4, <5>1
        <5>3. queue' = [queue EXCEPT ![c] = Append(queue[c], TimeoutMessage(e.tid))]
          BY <4>6
        <5> HIDE DEF c
        <5> QED BY <5>1, <5>2, <5>3
      <4> QED BY <4>1, <4>5, <4>6
    <3>4. CallType'
      BY <2>13 DEF ScanHook, blockVars, scanVars, history, CallType
    <3>5. ScanType'
      BY <2>13 DEF ScanHook, blockVars, scanVars, history, ScanType
    <3>6. HistoryType'
      BY <2>13 DEF ScanHook, blockVars, scanVars, history, HistoryType
    <3> QED BY <3>1, <3>2, <3>3, <3>4, <3>5, <3>6
  <2>14. ASSUME ScanEnd PROVE TypeOK'
    <3>1. BlockType'
      BY <2>14 DEF ScanEnd, blockVars, scanVars, history, BlockType
    <3>2. ListType'
      BY <2>14 DEF ScanEnd, blockVars, scanVars, history, ListType
    <3>3. (queue \in [Clients -> Seq(Messages)])'
      BY <2>14 DEF ScanEnd, blockVars, scanVars, history
    <3>4. CallType'
      BY <2>14 DEF ScanEnd, blockVars, scanVars, history, CallType
    <3>5. ScanType'
      BY <2>14 DEF ScanEnd, blockVars, scanVars, history, ScanType
    <3>6. HistoryType'
      BY <2>14 DEF ScanEnd, blockVars, scanVars, history, HistoryType
    <3> QED BY <3>1, <3>2, <3>3, <3>4, <3>5, <3>6
  <2>15. ASSUME Tick PROVE TypeOK'
    <3>1. BlockType'
      BY <2>15 DEF Tick, blockVars, scanVars, history, BlockType
    <3>2. ListType'
      BY <2>15 DEF Tick, blockVars, scanVars, history, ListType
    <3>3. (queue \in [Clients -> Seq(Messages)])'
      BY <2>15 DEF Tick, blockVars, scanVars, history
    <3>4. CallType'
      BY <2>15 DEF Tick, blockVars, scanVars, history, CallType
    <3>5. ScanType'
      BY <2>15 DEF Tick, blockVars, scanVars, history, ScanType
    <3>6. HistoryType'
      BY <2>15 DEF Tick, blockVars, scanVars, history, HistoryType
    <3> QED BY <3>1, <3>2, <3>3, <3>4, <3>5, <3>6
  <2>16. ASSUME UNCHANGED vars PROVE TypeOK'
    BY <2>16 DEF vars, blockVars, scanVars, history, BlockType, ListType, CallType, ScanType, HistoryType
  <2> QED BY <2>1, <2>2, <2>3, <2>4, <2>5, <2>6, <2>7, <2>8, <2>9, <2>10, <2>11, <2>12, <2>13, <2>14, <2>15, <2>16 DEF Next, ClientStep, Dead
<1> QED BY <1>1, <1>2, PTL DEF Spec

-----------------------------------------------------------------------------
(* The scan table *)

\* While no scan is under way, the entries are exactly those of the running
\* timers.
LEMMA EntriesAreRunning ==
  ASSUME TypeOK, ScanTableConsistent, ~scanning
  PROVE  \A e \in table : timing[e.tid] /\ e = Entry(e.tid)
BY DEF TypeOK, ScanType, ScanTableConsistent

\* After RemoveTimer no entry of its timer is left.
LEMMA NoEntryLeft ==
  ASSUME TypeOK, ScanTableConsistent, ~scanning, NEW t \in Tids
  PROVE  \A e \in TableWithout(t) : e \in table /\ e.tid # t /\ e.tid \in Tids
<1>1. \A e \in table : timing[e.tid] /\ e = Entry(e.tid)
  BY EntriesAreRunning
<1> QED BY <1>1 DEF TableWithout, TypeOK, ScanType, Entries

\* RemoveTimer takes the only entry of its timer out of the table and leaves
\* the rest consistent (timer.cpp:396).
LEMMA RemoveConsistent ==
  ASSUME TypeOK, ScanTableConsistent, ~scanning, NEW t \in Tids,
         table' = TableWithout(t), timing' = [timing EXCEPT ![t] = FALSE],
         timeout' = timeout, firing' = firing
  PROVE  ScanTableConsistent'
<1>1. \A e \in table : timing[e.tid] /\ e = Entry(e.tid)
  BY EntriesAreRunning
<1>2. firing = {}
  BY DEF TypeOK, ScanType
<1>3. \A e \in table' : e \in table /\ e.tid # t /\ e.tid \in Tids
  BY NoEntryLeft
<1>4. \A u \in Tids : timing'[u] => u # t /\ timing[u] /\ Entry(u) \in table
  BY DEF ScanTableConsistent, TypeOK, BlockType
<1>5. \A u \in Tids : u # t => Entry(u) # Entry(t)
  BY DEF Entry
<1>6. \A u \in Tids : timing'[u] => Entry(u)' \in table'
  BY <1>4, <1>5 DEF Entry, TableWithout
<1>7. \A e \in table' : e = Entry(e.tid)'
  BY <1>1, <1>3 DEF Entry
<1>8. \A e \in table' : timing'[e.tid]
  BY <1>1, <1>3 DEF TypeOK, BlockType
<1> QED BY <1>2, <1>6, <1>7, <1>8 DEF ScanTableConsistent

\* Setting a timer, running or not, leaves it with one entry, at its new expiry
\* (timer.cpp:550, 602).
LEMMA RearmConsistent ==
  ASSUME TypeOK, ScanTableConsistent, ~scanning, NEW t \in Tids, NEW x,
         Rearm(t, x), firing' = firing
  PROVE  ScanTableConsistent'
<1>1. \A e \in table : timing[e.tid] /\ e = Entry(e.tid)
  BY EntriesAreRunning
<1>2. firing = {}
  BY DEF TypeOK, ScanType
<1> DEFINE new == [time |-> x, tid |-> t]
<1>r. /\ timeout' = [timeout EXCEPT ![t] = x]
      /\ table' = TableWithout(t) \cup {new}
      /\ timing' = [timing EXCEPT ![t] = TRUE]
  BY DEF Rearm
<1>t. timeout'[t] = x /\ \A u \in Tids : u # t => timeout'[u] = timeout[u]
  BY <1>r DEF TypeOK, BlockType
<1>n. new = Entry(t)' /\ new.tid = t
  BY <1>t DEF Entry
<1> HIDE DEF new
<1>3. \A e \in table' : e = new \/ (e \in table /\ e.tid # t /\ e.tid \in Tids)
  <2>1. \A e \in TableWithout(t) : e \in table /\ e.tid # t /\ e.tid \in Tids
    BY NoEntryLeft
  <2>2. \A e \in table' : e = new \/ e \in TableWithout(t)
    BY <1>r
  <2> QED BY <2>1, <2>2
<1>4. \A u \in Tids : u # t /\ timing'[u] => timing[u] /\ Entry(u) \in table
  BY <1>r DEF ScanTableConsistent, TypeOK, BlockType
<1>5. \A u \in Tids : u # t => Entry(u) # Entry(t) /\ Entry(u)' = Entry(u)
  BY <1>t DEF Entry
<1>6. \A u \in Tids : timing'[u] => Entry(u)' \in table'
  <2>1. Entry(t)' \in table'
    BY <1>r, <1>n
  <2>2. \A u \in Tids : u # t /\ timing'[u] => Entry(u)' \in table'
    BY <1>r, <1>4, <1>5 DEF TableWithout
  <2> QED BY <2>1, <2>2
<1>7. \A e \in table' : e = Entry(e.tid)'
  BY <1>1, <1>3, <1>5, <1>n
<1>8. \A e \in table' : timing'[e.tid]
  BY <1>1, <1>3, <1>n, <1>r DEF TypeOK, BlockType
<1> QED BY <1>2, <1>6, <1>7, <1>8 DEF ScanTableConsistent

\* A running timer is always found by RemoveTimer.
LEMMA RemoveAlwaysSucceeds ==
  ASSUME ScanTableConsistent, NEW t \in Tids
  PROVE  RemoveSucceeds(t)
BY DEF ScanTableConsistent, RemoveSucceeds

\* The scan table agrees with the timing flags of the blocks in every behaviour,
\* however many threads use a client's timers, and no SkyAssert(false) behind
\* RemoveTimer is ever reached.
THEOREM ScanTableSafe == Spec => [](ScanTableConsistent /\ NoAssertionFails)
<1>1. Init => ScanTableConsistent /\ NoAssertionFails
  BY DEF Init, ScanTableConsistent, NoAssertionFails
<1>2. TypeOK /\ ScanTableConsistent /\ NoAssertionFails /\ [Next]_vars
        => (ScanTableConsistent /\ NoAssertionFails)'
  <2> SUFFICES ASSUME TypeOK, ScanTableConsistent, NoAssertionFails, [Next]_vars
               PROVE  (ScanTableConsistent /\ NoAssertionFails)'
    OBVIOUS
  <2>1. ASSUME UNCHANGED <<table, timing, timeout, firing, asserted>>
        PROVE  (ScanTableConsistent /\ NoAssertionFails)'
    BY <2>1 DEF ScanTableConsistent, NoAssertionFails, Entry
  <2>2. ASSUME NEW th \in Threads, NEW op \in {"set", "loop"}, NEW x,
               Locked(th, op), Rearm(call[th].tid, x), firing' = firing
        PROVE  (ScanTableConsistent /\ NoAssertionFails)'
    <3> DEFINE t == call[th].tid
    <3>1. t \in Tids /\ ~scanning
      BY <2>2 DEF Locked, TypeOK, CallType
    <3>2. ScanTableConsistent'
      BY <2>2, <3>1, RearmConsistent
    <3>3. NoAssertionFails'
      BY <2>2, <3>1, RemoveAlwaysSucceeds DEF Rearm, NoAssertionFails
    <3> QED BY <3>2, <3>3
  <2>3. ASSUME NEW th \in Threads, NEW op \in {"stop", "remove"}, Locked(th, op),
               asserted' = (asserted \/ ~RemoveSucceeds(call[th].tid)),
               table' = TableWithout(call[th].tid),
               timing' = [timing EXCEPT ![call[th].tid] = FALSE],
               timeout' = timeout, firing' = firing
        PROVE  (ScanTableConsistent /\ NoAssertionFails)'
    <3> DEFINE t == call[th].tid
    <3>1. t \in Tids /\ ~scanning
      BY <2>3 DEF Locked, TypeOK, CallType
    <3>2. ScanTableConsistent'
      BY <2>3, <3>1, RemoveConsistent
    <3>3. NoAssertionFails'
      BY <2>3, <3>1, RemoveAlwaysSucceeds DEF NoAssertionFails
    <3> QED BY <3>2, <3>3
  <2>4. ASSUME ScanExpire PROVE (ScanTableConsistent /\ NoAssertionFails)'
    <3>1. PICK e \in table : firing' = {e} /\ timing' = [timing EXCEPT ![e.tid] = FALSE]
      BY <2>4 DEF ScanExpire
    <3>2. /\ UNCHANGED <<table, timeout, asserted>>
          /\ firing = {}
      BY <2>4 DEF ScanExpire
    <3>3. \A f \in table : f.tid \in Tids
      BY DEF TypeOK, ScanType, Entries
    <3>4. \A f \in table : timing'[f.tid] <=> f # e
      BY <3>1, <3>2, <3>3 DEF ScanTableConsistent, TypeOK, BlockType
    <3>5. \A t \in Tids : timing'[t] => timing[t]
      BY <3>1, <3>3 DEF TypeOK, BlockType
    <3> QED BY <3>1, <3>2, <3>4, <3>5 DEF ScanTableConsistent, NoAssertionFails, Entry
  <2>5. ASSUME ScanHook PROVE (ScanTableConsistent /\ NoAssertionFails)'
    <3>1. PICK e \in firing : \/ UNCHANGED <<table, firing>>
                              \/ table' = table \ {e} /\ firing' = {}
      BY <2>5 DEF ScanHook
    <3>2. UNCHANGED <<timing, timeout, asserted>>
      BY <2>5 DEF ScanHook, blockVars
    <3>3. firing = {e}
      BY DEF TypeOK, ScanType
    <3>4. ~timing[e.tid] /\ \A t \in Tids : timing[t] => t # e.tid
      BY <3>3 DEF ScanTableConsistent, TypeOK, ScanType
    <3> QED BY <3>1, <3>2, <3>3, <3>4 DEF ScanTableConsistent, NoAssertionFails, Entry
  <2>6. ASSUME NEW th \in Threads, ClientStep(th)
        PROVE  (ScanTableConsistent /\ NoAssertionFails)'
    <3>1. CASE \/ CreateTimer(th) \/ SetTimer(th) \/ StopTimer(th) \/ KillTimer(th)
               \/ FreeBlock(th) \/ WaitTimerMessage(th)
      BY <3>1, <2>1 DEF CreateTimer, SetTimer, StopTimer, KillTimer, FreeBlock,
                        WaitTimerMessage, blockVars, scanVars
    <3>2. CASE SetTimerLocked(th)
      BY <3>2, <2>2 DEF SetTimerLocked, scanVars
    <3>3. CASE LoopTimerLocked(th)
      BY <3>3, <2>2 DEF LoopTimerLocked, scanVars
    <3>4. CASE StopTimerLocked(th)
      BY <3>4, <2>3 DEF StopTimerLocked, scanVars
    <3>5. CASE RemoveForKill(th)
      BY <3>5, <2>3 DEF RemoveForKill, scanVars
    <3> QED BY <2>6, <3>1, <3>2, <3>3, <3>4, <3>5 DEF ClientStep
  <2>7. CASE ScanBegin \/ ScanEnd \/ Tick \/ Dead \/ UNCHANGED vars
    BY <2>7, <2>1 DEF ScanBegin, ScanEnd, Tick, Dead, vars, blockVars, scanVars
  <2> QED BY <2>4, <2>5, <2>6, <2>7 DEF Next
<1> QED BY <1>1, <1>2, TypeCorrect, PTL DEF Spec

-----------------------------------------------------------------------------
(* Ownership of the blocks, for clients served by one thread each *)

\* A call in progress is about a timer of the caller: no other thread takes it
\* out of the client's list between the check and the lock.
PendingOwned ==
  \A th \in Threads : call[th].op \in {"set", "stop", "loop"} =>
    call[th].tid \in timers[Owner[th]]

\* Blocks not yet allocated have no client.
UnallocatedFree == \A t \in Tids : t > pool => client[t] = NULL

\* KillTimer has made sure that the timer does not run when it releases it.
FreeingIdle ==
  \A th \in Threads : call[th].op = "free" => ~timing[call[th].tid]

\* The inductive invariant of the ownership theorem.
OwnerInv ==
  /\ BlocksAccountedFor
  /\ FreeBlocksIdle
  /\ PendingOwned
  /\ UnallocatedFree
  /\ FreeingIdle

\* As long as no block was released with its entry in the table, every entry was
\* made by the client that owns the block now, and the block has been armed.
ArmedOwned ==
  \A e \in table :
    /\ flow[e.tid] >= 1
    /\ ~freedInTable => client[e.tid] # NULL /\ armer[e.tid] = client[e.tid]

\* A queued message m of client c is at most as recent as its block, and if
\* nothing has changed the block since, it speaks of the last arming.
MessageOK(c, m) ==
  /\ m.flow = FlowNumber(m.count)
  /\ 1 <= m.count /\ m.count <= flow[m.tid]
  /\ m.count = flow[m.tid] => m.type = timerType[m.tid]
  /\ ~freedInTable /\ m.count = flow[m.tid]
       => m.arm = arm[m.tid] /\ m.armer = c /\ client[m.tid] = c

MessagesOK == \A c \in Clients : \A i \in DOMAIN queue[c] : MessageOK(c, queue[c][i])

\* The inductive invariant of the delivery theorem.
DeliveryInv ==
  /\ ArmedOwned
  /\ MessagesOK
  /\ CrashOnlyAfterEarlyFree

USE DEF BlocksAccountedFor, OwnerInv

\* What a thread does with a timer of its own client, or begins to do, leaves the
\* ownership of the blocks as it is.
LEMMA OwnerFrame ==
  ASSUME SingleThreaded, TypeOK, OwnerInv, NEW th \in Threads, NEW r,
         UNCHANGED <<pool, freelist, client, timers>>,
         call' = [call EXCEPT ![th] = r],
         call[th].op \notin {"remove", "free"}, r.op \notin {"remove", "free"},
         r.op \in {"set", "stop", "loop"} => r.tid \in timers[Owner[th]],
         \A t \in Tids : timing'[t] => timing[t] \/ t \in timers[Owner[th]]
  PROVE  OwnerInv'
<1> USE TimerAssumption
<1>1. \A u \in Threads : u # th => call'[u] = call[u]
  BY DEF TypeOK, CallType
<1>2. call'[th] = r
  BY DEF TypeOK, CallType
<1>3. \A u \in Threads, t \in Tids : IsKilling(u, t)' <=> IsKilling(u, t)
  BY <1>1, <1>2 DEF IsKilling
<1>4. \A t \in timers[Owner[th]] : client[t] = Owner[th] /\ client[t] # NULL
  BY DEF ListedIsOwned
<1>5. FreelistDistinct' /\ FreeIsUnowned' /\ ListedIsOwned' /\ UnallocatedFree'
  BY DEF FreelistDistinct, FreeIsUnowned, Free, ListedIsOwned, UnallocatedFree
<1>6. OwnedIsListed' /\ KilledIsOwned'
  BY <1>3 DEF OwnedIsListed, KilledIsOwned
<1>7. FreeBlocksIdle'
  BY <1>4 DEF FreeBlocksIdle
<1>8. PendingOwned'
  BY <1>1, <1>2 DEF PendingOwned
<1>9. FreeingIdle'
  <2> SUFFICES ASSUME NEW u \in Threads, call'[u].op = "free"
               PROVE  ~timing'[call'[u].tid]
    BY DEF FreeingIdle
  <2> DEFINE t == call[u].tid
  <2>1. u # th /\ call'[u] = call[u]
    BY <1>1, <1>2
  <2>2. t \in Tids /\ IsKilling(u, t) /\ ~timing[t]
    BY <2>1 DEF TypeOK, CallType, IsKilling, FreeingIdle
  <2>3. client[t] = Owner[u]
    BY <2>2 DEF KilledIsOwned
  <2>4. t \notin timers[Owner[th]]
    BY <1>4, <2>1, <2>3 DEF SingleThreaded
  <2> QED BY <2>1, <2>2, <2>4
<1> QED BY <1>5, <1>6, <1>7, <1>8, <1>9

\* Steps of the scan thread and of the clock do not touch the ownership either.
LEMMA OwnerScanFrame ==
  ASSUME TypeOK, OwnerInv, UNCHANGED <<pool, freelist, client, timers, call>>,
         \A t \in Tids : timing'[t] => timing[t]
  PROVE  OwnerInv'
<1>1. \A u \in Threads, t \in Tids : IsKilling(u, t)' <=> IsKilling(u, t)
  BY DEF IsKilling
<1>2. FreelistDistinct' /\ FreeIsUnowned' /\ ListedIsOwned' /\ UnallocatedFree'
  BY DEF FreelistDistinct, FreeIsUnowned, Free, ListedIsOwned, UnallocatedFree
<1>3. OwnedIsListed' /\ KilledIsOwned'
  BY <1>1 DEF OwnedIsListed, KilledIsOwned
<1>4. FreeBlocksIdle' /\ PendingOwned'
  BY DEF FreeBlocksIdle, PendingOwned
<1>5. FreeingIdle'
  <2>1. \A u \in Threads : call[u].op = "free" => call[u].tid \in Tids
    BY DEF TypeOK, CallType
  <2> QED BY <2>1 DEF FreeingIdle
<1> QED BY <1>2, <1>3, <1>4, <1>5

\* CreateTimer hands out a block that nobody has (timer.cpp:488).
LEMMA CreateOwner ==
  ASSUME TypeOK, OwnerInv, NEW th \in Threads, CreateTimer(th)
  PROVE  OwnerInv'
<1> USE TimerAssumption
<1> DEFINE available == IF freelist = <<>> THEN Batch ELSE freelist
           t == Head(available)
           c == Owner[th]
           n == IF freelist = <<>> THEN pool + OnceAlloc ELSE pool
<1>1. /\ available \in Seq(Tids) /\ available # <<>>
      /\ t \in Tids /\ Tail(available) \in Seq(Tids) /\ c \in Clients
  BY AvailableType DEF CreateTimer
<1>2. /\ pool' = n
      /\ freelist' = Tail(available)
      /\ client' = [client EXCEPT ![t] = c]
      /\ timers' = [timers EXCEPT ![c] = @ \cup {t}]
      /\ UNCHANGED <<timing, call>>
  BY DEF CreateTimer
<1>3. \A i, j \in DOMAIN available : available[i] = available[j] => i = j
  BY DEF TypeOK, ListType, Batch, FreelistDistinct
<1>4. \A u \in Tids : (\E i \in DOMAIN available : available[i] = u)
                         <=> (u <= n /\ client[u] = NULL)
  <2>1. CASE freelist # <<>>
    BY <2>1 DEF FreeIsUnowned, Free
  <2>2. CASE freelist = <<>>
    <3>1. \A u \in Tids : ~(u <= pool /\ client[u] = NULL)
      BY <2>2 DEF FreeIsUnowned, Free
    <3>2. \A u \in Tids : u > pool => client[u] = NULL
      BY DEF UnallocatedFree
    <3>3. \A u \in Tids : (\E i \in DOMAIN available : available[i] = u)
                             <=> (u > pool /\ u <= pool + OnceAlloc)
      <4>1. DOMAIN available = 1..OnceAlloc /\ \A i \in 1..OnceAlloc : available[i] = pool + i
        BY <2>2 DEF Batch
      <4>2. pool \in Nat
        BY DEF TypeOK, ListType
      <4>3. ASSUME NEW u \in Tids, u > pool, u <= pool + OnceAlloc
            PROVE  \E i \in DOMAIN available : available[i] = u
        <5>1. u - pool \in 1..OnceAlloc /\ u = pool + (u - pool)
          BY <4>2, <4>3 DEF Tids
        <5> QED BY <4>1, <5>1
      <4> HIDE DEF available
      <4> QED BY <4>1, <4>2, <4>3 DEF Tids
    <3> QED BY <2>2, <3>1, <3>2, <3>3 DEF Tids, TypeOK, ListType
  <2> QED BY <2>1, <2>2
<1> HIDE DEF available, t, c, n
<1>5. available[1] = t /\ 1 \in DOMAIN available
  BY <1>1 DEF t
<1>6. client[t] = NULL /\ t <= n
  BY <1>1, <1>4, <1>5
<1>7. /\ Len(available) \in Nat /\ Len(available) > 0
      /\ DOMAIN freelist' = 1..(Len(available) - 1)
      /\ DOMAIN available = 1..Len(available)
      /\ \A i \in 1..(Len(available) - 1) : freelist'[i] = available[i + 1]
  BY <1>1, <1>2
<1>8. FreelistDistinct'
  BY <1>3, <1>7 DEF FreelistDistinct
<1>9. \A u \in Tids : Free(u)' <=> (u # t /\ \E i \in DOMAIN available : available[i] = u)
  <2>1. ASSUME NEW u \in Tids, u # t, NEW i \in DOMAIN available, available[i] = u
        PROVE  Free(u)'
    <3>1. i # 1
      BY <1>5, <2>1
    <3>2. i - 1 \in DOMAIN freelist' /\ freelist'[i - 1] = u
      BY <1>7, <2>1, <3>1
    <3> QED BY <3>2 DEF Free
  <2>2. ASSUME NEW u \in Tids, NEW i \in DOMAIN freelist', freelist'[i] = u
        PROVE  u # t /\ \E j \in DOMAIN available : available[j] = u
    <3>1. i + 1 \in DOMAIN available /\ available[i + 1] = u /\ i + 1 # 1
      BY <1>7, <2>2
    <3> QED BY <1>3, <1>5, <3>1
  <2> QED BY <2>1, <2>2 DEF Free
<1>10. /\ client'[t] = c /\ c # NULL
       /\ \A u \in Tids : u # t => client'[u] = client[u]
  BY <1>1, <1>2 DEF TypeOK, BlockType, c
<1>11. FreeIsUnowned'
  BY <1>1, <1>2, <1>4, <1>9, <1>10 DEF FreeIsUnowned
<1>12. \A d \in Clients : timers[d] \subseteq timers'[d] /\ t \notin timers[d]
  BY <1>1, <1>2, <1>6 DEF TypeOK, ListType, ListedIsOwned
<1>13. t \in timers'[c] /\ \A d \in Clients : \A u \in timers'[d] :
                             u \in timers[d] \/ (d = c /\ u = t)
  BY <1>1, <1>2 DEF TypeOK, ListType
<1>14. ListedIsOwned'
  <2>1. \A d \in Clients : timers[d] \subseteq Tids
    BY DEF TypeOK, ListType
  <2> QED BY <2>1, <1>10, <1>12, <1>13 DEF ListedIsOwned
<1>15. \A u \in Threads, v \in Tids : IsKilling(u, v)' <=> IsKilling(u, v)
  BY <1>2 DEF IsKilling
<1>16. OwnedIsListed'
  <2> SUFFICES ASSUME NEW u \in Tids, client'[u] # NULL
               PROVE  \/ u \in timers'[client'[u]]
                      \/ \E a \in Threads : IsKilling(a, u)'
    BY DEF OwnedIsListed
  <2>1. CASE u = t
    BY <1>10, <1>13, <2>1
  <2>2. CASE u # t
    <3>1. client'[u] = client[u] /\ client[u] \in Clients
      BY <1>10, <2>2 DEF TypeOK, BlockType
    <3>2. u \in timers[client[u]] \/ \E a \in Threads : IsKilling(a, u)
      BY <3>1 DEF OwnedIsListed
    <3> QED BY <1>12, <1>15, <3>1, <3>2
  <2> QED BY <2>1, <2>2
<1>17. KilledIsOwned'
  <2> SUFFICES ASSUME NEW u \in Tids, NEW a \in Threads, IsKilling(a, u)'
               PROVE  client'[u] = Owner[a] /\ u \notin timers'[Owner[a]]
    BY DEF KilledIsOwned
  <2>1. client[u] = Owner[a] /\ u \notin timers[Owner[a]] /\ Owner[a] \in Clients
    BY <1>15 DEF KilledIsOwned
  <2>2. u # t
    BY <1>6, <2>1
  <2> QED BY <1>10, <1>13, <2>1, <2>2
<1>18. FreeBlocksIdle' /\ FreeingIdle'
  BY <1>2, <1>10 DEF FreeBlocksIdle, FreeingIdle
<1>19. PendingOwned'
  BY <1>2, <1>12 DEF PendingOwned
<1>20. UnallocatedFree'
  <2>1. \A u \in Tids : u > n => u > pool
    BY DEF n, TypeOK, ListType, Tids
  <2> QED BY <1>2, <1>6, <1>10, <2>1 DEF UnallocatedFree, Tids, n, TypeOK, ListType
<1> QED BY <1>8, <1>11, <1>14, <1>16, <1>17, <1>18, <1>19, <1>20

\* KillTimer takes a timer out of the list of its client, and only if it saw it
\* idle does it go on to the release (timer.h:412, timer.cpp:683).
LEMMA KillOwner ==
  ASSUME SingleThreaded, TypeOK, OwnerInv, NEW th \in Threads, KillTimer(th)
  PROVE  OwnerInv'
<1> USE TimerAssumption
<1> DEFINE c == Owner[th]
<1>1. PICK t \in Tids :
        /\ t \in timers[c] /\ client[t] # NULL
        /\ timers' = [timers EXCEPT ![c] = @ \ {t}]
        /\ call' = [call EXCEPT ![th] = InCall(AfterKill(t), t)]
  BY DEF KillTimer, OwnsTimer
<1>2. UNCHANGED <<pool, freelist, client, timing>> /\ call[th].op = "idle"
  BY DEF KillTimer, blockVars, Ready, Idle, InCall
<1>3. client[t] = c /\ c \in Clients /\ c # NULL
  BY <1>1 DEF ListedIsOwned
<1>4. /\ call'[th].op = AfterKill(t) /\ call'[th].tid = t
      /\ \A u \in Threads : u # th => call'[u] = call[u]
  BY <1>1 DEF TypeOK, CallType, InCall
<1>5. AfterKill(t) \in {"remove", "free"} /\ (AfterKill(t) = "free" => ~timing[t])
  BY DEF AfterKill
<1>6. IsKilling(th, t)' /\ \A v \in Tids : IsKilling(th, v)' => v = t
  BY <1>4, <1>5 DEF IsKilling
<1>7. \A u \in Threads, v \in Tids : u # th => (IsKilling(u, v)' <=> IsKilling(u, v))
  BY <1>4 DEF IsKilling
<1>8. \A v \in Tids : ~IsKilling(th, v)
  BY <1>2 DEF IsKilling
<1>9. /\ timers'[c] = timers[c] \ {t}
      /\ \A d \in Clients : d # c => timers'[d] = timers[d]
  BY <1>1, <1>3 DEF TypeOK, ListType
<1> HIDE DEF c
<1>10. FreelistDistinct' /\ FreeIsUnowned' /\ FreeBlocksIdle' /\ UnallocatedFree'
  BY <1>2 DEF FreelistDistinct, FreeIsUnowned, Free, FreeBlocksIdle, UnallocatedFree
<1>11. ListedIsOwned'
  BY <1>2, <1>9 DEF ListedIsOwned
<1>12. OwnedIsListed'
  <2> SUFFICES ASSUME NEW v \in Tids, client[v] # NULL
               PROVE  \/ v \in timers'[client[v]]
                      \/ \E u \in Threads : IsKilling(u, v)'
    BY <1>2 DEF OwnedIsListed
  <2>1. v \in timers[client[v]] \/ \E u \in Threads : IsKilling(u, v)
    BY DEF OwnedIsListed
  <2>2. CASE v = t
    BY <1>6, <2>2
  <2>3. CASE v # t
    <3>1. client[v] \in Clients
      BY DEF TypeOK, BlockType
    <3> QED BY <1>7, <1>8, <1>9, <2>1, <2>3, <3>1
  <2> QED BY <2>2, <2>3
<1>13. KilledIsOwned'
  <2> SUFFICES ASSUME NEW v \in Tids, NEW u \in Threads, IsKilling(u, v)'
               PROVE  client[v] = Owner[u] /\ v \notin timers'[Owner[u]]
    BY <1>2 DEF KilledIsOwned
  <2>1. CASE u = th
    BY <1>3, <1>6, <1>9, <2>1 DEF c
  <2>2. CASE u # th
    <3>1. client[v] = Owner[u] /\ v \notin timers[Owner[u]] /\ Owner[u] \in Clients
      BY <1>7, <2>2 DEF KilledIsOwned
    <3> QED BY <1>9, <3>1
  <2> QED BY <2>1, <2>2
<1>14. PendingOwned'
  <2> SUFFICES ASSUME NEW u \in Threads, call'[u].op \in {"set", "stop", "loop"}
               PROVE  call'[u].tid \in timers'[Owner[u]]
    BY DEF PendingOwned
  <2>1. u # th
    BY <1>4, <1>5
  <2>2. call[u].tid \in timers[Owner[u]] /\ Owner[u] # c /\ Owner[u] \in Clients
    BY <1>4, <2>1 DEF PendingOwned, SingleThreaded, c
  <2> QED BY <1>4, <1>9, <2>1, <2>2
<1>15. FreeingIdle'
  BY <1>2, <1>4, <1>5 DEF FreeingIdle
<1> QED BY <1>10, <1>11, <1>12, <1>13, <1>14, <1>15

\* RemoveTimer inside KillTimer leaves the timer idle.
LEMMA RemoveOwner ==
  ASSUME TypeOK, OwnerInv, NEW th \in Threads, RemoveForKill(th)
  PROVE  OwnerInv'
<1> USE TimerAssumption
<1> DEFINE t == call[th].tid
<1>1. /\ call[th].op = "remove" /\ t \in Tids
      /\ timing' = [timing EXCEPT ![t] = FALSE]
      /\ call' = [call EXCEPT ![th] = InCall("free", t)]
      /\ UNCHANGED <<pool, freelist, client, timers>>
  BY DEF RemoveForKill, Locked, TypeOK, CallType
<1>2. /\ call'[th].op = "free" /\ call'[th].tid = t
      /\ \A u \in Threads : u # th => call'[u] = call[u]
  BY <1>1 DEF TypeOK, CallType, InCall
<1>3. \A u \in Threads, v \in Tids : IsKilling(u, v)' <=> IsKilling(u, v)
  BY <1>1, <1>2 DEF IsKilling
<1>4. ~timing'[t] /\ \A v \in Tids : timing'[v] => timing[v]
  BY <1>1 DEF TypeOK, BlockType
<1>5. FreelistDistinct' /\ FreeIsUnowned' /\ ListedIsOwned' /\ UnallocatedFree'
  BY <1>1 DEF FreelistDistinct, FreeIsUnowned, Free, ListedIsOwned, UnallocatedFree
<1>6. OwnedIsListed' /\ KilledIsOwned'
  BY <1>1, <1>3 DEF OwnedIsListed, KilledIsOwned
<1>7. FreeBlocksIdle'
  BY <1>1, <1>4 DEF FreeBlocksIdle
<1>8. PendingOwned'
  BY <1>1, <1>2 DEF PendingOwned
<1>9. FreeingIdle'
  <2>1. \A u \in Threads : call[u].op = "free" => call[u].tid \in Tids
    BY DEF TypeOK, CallType
  <2> QED BY <1>2, <1>4, <2>1 DEF FreeingIdle
<1> QED BY <1>5, <1>6, <1>7, <1>8, <1>9

\* The release puts an idle block, which its client no longer lists, into the
\* free list once (timer.cpp:693).
LEMMA FreeOwner ==
  ASSUME SingleThreaded, TypeOK, OwnerInv, NEW th \in Threads, FreeBlock(th)
  PROVE  OwnerInv'
<1> USE TimerAssumption
<1> DEFINE t == call[th].tid
           c == Owner[th]
<1>1. /\ call[th].op = "free" /\ t \in Tids
      /\ freelist' = Append(freelist, t)
      /\ client' = [client EXCEPT ![t] = NULL]
      /\ call' = [call EXCEPT ![th] = Idle]
      /\ UNCHANGED <<pool, timing, timers>>
  BY DEF FreeBlock, Return, TypeOK, CallType
<1>2. IsKilling(th, t) /\ client[t] = c /\ t \notin timers[c] /\ c \in Clients /\ c # NULL
  BY <1>1 DEF IsKilling, KilledIsOwned
<1>3. /\ call'[th].op = "idle"
      /\ \A u \in Threads : u # th => call'[u] = call[u]
  BY <1>1 DEF TypeOK, CallType, Idle, InCall
<1>4. \A u \in Threads, v \in Tids : u # th => (IsKilling(u, v)' <=> IsKilling(u, v))
  BY <1>3 DEF IsKilling
<1>5. \A v \in Tids : ~IsKilling(th, v)' /\ (IsKilling(th, v) => v = t)
  BY <1>3 DEF IsKilling
<1>6. \A u \in Threads : IsKilling(u, t) => u = th
  BY <1>1, <1>2 DEF KilledIsOwned, SingleThreaded
<1>7. client'[t] = NULL /\ \A v \in Tids : v # t => client'[v] = client[v]
  BY <1>1 DEF TypeOK, BlockType
<1> HIDE DEF t, c
<1>8. t <= pool /\ \A i \in DOMAIN freelist : freelist[i] # t
  BY <1>1, <1>2 DEF FreeIsUnowned, Free, UnallocatedFree, Tids, TypeOK, ListType
<1>9. /\ Len(freelist) \in Nat /\ DOMAIN freelist = 1..Len(freelist)
      /\ DOMAIN freelist' = 1..(Len(freelist) + 1)
      /\ freelist'[Len(freelist) + 1] = t
      /\ \A i \in 1..Len(freelist) : freelist'[i] = freelist[i]
  BY <1>1 DEF TypeOK, ListType
<1>10. FreelistDistinct'
  BY <1>8, <1>9 DEF FreelistDistinct
<1>11. \A v \in Tids : Free(v)' <=> (Free(v) \/ v = t)
  BY <1>9 DEF Free
<1>12. FreeIsUnowned'
  BY <1>1, <1>7, <1>8, <1>11 DEF FreeIsUnowned
<1>13. ListedIsOwned'
  <2>1. \A d \in Clients : timers[d] \subseteq Tids /\ t \notin timers[d]
    BY <1>2 DEF ListedIsOwned, TypeOK, ListType
  <2> QED BY <1>1, <1>7, <2>1 DEF ListedIsOwned
<1>14. OwnedIsListed'
  <2> SUFFICES ASSUME NEW v \in Tids, client'[v] # NULL
               PROVE  \/ v \in timers[client'[v]]
                      \/ \E u \in Threads : IsKilling(u, v)'
    BY <1>1 DEF OwnedIsListed
  <2>1. v # t /\ client'[v] = client[v]
    BY <1>7
  <2>2. v \in timers[client[v]] \/ \E u \in Threads : IsKilling(u, v)
    BY <2>1 DEF OwnedIsListed
  <2> QED BY <1>4, <1>5, <2>1, <2>2
<1>15. KilledIsOwned'
  <2> SUFFICES ASSUME NEW v \in Tids, NEW u \in Threads, IsKilling(u, v)'
               PROVE  client'[v] = Owner[u] /\ v \notin timers[Owner[u]]
    BY <1>1 DEF KilledIsOwned
  <2>1. u # th /\ IsKilling(u, v)
    BY <1>4, <1>5
  <2>2. v # t
    BY <1>6, <2>1
  <2> QED BY <1>7, <2>1, <2>2 DEF KilledIsOwned
<1>16. FreeBlocksIdle' /\ UnallocatedFree'
  <2>1. ~timing[t]
    BY <1>1 DEF FreeingIdle, t
  <2> QED BY <1>1, <1>7, <2>1 DEF FreeBlocksIdle, UnallocatedFree
<1>17. PendingOwned' /\ FreeingIdle'
  BY <1>1, <1>3 DEF PendingOwned, FreeingIdle
<1> QED BY <1>10, <1>12, <1>13, <1>14, <1>15, <1>16, <1>17

\* One step of any thread keeps the ownership invariant.
LEMMA OwnerStep ==
  ASSUME SingleThreaded, TypeOK, OwnerInv, [Next]_vars
  PROVE  OwnerInv'
<1> USE TimerAssumption
<1>1. ASSUME NEW th \in Threads, SetTimer(th) \/ StopTimer(th) PROVE OwnerInv'
  <2>1. UNCHANGED <<pool, freelist, client, timers, timing>> /\ call[th].op = "idle"
    BY <1>1 DEF SetTimer, StopTimer, Ready, Idle, InCall, blockVars
  <2>2. CASE SetTimer(th)
    <3>1. PICK t \in Tids, ty \in Types, d \in Durations :
            /\ t \in timers[Owner[th]]
            /\ call' = [call EXCEPT ![th] =
                          [op |-> "set", tid |-> t, type |-> ty, duration |-> d]]
      BY <2>2 DEF SetTimer, OwnsTimer
    <3> DEFINE r == [op |-> "set", tid |-> t, type |-> ty, duration |-> d]
    <3>2. call' = [call EXCEPT ![th] = r] /\ r.op = "set" /\ r.tid = t
      BY <3>1
    <3> HIDE DEF r
    <3> QED BY <2>1, <3>1, <3>2, OwnerFrame
  <2>3. CASE StopTimer(th)
    <3>1. PICK t \in Tids :
            /\ t \in timers[Owner[th]]
            /\ call' = [call EXCEPT ![th] = InCall("stop", t)]
      BY <2>3 DEF StopTimer, OwnsTimer
    <3>2. InCall("stop", t).op = "stop" /\ InCall("stop", t).tid = t
      BY DEF InCall
    <3> QED BY <2>1, <3>1, <3>2, OwnerFrame
  <2> QED BY <1>1, <2>2, <2>3
<1>2. ASSUME NEW th \in Threads, SetTimerLocked(th) \/ LoopTimerLocked(th) PROVE OwnerInv'
  <2> DEFINE t == call[th].tid
  <2>1. /\ call' = [call EXCEPT ![th] = Idle]
        /\ timing' = [timing EXCEPT ![t] = TRUE]
        /\ UNCHANGED <<pool, freelist, client, timers>>
        /\ call[th].op \in {"set", "loop"}
    BY <1>2 DEF SetTimerLocked, LoopTimerLocked, Rearm, Return, Locked
  <2>2. t \in timers[Owner[th]]
    BY <2>1 DEF PendingOwned
  <2>3. \A v \in Tids : timing'[v] => timing[v] \/ v \in timers[Owner[th]]
    BY <2>1, <2>2 DEF TypeOK, BlockType
  <2>4. Idle.op = "idle"
    BY DEF Idle, InCall
  <2> QED BY <2>1, <2>3, <2>4, OwnerFrame
<1>3. ASSUME NEW th \in Threads, StopTimerLocked(th) PROVE OwnerInv'
  <2> DEFINE t == call[th].tid
  <2>1. /\ call' = [call EXCEPT ![th] = Idle]
        /\ timing' = [timing EXCEPT ![t] = FALSE]
        /\ UNCHANGED <<pool, freelist, client, timers>>
        /\ call[th].op = "stop"
    BY <1>3 DEF StopTimerLocked, Return, Locked
  <2>2. \A v \in Tids : timing'[v] => timing[v]
    BY <2>1 DEF TypeOK, BlockType
  <2>3. Idle.op = "idle"
    BY DEF Idle, InCall
  <2> QED BY <2>1, <2>2, <2>3, OwnerFrame
<1>4. ASSUME NEW th \in Threads, WaitTimerMessage(th) PROVE OwnerInv'
  <2> DEFINE m == Head(queue[Owner[th]])
  <2>1. UNCHANGED <<pool, freelist, client, timers, timing>> /\ call[th].op = "idle"
    BY <1>4 DEF WaitTimerMessage, Ready, Idle, InCall, blockVars
  <2>2. CASE call' = call
    BY <2>1, <2>2, OwnerScanFrame
  <2>3. CASE /\ m.tid \in timers[Owner[th]]
             /\ call' = [call EXCEPT ![th] = InCall("loop", m.tid)]
    <3>1. InCall("loop", m.tid).op = "loop" /\ InCall("loop", m.tid).tid = m.tid
      BY DEF InCall
    <3> QED BY <2>1, <2>3, <3>1, OwnerFrame
  <2> QED BY <1>4, <2>2, <2>3 DEF WaitTimerMessage, OwnsTimer
<1>5. ASSUME ScanExpire PROVE OwnerInv'
  <2>1. PICK e \in table : timing' = [timing EXCEPT ![e.tid] = FALSE]
    BY <1>5 DEF ScanExpire
  <2>2. \A v \in Tids : timing'[v] => timing[v]
    BY <2>1 DEF TypeOK, BlockType
  <2> QED BY <1>5, <2>2, OwnerScanFrame DEF ScanExpire
<1>6. CASE ScanBegin \/ ScanHook \/ ScanEnd \/ Tick \/ Dead \/ UNCHANGED vars
  <2>1. UNCHANGED <<pool, freelist, client, timers, call, timing>>
    BY <1>6 DEF ScanBegin, ScanHook, ScanEnd, Tick, Dead, vars, blockVars
  <2> QED BY <2>1, OwnerScanFrame
<1>7. ASSUME NEW th \in Threads, ClientStep(th) PROVE OwnerInv'
  BY <1>1, <1>2, <1>3, <1>4, <1>7, CreateOwner, KillOwner, RemoveOwner, FreeOwner
     DEF ClientStep
<1> QED BY <1>5, <1>6, <1>7 DEF Next

\* After TimerManager::Start (timer.cpp:327) the blocks are all free.
LEMMA OwnerInit == ASSUME Init PROVE OwnerInv
<1> USE TimerAssumption
<1>1. FreelistDistinct /\ FreeIsUnowned
  BY DEF Init, FreelistDistinct, FreeIsUnowned, Free, Tids
<1>2. \A th \in Threads : call[th].op = "idle"
  BY DEF Init, Idle, InCall
<1> QED BY <1>1, <1>2 DEF Init, ListedIsOwned, OwnedIsListed, KilledIsOwned, IsKilling,
                          FreeBlocksIdle, PendingOwned, UnallocatedFree, FreeingIdle

\* When every client is served by one thread, no block is ever lost, shared or
\* released while it runs.
THEOREM BlocksSafe ==
  ASSUME SingleThreaded
  PROVE  Spec => [](BlocksAccountedFor /\ FreeBlocksIdle)
<1>1. Init => OwnerInv
  BY OwnerInit
<1>2. TypeOK /\ OwnerInv /\ [Next]_vars => OwnerInv'
  BY OwnerStep
<1>3. OwnerInv => BlocksAccountedFor /\ FreeBlocksIdle
  OBVIOUS
<1> HIDE DEF OwnerInv, BlocksAccountedFor
<1> QED BY <1>1, <1>2, <1>3, TypeCorrect, PTL DEF Spec
\* CreateTimer takes a block that has no client (timer.cpp:506).
LEMMA TakenUnowned ==
  ASSUME TypeOK, OwnerInv, NEW th \in Threads, CreateTimer(th)
  PROVE  \E t \in Tids : /\ client[t] = NULL
                         /\ client' = [client EXCEPT ![t] = Owner[th]]
                         /\ armer' = [armer EXCEPT ![t] = NULL]
<1> USE TimerAssumption
<1> DEFINE available == IF freelist = <<>> THEN Batch ELSE freelist
           t == Head(available)
<1>1. available \in Seq(Tids) /\ available # <<>> /\ t \in Tids
  BY AvailableType DEF CreateTimer
<1>2. client' = [client EXCEPT ![t] = Owner[th]] /\ armer' = [armer EXCEPT ![t] = NULL]
  BY DEF CreateTimer
<1>3. client[t] = NULL
  <2>1. CASE freelist = <<>>
    <3>1. t = pool + 1 /\ pool \in Nat
      BY <2>1 DEF Batch, TypeOK, ListType
    <3> QED BY <1>1, <3>1 DEF UnallocatedFree
  <2>2. CASE freelist # <<>>
    <3>1. 1 \in DOMAIN freelist /\ freelist[1] = t
      BY <2>2 DEF TypeOK, ListType
    <3> QED BY <1>1, <3>1 DEF FreeIsUnowned, Free
  <2> QED BY <2>1, <2>2
<1> HIDE DEF t
<1> QED BY <1>1, <1>2, <1>3

\* What a step does to a block: its flow never decreases, and only with a new
\* flow does it get a new arming or another type, or lose its client.
BlockFrame ==
  /\ \A t \in Tids :
       /\ flow[t] <= flow'[t]
       /\ flow'[t] = flow[t] => /\ arm'[t] = arm[t]
                                /\ timerType'[t] = timerType[t]
                                /\ client[t] # NULL => client'[t] = client[t]
  /\ freedInTable => freedInTable'

\* Every step of a client or of the scan thread is of that kind.
LEMMA StepFrame ==
  ASSUME TypeOK, OwnerInv, [Next]_vars
  PROVE  BlockFrame
<1> USE TimerAssumption DEF BlockFrame
<1>0. \A t \in Tids : flow[t] \in Nat
  BY DEF TypeOK, BlockType
<1>1. ASSUME UNCHANGED <<flow, arm, timerType, client, freedInTable>> PROVE BlockFrame
  BY <1>0, <1>1
<1>2. ASSUME NEW th \in Threads, CreateTimer(th) PROVE BlockFrame
  <2>1. UNCHANGED <<flow, arm, timerType, freedInTable>>
    BY <1>2 DEF CreateTimer
  <2>2. PICK t \in Tids : client[t] = NULL /\ client' = [client EXCEPT ![t] = Owner[th]]
    BY <1>2, TakenUnowned
  <2> QED BY <1>0, <2>1, <2>2 DEF TypeOK, BlockType
<1>3. ASSUME NEW th \in Threads, SetTimerLocked(th) \/ LoopTimerLocked(th) PROVE BlockFrame
  <2> DEFINE t == call[th].tid
  <2>1. /\ flow' = [flow EXCEPT ![t] = @ + Increments(t)]
        /\ arm' = [arm EXCEPT ![t] = @ + 1]
        /\ \A u \in Tids : u # t => timerType'[u] = timerType[u]
        /\ UNCHANGED <<client, freedInTable>>
    BY <1>3 DEF SetTimerLocked, LoopTimerLocked, Rearm, TypeOK, BlockType
  <2>2. Increments(t) \in {1, 2}
    BY DEF Increments
  <2> HIDE DEF t
  <2> QED BY <1>0, <2>1, <2>2 DEF TypeOK, BlockType, HistoryType
<1>4. ASSUME NEW th \in Threads, StopTimerLocked(th) \/ RemoveForKill(th) PROVE BlockFrame
  <2> DEFINE t == call[th].tid
  <2>1. PICK k \in {0, 1, 2} : flow' = [flow EXCEPT ![t] = @ + k]
    <3>0. t \in Tids /\ flow[t] \in Nat
      BY <1>4, <1>0 DEF StopTimerLocked, RemoveForKill, Locked, TypeOK, CallType
    <3>1. CASE timing[t]
      BY <1>4, <3>1 DEF StopTimerLocked, RemoveForKill
    <3>2. CASE ~timing[t]
      <4>1. flow' = [flow EXCEPT ![t] = flow[t]]
        BY <1>4, <3>2 DEF StopTimerLocked, RemoveForKill
      <4>2. flow[t] + 0 = flow[t]
        BY <3>0
      <4> QED BY <4>1, <4>2
    <3> QED BY <3>1, <3>2
  <2>2. UNCHANGED <<arm, timerType, client, freedInTable>>
    BY <1>4 DEF StopTimerLocked, RemoveForKill, history
  <2> HIDE DEF t
  <2> QED BY <1>0, <2>1, <2>2 DEF TypeOK, BlockType
<1>5. ASSUME NEW th \in Threads, FreeBlock(th) PROVE BlockFrame
  <2> DEFINE t == call[th].tid
  <2>1. /\ flow' = [flow EXCEPT ![t] = @ + 1]
        /\ client' = [client EXCEPT ![t] = NULL]
        /\ UNCHANGED <<arm, timerType>>
        /\ freedInTable => freedInTable'
    BY <1>5 DEF FreeBlock, IncrementOnFree
  <2> HIDE DEF t
  <2> QED BY <1>0, <2>1 DEF TypeOK, BlockType
<1>6. CASE ScanBegin \/ ScanExpire \/ ScanHook \/ ScanEnd \/ Tick \/ Dead \/ UNCHANGED vars
  BY <1>1, <1>6 DEF ScanBegin, ScanExpire, ScanHook, ScanEnd, Tick, Dead, vars, blockVars,
                    history
<1>7. ASSUME NEW th \in Threads,
             SetTimer(th) \/ StopTimer(th) \/ KillTimer(th) \/ WaitTimerMessage(th)
      PROVE  BlockFrame
  BY <1>1, <1>7 DEF SetTimer, StopTimer, KillTimer, WaitTimerMessage, blockVars, history
<1>8. ASSUME NEW th \in Threads, ClientStep(th) PROVE BlockFrame
  BY <1>2, <1>3, <1>4, <1>5, <1>7, <1>8 DEF ClientStep
<1> HIDE DEF BlockFrame
<1> QED BY <1>6, <1>8 DEF Next

\* A message stays sound in every step, whatever happens to its block.
LEMMA MessageStable ==
  ASSUME TypeOK, BlockFrame, NEW c \in Clients, NEW m \in Messages,
         flow'[m.tid] \in Nat, MessageOK(c, m)
  PROVE  MessageOK(c, m)'
<1> USE TimerAssumption
<1>1. m.tid \in Tids /\ m.count \in Nat
  BY DEF Messages
<1>2. flow[m.tid] \in Nat /\ flow[m.tid] <= flow'[m.tid]
  BY <1>1 DEF BlockFrame, TypeOK, BlockType
<1>3. m.count <= flow'[m.tid]
  BY <1>1, <1>2 DEF MessageOK
<1>4. ASSUME ~freedInTable', m.count = flow'[m.tid]
      PROVE  m.arm = arm'[m.tid] /\ m.armer = c /\ client'[m.tid] = c
  <2>1. flow[m.tid] = flow'[m.tid] /\ ~freedInTable
    BY <1>1, <1>2, <1>4 DEF MessageOK, BlockFrame
  <2>2. m.arm = arm[m.tid] /\ m.armer = c /\ client[m.tid] = c
    BY <1>4, <2>1 DEF MessageOK
  <2> QED BY <1>1, <2>1, <2>2 DEF BlockFrame
<1>5. ASSUME m.count = flow'[m.tid] PROVE m.type = timerType'[m.tid]
  <2>1. flow[m.tid] = flow'[m.tid] /\ m.type = timerType[m.tid]
    BY <1>1, <1>2, <1>5 DEF MessageOK
  <2> QED BY <1>1, <2>1 DEF BlockFrame
<1> QED BY <1>3, <1>4, <1>5 DEF MessageOK

\* Queues change by taking the first message or by the push of a hook.
LEMMA MessagesStep ==
  ASSUME TypeOK, TypeOK', BlockFrame, ArmedOwned, MessagesOK, [Next]_vars
  PROVE  MessagesOK'
<1> USE TimerAssumption
<1>0. \A c \in Clients : queue[c] \in Seq(Messages)
  BY DEF TypeOK
<1>1. \A c \in Clients : \A m \in Messages : MessageOK(c, m) => MessageOK(c, m)'
  <2> SUFFICES ASSUME NEW c \in Clients, NEW m \in Messages, MessageOK(c, m)
               PROVE  MessageOK(c, m)'
    OBVIOUS
  <2>1. flow'[m.tid] \in Nat
    BY DEF TypeOK, BlockType, Messages
  <2> QED BY <2>1, MessageStable
<1>2. \A c \in Clients : \A i \in DOMAIN queue[c] :
        queue[c][i] \in Messages /\ MessageOK(c, queue[c][i])
  BY <1>0 DEF MessagesOK
<1>3. ASSUME UNCHANGED queue PROVE MessagesOK'
  <2> SUFFICES ASSUME NEW c \in Clients, NEW i \in DOMAIN queue'[c]
               PROVE  MessageOK(c, queue[c][i])'
    BY DEF MessagesOK
  <2>1. PICK m \in Messages : m = queue[c][i] /\ MessageOK(c, m)
    BY <1>2, <1>3
  <2>2. MessageOK(c, m)' /\ m = queue'[c][i]
    BY <1>1, <1>3, <2>1
  <2> QED BY <2>2
<1>4. ASSUME NEW th \in Threads, WaitTimerMessage(th) PROVE MessagesOK'
  <2> DEFINE d == Owner[th]
  <2>1. queue[d] # <<>> /\ queue' = [queue EXCEPT ![d] = Tail(@)] /\ d \in Clients
    BY <1>4 DEF WaitTimerMessage
  <2> HIDE DEF d
  <2> SUFFICES ASSUME NEW c \in Clients, NEW i \in DOMAIN queue'[c]
               PROVE  MessageOK(c, queue[c][i])'
    BY DEF MessagesOK
  <2>2. \E j \in DOMAIN queue[c] : queue[c][j] = queue'[c][i]
    <3>1. CASE c = d
      <4>1. queue'[c] = Tail(queue[c]) /\ queue[c] \in Seq(Messages) /\ queue[c] # <<>>
        BY <1>0, <2>1, <3>1 DEF TypeOK
      <4>2. i + 1 \in DOMAIN queue[c] /\ queue[c][i + 1] = queue'[c][i]
        BY <4>1
      <4> QED BY <4>2
    <3>2. CASE c # d
      BY <2>1, <3>2 DEF TypeOK
    <3> QED BY <3>1, <3>2
  <2>3. PICK m \in Messages : m = queue'[c][i] /\ MessageOK(c, m)
    BY <1>2, <2>2
  <2>4. MessageOK(c, m)'
    BY <1>1, <2>3
  <2> QED BY <2>3, <2>4
<1>5. ASSUME ScanHook PROVE MessagesOK'
  <2>1. PICK e \in firing :
          \/ UNCHANGED queue
          \/ /\ client[e.tid] # NULL
             /\ queue' = [queue EXCEPT ![client[e.tid]] = Append(@, TimeoutMessage(e.tid))]
    BY <1>5 DEF ScanHook
  <2> DEFINE t == e.tid
             n == TimeoutMessage(t)
  <2>2. t \in Tids /\ e \in table /\ flow[t] \in Nat
    BY DEF TypeOK, ScanType, Entries, BlockType
  <2>3. CASE UNCHANGED queue
    BY <1>3, <2>3
  <2>4. CASE client[t] # NULL /\ queue' = [queue EXCEPT ![client[t]] = Append(@, n)]
    <3> DEFINE d == client[t]
    <3>1. d \in Clients
      BY <2>2, <2>4 DEF TypeOK, BlockType
    <3>2. n \in Messages
      <4>1. FlowNumber(flow[t]) \in 0..(FlowModulus - 1)
        BY <2>2 DEF FlowNumber
      <4>2. /\ timerType[t] \in AllTypes /\ arm[t] \in Nat
            /\ armer[t] \in Clients \cup {NULL}
        BY <2>2 DEF TypeOK, BlockType, HistoryType
      <4> QED BY <2>2, <4>1, <4>2 DEF TimeoutMessage, Messages
    <3>3. MessageOK(d, n)
      <4>1. /\ n.tid = t /\ n.flow = FlowNumber(flow[t]) /\ n.count = flow[t]
            /\ n.arm = arm[t] /\ n.armer = armer[t] /\ n.type = timerType[t]
        BY DEF TimeoutMessage
      <4>2. flow[t] >= 1 /\ (~freedInTable => armer[t] = d)
        BY <2>2 DEF ArmedOwned
      <4> HIDE DEF n
      <4> QED BY <2>2, <4>1, <4>2 DEF MessageOK
    <3> HIDE DEF n, d
    <3> SUFFICES ASSUME NEW c \in Clients, NEW i \in DOMAIN queue'[c]
                 PROVE  MessageOK(c, queue[c][i])'
      BY DEF MessagesOK
    <3>4. \/ c = d /\ queue'[c][i] = n
          \/ \E j \in DOMAIN queue[c] : queue[c][j] = queue'[c][i]
      <4>1. CASE c = d
        <5>1. queue'[c] = Append(queue[c], n) /\ queue[c] \in Seq(Messages)
          BY <1>0, <2>4, <3>1, <4>1 DEF TypeOK, d
        <5>2. CASE i = Len(queue[c]) + 1
          BY <3>2, <4>1, <5>1, <5>2
        <5>3. CASE i # Len(queue[c]) + 1
          <6>1. i \in DOMAIN queue[c] /\ queue[c][i] = queue'[c][i]
            BY <3>2, <5>1, <5>3
          <6> QED BY <6>1
        <5> QED BY <5>2, <5>3
      <4>2. CASE c # d
        <5>1. queue'[c] = queue[c]
          BY <2>4, <3>1, <4>2 DEF TypeOK, d
        <5> QED BY <5>1
      <4> QED BY <4>1, <4>2
    <3>5. PICK m \in Messages : m = queue'[c][i] /\ MessageOK(c, m)
      BY <1>2, <3>2, <3>3, <3>4
    <3>6. MessageOK(c, m)'
      BY <1>1, <3>5
    <3> QED BY <3>5, <3>6
  <2> QED BY <2>1, <2>3, <2>4
<1>6. CASE ScanBegin \/ ScanExpire \/ ScanEnd \/ Tick \/ Dead \/ UNCHANGED vars
  BY <1>3, <1>6 DEF ScanBegin, ScanExpire, ScanEnd, Tick, Dead, vars
<1>7. ASSUME NEW th \in Threads, ClientStep(th) PROVE MessagesOK'
  BY <1>3, <1>4, <1>7 DEF ClientStep, CreateTimer, SetTimer, SetTimerLocked, StopTimer,
     StopTimerLocked, KillTimer, RemoveForKill, FreeBlock, LoopTimerLocked
<1> QED BY <1>5, <1>6, <1>7 DEF Next

\* Every entry of the scan table belongs to the client that owns its block, as
\* long as no block was released with its entry in the table.
LEMMA ArmedStep ==
  ASSUME TypeOK, OwnerInv, ArmedOwned, BlockFrame, TypeOK', [Next]_vars
  PROVE  ArmedOwned'
<1> USE TimerAssumption
<1>0. \A e \in table : e.tid \in Tids
  BY DEF TypeOK, ScanType, Entries
<1>f. \A t \in Tids : flow[t] \in Nat /\ flow'[t] \in Nat /\ flow[t] <= flow'[t]
  BY DEF TypeOK, BlockType, BlockFrame
<1>1. ASSUME UNCHANGED <<client, armer>>, table' \subseteq table PROVE ArmedOwned'
  BY <1>0, <1>f, <1>1 DEF ArmedOwned, BlockFrame
<1>2. ASSUME NEW th \in Threads, CreateTimer(th) PROVE ArmedOwned'
  <2>1. UNCHANGED <<flow, freedInTable, table>>
    BY <1>2 DEF CreateTimer
  <2>2. PICK t \in Tids : /\ client[t] = NULL
                          /\ client' = [client EXCEPT ![t] = Owner[th]]
                          /\ armer' = [armer EXCEPT ![t] = NULL]
    BY <1>2, TakenUnowned
  <2> QED BY <1>0, <2>1, <2>2 DEF ArmedOwned, TypeOK, BlockType, HistoryType
<1>3. ASSUME NEW th \in Threads, SetTimerLocked(th) \/ LoopTimerLocked(th) PROVE ArmedOwned'
  <2> DEFINE t == call[th].tid
  <2>1. PICK x : Rearm(t, x)
    BY <1>3 DEF SetTimerLocked, LoopTimerLocked
  <2>2. /\ call[th].op \in {"set", "loop"} /\ t \in Tids
        /\ armer' = [armer EXCEPT ![t] = Owner[th]]
        /\ UNCHANGED <<client, freedInTable>>
    BY <1>3 DEF SetTimerLocked, LoopTimerLocked, Locked, TypeOK, CallType
  <2>3. client[t] = Owner[th] /\ Owner[th] # NULL
    BY <2>2 DEF PendingOwned, ListedIsOwned
  <2>4. flow'[t] >= 1
    <3>1. flow' = [flow EXCEPT ![t] = @ + Increments(t)] /\ Increments(t) \in {1, 2}
      BY <2>1 DEF Rearm, Increments
    <3> QED BY <1>f, <2>2, <3>1 DEF TypeOK, BlockType
  <2>5. table' \subseteq table \cup {[time |-> x, tid |-> t]}
    BY <2>1 DEF Rearm, TableWithout
  <2>6. /\ armer'[t] = Owner[th]
        /\ \A u \in Tids : u # t => armer'[u] = armer[u]
    BY <2>2 DEF TypeOK, HistoryType
  <2> HIDE DEF t
  <2> SUFFICES ASSUME NEW e \in table'
               PROVE  /\ flow'[e.tid] >= 1
                      /\ ~freedInTable' => client'[e.tid] # NULL /\ armer'[e.tid] = client'[e.tid]
    BY DEF ArmedOwned
  <2>7. CASE e.tid = t
    BY <2>2, <2>3, <2>4, <2>6, <2>7
  <2>8. CASE e.tid # t
    <3>1. e \in table
      BY <2>5, <2>8
    <3>2. e.tid \in Tids /\ flow[e.tid] >= 1
      BY <1>0, <3>1 DEF ArmedOwned
    <3>3. flow'[e.tid] >= 1
      BY <1>f, <3>2
    <3> QED BY <2>2, <2>6, <2>8, <3>1, <3>2, <3>3 DEF ArmedOwned
  <2> QED BY <2>7, <2>8
<1>4. ASSUME NEW th \in Threads, StopTimerLocked(th) \/ RemoveForKill(th) PROVE ArmedOwned'
  <2>1. UNCHANGED <<client, armer>> /\ table' \subseteq table
    BY <1>4 DEF StopTimerLocked, RemoveForKill, TableWithout, history
  <2> QED BY <1>1, <2>1
<1>5. ASSUME NEW th \in Threads, FreeBlock(th) PROVE ArmedOwned'
  <2> DEFINE t == call[th].tid
  <2>1. /\ client' = [client EXCEPT ![t] = NULL]
        /\ UNCHANGED <<armer, table>>
        /\ freedInTable' = (freedInTable \/ \E e \in table : e.tid = t)
    BY <1>5 DEF FreeBlock
  <2> HIDE DEF t
  <2> SUFFICES ASSUME NEW e \in table
               PROVE  /\ flow'[e.tid] >= 1
                      /\ ~freedInTable' => client'[e.tid] # NULL /\ armer'[e.tid] = client'[e.tid]
    BY <2>1 DEF ArmedOwned
  <2>2. flow'[e.tid] >= 1
    BY <1>0, <1>f DEF ArmedOwned
  <2>3. ASSUME ~freedInTable' PROVE client'[e.tid] # NULL /\ armer'[e.tid] = client'[e.tid]
    BY <1>0, <2>1, <2>3 DEF ArmedOwned, TypeOK, BlockType
  <2> QED BY <2>2, <2>3
<1>6. CASE ScanBegin \/ ScanExpire \/ ScanHook \/ ScanEnd \/ Tick \/ Dead \/ UNCHANGED vars
  BY <1>1, <1>6 DEF ScanBegin, ScanExpire, ScanHook, ScanEnd, Tick, Dead, vars, blockVars,
                    history
<1>7. ASSUME NEW th \in Threads,
             SetTimer(th) \/ StopTimer(th) \/ KillTimer(th) \/ WaitTimerMessage(th)
      PROVE  ArmedOwned'
  BY <1>1, <1>7 DEF SetTimer, StopTimer, KillTimer, WaitTimerMessage, blockVars, history
<1>8. ASSUME NEW th \in Threads, ClientStep(th) PROVE ArmedOwned'
  BY <1>2, <1>3, <1>4, <1>5, <1>7, <1>8 DEF ClientStep
<1> QED BY <1>6, <1>8 DEF Next

\* The scan thread finds a block without a client only after an early release.
LEMMA CrashStep ==
  ASSUME TypeOK, ArmedOwned, BlockFrame, CrashOnlyAfterEarlyFree, [Next]_vars
  PROVE  CrashOnlyAfterEarlyFree'
<1>1. ASSUME UNCHANGED crashed PROVE CrashOnlyAfterEarlyFree'
  BY <1>1 DEF CrashOnlyAfterEarlyFree, BlockFrame
<1>2. CASE ScanHook
  <2>1. CASE UNCHANGED crashed
    BY <1>1, <2>1
  <2>2. CASE ~UNCHANGED crashed
    <3>1. PICK e \in firing : client[e.tid] = NULL
      BY <1>2, <2>2 DEF ScanHook
    <3>2. freedInTable
      BY <3>1 DEF ArmedOwned, TypeOK, ScanType
    <3> QED BY <3>2 DEF BlockFrame, CrashOnlyAfterEarlyFree
  <2> QED BY <2>1, <2>2
<1>3. CASE ScanBegin \/ ScanExpire \/ ScanEnd \/ Tick \/ Dead \/ UNCHANGED vars
  BY <1>1, <1>3 DEF ScanBegin, ScanExpire, ScanEnd, Tick, Dead, vars
<1>4. ASSUME NEW th \in Threads, ClientStep(th) PROVE CrashOnlyAfterEarlyFree'
  BY <1>1, <1>4 DEF ClientStep, CreateTimer, SetTimer, SetTimerLocked, StopTimer,
     StopTimerLocked, KillTimer, RemoveForKill, FreeBlock, WaitTimerMessage, LoopTimerLocked
<1> QED BY <1>2, <1>3, <1>4 DEF Next

\* A flow that has not wrapped is its own flow number.
LEMMA SmallFlow ==
  ASSUME NEW n \in Nat, n < FlowModulus
  PROVE  FlowNumber(n) = n
BY TimerAssumption DEF FlowNumber

\* A valid message with a flow number that has not wrapped was built from the
\* block as it is now.
LEMMA ValidIsPresent ==
  ASSUME TypeOK, NEW c \in Clients, NEW m \in Messages, MessageOK(c, m),
         ValidateTimer(m), flow[m.tid] < FlowModulus
  PROVE  m.count = flow[m.tid]
<1> USE TimerAssumption
<1>1. m.tid \in Tids /\ flow[m.tid] \in Nat /\ m.count \in Nat
  BY DEF TypeOK, BlockType, Messages
<1>2. m.count <= flow[m.tid] /\ 1 <= m.count /\ m.flow = FlowNumber(m.count)
  BY DEF MessageOK
<1>3. m.flow = m.count
  BY <1>1, <1>2, SmallFlow
<1>4. FlowNumber(flow[m.tid]) = flow[m.tid]
  BY <1>1, SmallFlow
<1> QED BY <1>2, <1>3, <1>4 DEF ValidateTimer, GetFlowNumber

\* What the code compares tells old messages from the last one.
LEMMA DeliveryImplies ==
  ASSUME TypeOK, MessagesOK
  PROVE  OnlyLastSetDelivers
<1> USE TimerAssumption
<1> SUFFICES ASSUME ~freedInTable, NEW c \in Clients, NEW i \in DOMAIN queue[c],
                    ValidateTimer(queue[c][i]), flow[queue[c][i].tid] < FlowModulus
             PROVE  LET m == queue[c][i]
                    IN  m.arm = arm[m.tid] /\ m.armer = c /\ client[m.tid] = c
  BY DEF OnlyLastSetDelivers
<1> DEFINE m == queue[c][i]
<1>1. m \in Messages /\ MessageOK(c, m)
  BY DEF TypeOK, MessagesOK
<1> HIDE DEF m
<1>2. m.count = flow[m.tid]
  BY <1>1, ValidIsPresent DEF m
<1> QED BY <1>1, <1>2 DEF MessageOK, m

\* When every client is served by one thread, the scan thread dies only after an
\* early release, and as long as there was none and the flow number of the block
\* has not wrapped, a client accepts only the message of its own last arming.
THEOREM DeliverySafe ==
  ASSUME SingleThreaded
  PROVE  Spec => [](CrashOnlyAfterEarlyFree /\ OnlyLastSetDelivers)
<1>1. Init => OwnerInv
  BY OwnerInit
<1>2. Init => DeliveryInv
  BY DEF Init, DeliveryInv, ArmedOwned, MessagesOK, CrashOnlyAfterEarlyFree
<1>3. TypeOK /\ OwnerInv /\ [Next]_vars => OwnerInv'
  BY OwnerStep
<1>4. TypeOK /\ TypeOK' /\ OwnerInv /\ DeliveryInv /\ [Next]_vars => DeliveryInv'
  <2> SUFFICES ASSUME TypeOK, TypeOK', OwnerInv, DeliveryInv, [Next]_vars
               PROVE  DeliveryInv'
    OBVIOUS
  <2> HIDE DEF OwnerInv
  <2>1. BlockFrame
    BY StepFrame
  <2> QED BY <2>1, MessagesStep, ArmedStep, CrashStep DEF DeliveryInv
<1>5. TypeOK /\ DeliveryInv => CrashOnlyAfterEarlyFree /\ OnlyLastSetDelivers
  BY DeliveryImplies DEF DeliveryInv
<1> HIDE DEF OwnerInv, BlocksAccountedFor
<1> QED BY <1>1, <1>2, <1>3, <1>4, <1>5, TypeCorrect, PTL DEF Spec

-----------------------------------------------------------------------------
(* A stopped timer *)

\* Wait calls LoopTimer only for a loop timer, and between its look at the message
\* and the lock nobody gives the timer another type.
LoopingIsLoop ==
  \A th \in Threads :
    call[th].op = "loop" /\ flow[call[th].tid] < FlowModulus
      => timerType[call[th].tid] = LOOP_TIMER

\* The calls to LoopTimer stay such calls in every step.
LEMMA LoopingStep ==
  ASSUME SingleThreaded, TypeOK, TypeOK', OwnerInv, MessagesOK, BlockFrame, LoopingIsLoop,
         [Next]_vars
  PROVE  LoopingIsLoop'
<1> USE TimerAssumption
<1> SUFFICES ASSUME NEW u \in Threads, call'[u].op = "loop",
                    flow'[call'[u].tid] < FlowModulus
             PROVE  timerType'[call'[u].tid] = LOOP_TIMER
  BY DEF LoopingIsLoop
<1> DEFINE t == call'[u].tid
<1>0. t \in Tids /\ flow[t] \in Nat /\ flow'[t] \in Nat /\ flow[t] <= flow'[t]
  <2>1. t \in Tids
    BY DEF TypeOK, CallType
  <2> QED BY <2>1 DEF TypeOK, BlockType, BlockFrame
<1>f. flow[t] < FlowModulus
  BY <1>0
<1>1. ASSUME call'[u] = call[u], timerType'[t] = timerType[t]
      PROVE  timerType'[t] = LOOP_TIMER
  BY <1>f, <1>1 DEF LoopingIsLoop
<1>2. ASSUME UNCHANGED <<call, timerType>> PROVE timerType'[t] = LOOP_TIMER
  BY <1>1, <1>2
<1>3. ASSUME NEW th \in Threads, UNCHANGED timerType, call'[th].op # "loop",
             \A v \in Threads : v # th => call'[v] = call[v]
      PROVE  timerType'[t] = LOOP_TIMER
  <2>1. u # th /\ call'[u] = call[u]
    BY <1>3
  <2> QED BY <1>1, <1>3, <2>1
<1>4. ASSUME NEW th \in Threads, SetTimerLocked(th) PROVE timerType'[t] = LOOP_TIMER
  <2> DEFINE s == call[th].tid
  <2>1. /\ call' = [call EXCEPT ![th] = Idle] /\ call[th].op = "set"
        /\ timerType' = [timerType EXCEPT ![s] = call[th].type]
    BY <1>4 DEF SetTimerLocked, Locked, Return
  <2>2. u # th /\ call'[u] = call[u]
    BY <2>1 DEF TypeOK, CallType, Idle, InCall
  <2>3. s \in timers[Owner[th]] /\ t \in timers[Owner[u]]
    BY <2>1, <2>2 DEF PendingOwned
  <2>4. s # t
    BY <2>2, <2>3 DEF ListedIsOwned, SingleThreaded
  <2>5. timerType'[t] = timerType[t]
    BY <1>0, <2>1, <2>4 DEF TypeOK, BlockType
  <2> QED BY <1>1, <2>2, <2>5
<1>5. ASSUME NEW th \in Threads, WaitTimerMessage(th) PROVE timerType'[t] = LOOP_TIMER
  <2> DEFINE c == Owner[th]
             m == Head(queue[c])
  <2>1. UNCHANGED <<timerType, flow>>
    BY <1>5 DEF WaitTimerMessage, blockVars
  <2>2. CASE call' = call
    BY <1>2, <2>1, <2>2
  <2>3. CASE call' # call
    <3>1. /\ ValidateTimer(m) /\ Rearms(m)
          /\ call' = [call EXCEPT ![th] = InCall("loop", m.tid)]
          /\ queue[c] # <<>>
      BY <1>5, <2>3 DEF WaitTimerMessage
    <3>2. m \in Messages /\ c \in Clients /\ m = queue[c][1] /\ 1 \in DOMAIN queue[c]
      BY <3>1 DEF TypeOK
    <3>3. MessageOK(c, m)
      BY <3>2 DEF MessagesOK
    <3> HIDE DEF m, c
    <3>4. CASE u = th
      <4>1. t = m.tid
        BY <3>1, <3>4 DEF TypeOK, CallType, InCall
      <4>2. m.count = flow[m.tid]
        BY <1>f, <3>1, <3>2, <3>3, <4>1, ValidIsPresent
      <4> QED BY <2>1, <3>1, <3>3, <4>1, <4>2 DEF MessageOK, Rearms
    <3>5. CASE u # th
      <4>1. call'[u] = call[u]
        BY <3>1, <3>5 DEF TypeOK, CallType
      <4> QED BY <1>1, <2>1, <4>1
    <3> QED BY <3>4, <3>5
  <2> QED BY <2>2, <2>3
<1>6. CASE ScanBegin \/ ScanExpire \/ ScanHook \/ ScanEnd \/ Tick \/ Dead \/ UNCHANGED vars
  BY <1>2, <1>6 DEF ScanBegin, ScanExpire, ScanHook, ScanEnd, Tick, Dead, vars, blockVars
<1>7. ASSUME NEW th \in Threads,
             CreateTimer(th) \/ SetTimer(th) \/ StopTimer(th) \/ StopTimerLocked(th)
               \/ KillTimer(th) \/ RemoveForKill(th) \/ FreeBlock(th) \/ LoopTimerLocked(th)
      PROVE  timerType'[t] = LOOP_TIMER
  <2>1. UNCHANGED timerType
    BY <1>7 DEF CreateTimer, SetTimer, StopTimer, StopTimerLocked, KillTimer, RemoveForKill,
       FreeBlock, LoopTimerLocked, blockVars
  <2>2. CASE CreateTimer(th)
    BY <1>2, <2>1, <2>2 DEF CreateTimer
  <2>3. CASE ~CreateTimer(th)
    <3>1. \A v \in Threads : v # th => call'[v] = call[v]
      BY <1>7, <2>3 DEF SetTimer, StopTimer, StopTimerLocked, KillTimer, RemoveForKill,
         FreeBlock, LoopTimerLocked, Return, TypeOK, CallType
    <3>2. call'[th].op # "loop"
      <4>1. CASE SetTimer(th)
        BY <4>1 DEF SetTimer, TypeOK, CallType
      <4>2. CASE StopTimer(th)
        BY <4>2 DEF StopTimer, InCall, TypeOK, CallType
      <4>3. CASE KillTimer(th)
        BY <4>3 DEF KillTimer, InCall, AfterKill, TypeOK, CallType
      <4>4. CASE RemoveForKill(th)
        BY <4>4 DEF RemoveForKill, InCall, TypeOK, CallType
      <4>5. CASE StopTimerLocked(th) \/ FreeBlock(th) \/ LoopTimerLocked(th)
        <5>1. call' = [call EXCEPT ![th] = Idle]
          BY <4>5 DEF StopTimerLocked, FreeBlock, LoopTimerLocked, Return
        <5> QED BY <5>1 DEF Idle, InCall, TypeOK, CallType
      <4> QED BY <1>7, <2>3, <4>1, <4>2, <4>3, <4>4, <4>5
    <3> QED BY <1>3, <2>1, <3>1, <3>2
  <2> QED BY <2>2, <2>3
<1>8. ASSUME NEW th \in Threads, ClientStep(th) PROVE timerType'[t] = LOOP_TIMER
  BY <1>4, <1>5, <1>7, <1>8 DEF ClientStep
<1> QED BY <1>6, <1>8 DEF Next

\* Only LoopTimer starts a timer again after StopTimer.
LEMMA StoppedStep ==
  ASSUME TypeOK, TypeOK', BlockFrame, LoopingIsLoop, StoppedStaysIdle, [Next]_vars
  PROVE  StoppedStaysIdle'
<1> USE TimerAssumption
<1> SUFFICES ASSUME NEW t \in Tids, stopped'[t], timing'[t], flow'[t] < FlowModulus
             PROVE  timerType'[t] = LOOP_TIMER
  BY DEF StoppedStaysIdle
<1>0. flow[t] < FlowModulus
  BY DEF TypeOK, BlockType, BlockFrame
<1>1. ASSUME stopped'[t] => stopped[t], timing'[t] => timing[t],
             timerType'[t] = timerType[t]
      PROVE  timerType'[t] = LOOP_TIMER
  BY <1>0, <1>1 DEF StoppedStaysIdle
<1>2. ASSUME NEW th \in Threads, CreateTimer(th) PROVE timerType'[t] = LOOP_TIMER
  <2>1. /\ UNCHANGED <<timing, timerType>>
        /\ \E s : stopped' = [stopped EXCEPT ![s] = FALSE]
    BY <1>2 DEF CreateTimer
  <2> QED BY <1>1, <2>1 DEF TypeOK, HistoryType
<1>3. ASSUME NEW th \in Threads, SetTimerLocked(th) PROVE timerType'[t] = LOOP_TIMER
  <2> DEFINE s == call[th].tid
  <2>1. /\ timing' = [timing EXCEPT ![s] = TRUE]
        /\ stopped' = [stopped EXCEPT ![s] = FALSE]
        /\ timerType' = [timerType EXCEPT ![s] = call[th].type]
    BY <1>3 DEF SetTimerLocked, Rearm
  <2> HIDE DEF s
  <2>2. s # t
    BY <2>1 DEF TypeOK, HistoryType
  <2>3. timing'[t] = timing[t] /\ stopped'[t] = stopped[t] /\ timerType'[t] = timerType[t]
    BY <2>1, <2>2 DEF TypeOK, BlockType, HistoryType
  <2> QED BY <1>1, <2>3
<1>4. ASSUME NEW th \in Threads, LoopTimerLocked(th) PROVE timerType'[t] = LOOP_TIMER
  <2> DEFINE s == call[th].tid
  <2>1. /\ timing' = [timing EXCEPT ![s] = TRUE]
        /\ UNCHANGED <<stopped, timerType>>
        /\ call[th].op = "loop"
    BY <1>4 DEF LoopTimerLocked, Rearm, Locked
  <2>2. CASE s = t
    BY <1>0, <2>1, <2>2 DEF LoopingIsLoop
  <2>3. CASE s # t
    BY <1>1, <2>1, <2>3 DEF TypeOK, BlockType
  <2> QED BY <2>2, <2>3
<1>5. ASSUME NEW th \in Threads, StopTimerLocked(th) PROVE timerType'[t] = LOOP_TIMER
  <2> DEFINE s == call[th].tid
  <2>1. /\ timing' = [timing EXCEPT ![s] = FALSE]
        /\ stopped' = [stopped EXCEPT ![s] = TRUE]
        /\ UNCHANGED timerType
    BY <1>5 DEF StopTimerLocked
  <2> HIDE DEF s
  <2>2. s # t
    BY <2>1 DEF TypeOK, BlockType
  <2> QED BY <1>1, <2>1, <2>2 DEF TypeOK, BlockType, HistoryType
<1>6. ASSUME NEW th \in Threads, RemoveForKill(th) PROVE timerType'[t] = LOOP_TIMER
  <2>1. /\ \E s : timing' = [timing EXCEPT ![s] = FALSE]
        /\ UNCHANGED <<stopped, timerType>>
    BY <1>6 DEF RemoveForKill, history
  <2> QED BY <1>1, <2>1 DEF TypeOK, BlockType
<1>7. CASE ScanExpire
  <2>1. /\ \E s : timing' = [timing EXCEPT ![s] = FALSE]
        /\ UNCHANGED <<stopped, timerType>>
    BY <1>7 DEF ScanExpire, history
  <2> QED BY <1>1, <2>1 DEF TypeOK, BlockType
<1>8. CASE ScanBegin \/ ScanHook \/ ScanEnd \/ Tick \/ Dead \/ UNCHANGED vars
  BY <1>1, <1>8 DEF ScanBegin, ScanHook, ScanEnd, Tick, Dead, vars, blockVars, history
<1>9. ASSUME NEW th \in Threads,
             SetTimer(th) \/ StopTimer(th) \/ KillTimer(th) \/ FreeBlock(th)
               \/ WaitTimerMessage(th)
      PROVE  timerType'[t] = LOOP_TIMER
  <2>1. UNCHANGED <<timing, stopped, timerType>>
    BY <1>9 DEF SetTimer, StopTimer, KillTimer, FreeBlock, WaitTimerMessage, blockVars, history
  <2> QED BY <1>1, <2>1
<1>10. ASSUME NEW th \in Threads, ClientStep(th) PROVE timerType'[t] = LOOP_TIMER
  BY <1>2, <1>3, <1>4, <1>5, <1>6, <1>9, <1>10 DEF ClientStep
<1> QED BY <1>7, <1>8, <1>10 DEF Next

\* When every client is served by one thread, a one-shot timer that was stopped does
\* not run until it is set again, although StopTimer leaves the flow number of a timer
\* alone whose expiry waits in the queue (timer.cpp:650): the expiry that Wait then
\* takes for valid carries the type the timer has, and only a loop timer is armed by it.
THEOREM StoppedSafe ==
  ASSUME SingleThreaded
  PROVE  Spec => []StoppedStaysIdle
<1> DEFINE IdleInv == MessagesOK /\ ArmedOwned /\ LoopingIsLoop /\ StoppedStaysIdle
<1>1. Init => OwnerInv
  BY OwnerInit
<1>2. Init => IdleInv
  BY DEF Init, MessagesOK, ArmedOwned, LoopingIsLoop, StoppedStaysIdle, Idle, InCall
<1>3. TypeOK /\ OwnerInv /\ [Next]_vars => OwnerInv'
  BY OwnerStep
<1>4. TypeOK /\ TypeOK' /\ OwnerInv /\ IdleInv /\ [Next]_vars => IdleInv'
  <2> SUFFICES ASSUME TypeOK, TypeOK', OwnerInv, IdleInv, [Next]_vars
               PROVE  IdleInv'
    OBVIOUS
  <2> HIDE DEF OwnerInv
  <2>1. BlockFrame
    BY StepFrame
  <2> QED BY <2>1, MessagesStep, ArmedStep, LoopingStep, StoppedStep
<1>5. IdleInv => StoppedStaysIdle
  OBVIOUS
<1> HIDE DEF OwnerInv, BlocksAccountedFor, IdleInv
<1> QED BY <1>1, <1>2, <1>3, <1>4, <1>5, TypeCorrect, PTL DEF Spec

\* RemoveTimer finds its key and no assertion after it is reached (timer.cpp:554, 606,
\* 657, 688), whatever any number of threads do to any timers.
THEOREM RemoveTimerSucceeds == Spec => []TableIsSound
BY ScanTableSafe, PTL DEF TableIsSound

\* When every client is served by one thread, KillTimer never releases a block that
\* runs (timer.cpp:683).
THEOREM FreeBlocksStayIdle ==
  ASSUME SingleThreaded
  PROVE  Spec => []FreeBlocksIdle
BY BlocksSafe, PTL

\* When every client is served by one thread, the scan thread dies only after a block
\* was released with its entry in the scan table (timer.cpp:467).
THEOREM ScanThreadSurvives ==
  ASSUME SingleThreaded
  PROVE  Spec => []CrashOnlyAfterEarlyFree
BY DeliverySafe, PTL

-----------------------------------------------------------------------------
(* The timer implements AlarmClock *)

\* The arithmetic of moments.  Its lemmas are about the operators of TimeValue only,
\* so that any values serve for the cases that MCTimeValue enumerates.
Moments == INSTANCE TimeValueProofs WITH
  MaxStart <- 0, MaxDuration <- 0, MaxLoops <- 0, MaxAt <- 0,
  start <- 0, duration <- 0, loops <- 0, timeout <- 0, at <- 0

USE TimeValueAssumption

\* Moments as SetTimer and LoopTimer store them: the milliseconds may be a whole second.
Stored == {tv \in TimeValues : tv.milisecond <= MsPerSec}

LEMMA SameStored == Stored = Moments!Stored
BY DEF Stored, Moments!Stored, TimeValues, Moments!TimeValues

\* A stored moment as a number.
LEMMA StoredMs ==
  ASSUME NEW tv \in Stored
  PROVE  Ms(tv) \in Nat
<1>1. Moments!Ms(tv) \in Nat
  BY SameStored, Moments!StoredFields
<1> QED BY <1>1 DEF Ms, Moments!Ms

\* Reading the clock is exact up to the last moment the fields can hold.
LEMMA ClockExact ==
  ASSUME NEW n \in Nat
  PROVE  /\ GetMonoTime(n) \in Stored
         /\ GetMonoTime(n).milisecond < MsPerSec
         /\ n <= Latest => Ms(GetMonoTime(n)) = n
<1>1. GetMonoTime(n) = Moments!GetMonoTime(n)
  BY DEF GetMonoTime, Moments!GetMonoTime
<1>2. GetMonoTime(n) \in Stored /\ GetMonoTime(n).milisecond < MsPerSec
  BY <1>1, SameStored, Moments!MonoTimeStored
<1>3. ASSUME n <= Latest PROVE Moments!Ms(GetMonoTime(n)) = n
  <2>1. n \div MsPerSec < Word
    BY <1>3, Moments!Representable DEF Latest
  <2> QED BY <1>1, <2>1, Moments!MonoTimeExact
<1> QED BY <1>2, <1>3 DEF Ms, Moments!Ms

\* Adding a duration is exact as long as nothing wraps, and storable in any case.
LEMMA AdditionExact ==
  ASSUME NEW tv \in Stored, NEW d \in Nat
  PROVE  /\ AddDuration(tv, d) \in Stored
         /\ d <= Longest /\ Ms(tv) + d <= Latest =>
              Ms(AddDuration(tv, d)) = Ms(tv) + d
<1>1. AddDuration(tv, d) = Moments!AddDuration(tv, d)
  BY DEF AddDuration, Moments!AddDuration, Carry, Moments!Carry
<1>2. AddDuration(tv, d) \in Stored
  BY <1>1, SameStored, Moments!CarryStored
<1>3. ASSUME d <= Longest, Ms(tv) + d <= Latest
      PROVE  Ms(AddDuration(tv, d)) = Ms(tv) + d
  <2>1. MsPerSec + d < Word
    BY <1>3, TimeValueAssumption DEF Longest
  <2>2. Ms(tv) + d \in Nat
    BY StoredMs
  <2>3. (Ms(tv) + d) \div MsPerSec < Word
    BY <1>3, <2>2, Moments!Representable DEF Latest
  <2>4. \A x : Moments!Ms(x) = Ms(x)
    BY DEF Ms, Moments!Ms
  <2> QED BY <1>1, <2>1, <2>3, <2>4, SameStored, Moments!CarryExact
<1> QED BY <1>2, <1>3

\* Scan's test never finds a moment expired that is still to come (timer.cpp:446).
LEMMA ExpiredIsDue ==
  ASSUME NEW n \in Nat, n <= Latest, NEW tv \in Stored, Expired(tv, GetMonoTime(n))
  PROVE  Ms(tv) <= n
<1>1. /\ GetMonoTime(n) \in Moments!Stored /\ tv \in Moments!Stored
      /\ GetMonoTime(n).milisecond < MsPerSec /\ Ms(GetMonoTime(n)) = n
  BY ClockExact, SameStored
<1>2. Moments!TimeLess(GetMonoTime(n), tv)
        <=> Moments!Ms(GetMonoTime(n)) < Moments!Ms(tv)
  BY <1>1, Moments!LessIsLess
<1>3. ~(n < Ms(tv))
  BY <1>1, <1>2 DEF Expired, TimeLess, Moments!TimeLess, Ms, Moments!Ms
<1> QED BY <1>3, StoredMs

\* An entry of the scan table is not due before those that precede it.
LEMMA KeyOrder ==
  ASSUME NEW one, NEW other, one.time \in Stored, other.time \in Stored,
         KeyLess(one, other)
  PROVE  Ms(one.time) <= Ms(other.time)
<1>1. CASE TimeLess(one.time, other.time)
  <2>1. Moments!TimeLess(one.time, other.time)
    BY <1>1 DEF TimeLess, Moments!TimeLess
  <2>2. Moments!Ms(one.time) <= Moments!Ms(other.time)
    BY <2>1, SameStored, Moments!LessIsNotLater
  <2> QED BY <2>2 DEF Ms, Moments!Ms
<1>2. CASE one.time = other.time
  <2>1. Ms(one.time) \in Nat
    BY StoredMs
  <2> QED BY <1>2, <2>1
<1> QED BY <1>1, <1>2 DEF KeyLess

\* Every expiry is a stored moment, and a scan works with a time that has been.
MomentsInv ==
  /\ \A t \in Tids : timeout[t] \in Stored
  /\ scanning => scanNow <= now

\* SetTimer and LoopTimer store what the addition gives, and nothing else writes an
\* expiry (timer.cpp:567, 612).
LEMMA MomentsStep ==
  ASSUME TypeOK, MomentsInv, [Next]_vars
  PROVE  MomentsInv'
<1> USE DEF MomentsInv
<1>1. ASSUME NEW th \in Threads, SetTimerLocked(th) PROVE MomentsInv'
  <2> DEFINE t == call[th].tid
             x == AddDuration(GetMonoTime(now), call[th].duration)
  <2>1. call[th].duration \in Nat /\ now \in Nat
    BY DEF TypeOK, CallType, Calls, HistoryType
  <2>2. x \in Stored
    BY <2>1, ClockExact, AdditionExact
  <2>3. timeout' = [timeout EXCEPT ![t] = x] /\ UNCHANGED <<scanVars, now>>
    BY <1>1 DEF SetTimerLocked, Rearm
  <2> HIDE DEF x, t
  <2> QED BY <2>2, <2>3 DEF TypeOK, BlockType, scanVars
<1>2. ASSUME NEW th \in Threads, LoopTimerLocked(th) PROVE MomentsInv'
  <2> DEFINE t == call[th].tid
             x == AddDuration(timeout[t], duration[t])
  <2>1. t \in Tids
    BY <1>2 DEF TypeOK, CallType, LoopTimerLocked, Locked
  <2>2. duration[t] \in Nat
    BY <2>1 DEF TypeOK, BlockType
  <2>3. x \in Stored
    BY <2>1, <2>2, AdditionExact
  <2>4. timeout' = [timeout EXCEPT ![t] = x] /\ UNCHANGED <<scanVars, now>>
    BY <1>2 DEF LoopTimerLocked, Rearm
  <2> HIDE DEF x, t
  <2> QED BY <2>3, <2>4 DEF TypeOK, BlockType, scanVars
<1>3. ASSUME NEW th \in Threads,
             \/ CreateTimer(th) \/ SetTimer(th) \/ StopTimer(th) \/ StopTimerLocked(th)
             \/ KillTimer(th) \/ RemoveForKill(th) \/ FreeBlock(th) \/ WaitTimerMessage(th)
      PROVE  MomentsInv'
  <2>1. UNCHANGED <<timeout, scanning, scanNow, now>>
    BY <1>3 DEF CreateTimer, SetTimer, StopTimer, StopTimerLocked, KillTimer,
                RemoveForKill, FreeBlock, WaitTimerMessage, blockVars, scanVars
  <2> QED BY <2>1
<1>4. CASE ScanBegin \/ ScanExpire \/ ScanHook \/ ScanEnd
  <2>1. /\ timeout' = timeout /\ now' = now /\ now \in Nat
        /\ scanning' => (scanNow' = now \/ (scanning /\ scanNow' = scanNow))
    BY <1>4 DEF ScanBegin, ScanExpire, ScanHook, ScanEnd, blockVars, TypeOK, HistoryType
  <2> QED BY <2>1
<1>5. CASE Tick
  <2>1. UNCHANGED <<timeout, scanning, scanNow>> /\ now' = now + 1
        /\ now \in Nat /\ scanNow \in Nat
    BY <1>5 DEF Tick, blockVars, scanVars, TypeOK, HistoryType, ScanType
  <2> QED BY <2>1
<1>6. CASE UNCHANGED vars
  BY <1>6 DEF vars, blockVars, scanVars
<1> QED BY <1>1, <1>2, <1>3, <1>4, <1>5, <1>6 DEF Next, ClientStep, Dead

\* Arming a block is arming its alarm, for any moment that the addition starts from.
LEMMA RearmIsSeen ==
  ASSUME TypeOK, NEW t \in Tids, NEW from \in Stored, NEW d \in Nat,
         NEW m \in Nat, m <= Latest => Ms(from) = m,
         timing' = [timing EXCEPT ![t] = TRUE],
         timeout' = [timeout EXCEPT ![t] = AddDuration(from, d)]
  PROVE  /\ {u \in Tids : timing'[u]} = {u \in Tids : timing[u]} \cup {t}
         /\ [u \in Tids |-> Ms(timeout'[u])]
              = [[u \in Tids |-> Ms(timeout[u])] EXCEPT ![t] = Ms(timeout'[t])]
         /\ Ms(timeout'[t]) \in Nat
         /\ d <= Longest /\ m + d <= Latest => Ms(timeout'[t]) = m + d
<1> DEFINE x == AddDuration(from, d)
<1>1. x \in Stored /\ Ms(x) \in Nat
  BY AdditionExact, StoredMs
<1>2. ASSUME d <= Longest, m + d <= Latest
      PROVE  Ms(x) = m + d
  <2>1. m <= Latest
    BY <1>2 DEF Latest
  <2> QED BY <1>2, <2>1, AdditionExact
<1> HIDE DEF x
<1>3. timing \in [Tids -> BOOLEAN] /\ timeout \in [Tids -> TimeValues]
  BY DEF TypeOK, BlockType
<1>4. {u \in Tids : timing'[u]} = {u \in Tids : timing[u]} \cup {t}
  BY <1>3
<1>5. timeout' = [timeout EXCEPT ![t] = x]
  BY DEF x
<1>6. timeout'[t] = x /\ \A u \in Tids : u # t => timeout'[u] = timeout[u]
  BY <1>3, <1>5
<1>7. [u \in Tids |-> Ms(timeout'[u])]
        = [[u \in Tids |-> Ms(timeout[u])] EXCEPT ![t] = Ms(timeout'[t])]
  <2>1. \A u \in Tids : u # t => Ms(timeout'[u]) = Ms(timeout[u])
    BY <1>6
  <2>2. ASSUME NEW f, NEW g, NEW y,
               f = [u \in Tids |-> Ms(timeout[u])], g = [u \in Tids |-> Ms(timeout'[u])],
               y = Ms(timeout'[t])
        PROVE  g = [f EXCEPT ![t] = y]
    BY <2>1, <2>2
  <2> QED BY <2>2
<1> QED BY <1>1, <1>2, <1>4, <1>6, <1>7

\* The calls that have something to do to an alarm.
LEMMA DoesCalls ==
  /\ DOMAIN Does = {"set", "loop", "stop", "remove"}
  /\ Does["set"] = "set" /\ Does["loop"] = "again"
  /\ Does["stop"] = "stop" /\ Does["remove"] = "stop"
BY DEF Does

LEMMA IdleDoesNothing == Idle.op \notin DOMAIN Does
BY DoesCalls DEF Idle, InCall

\* The calls of the other threads stay what they are.
LEMMA OthersWant ==
  ASSUME TypeOK, NEW th \in Threads, NEW c, call' = [call EXCEPT ![th] = c]
  PROVE  /\ call'[th] = c
         /\ \A x \in Threads : x # th => call'[x] = call[x] /\ Want(x)' = Want(x)
         /\ \A x \in Threads : Want(x).by = x /\ Want(x)'.by = x
BY DEF TypeOK, CallType, Want

\* A call that takes effect is one that was wanted, and no other.
LEMMA CallServed ==
  ASSUME TypeOK, NEW th \in Threads, NEW c, call' = [call EXCEPT ![th] = c],
         call[th].op \in DOMAIN Does, c.op \notin DOMAIN Does
  PROVE  \E w \in Wanted :
           /\ Wanted' = Wanted \ {w}
           /\ w.does = Does[call[th].op]
           /\ w.alarm = call[th].tid /\ w.period = call[th].duration
<1>1. /\ call'[th] = c
      /\ \A x \in Threads : x # th => call'[x] = call[x] /\ Want(x)' = Want(x)
      /\ \A x \in Threads : Want(x).by = x
  BY OthersWant
<1>2. \A w : w \in Wanted <=> \E x \in Threads : call[x].op \in DOMAIN Does /\ w = Want(x)
  BY DEF Wanted
<1>3. \A w : w \in Wanted' <=> \E x \in Threads : call'[x].op \in DOMAIN Does /\ w = Want(x)'
  BY DEF Wanted
<1>4. Want(th) \in Wanted /\ Wanted' = Wanted \ {Want(th)}
  BY <1>1, <1>2, <1>3
<1>5. /\ Want(th).does = Does[call[th].op]
      /\ Want(th).alarm = call[th].tid /\ Want(th).period = call[th].duration
  BY DEF Want
<1> QED BY <1>4, <1>5

\* A call that begins is the only one of its thread.
LEMMA CallBegun ==
  ASSUME TypeOK, NEW th \in Threads, NEW c \in Calls, call' = [call EXCEPT ![th] = c],
         call[th].op \notin DOMAIN Does, c.op \in DOMAIN Does, c.tid \in Tids,
         UNCHANGED <<timing, timeout, duration, firing, now>>
  PROVE  Alarm!Want
<1>1. /\ call'[th] = c
      /\ \A x \in Threads : x # th => call'[x] = call[x] /\ Want(x)' = Want(x)
      /\ \A x \in Threads : Want(x).by = x /\ Want(x)'.by = x
  BY OthersWant
<1>2. \A w : w \in Wanted <=> \E x \in Threads : call[x].op \in DOMAIN Does /\ w = Want(x)
  BY DEF Wanted
<1>3. \A w : w \in Wanted' <=> \E x \in Threads : call'[x].op \in DOMAIN Does /\ w = Want(x)'
  BY DEF Wanted
<1>4. Want(th)' = [by |-> th, does |-> Does[c.op], alarm |-> c.tid, period |-> c.duration]
  BY <1>1 DEF Want
<1>5. Does[c.op] \in {"set", "again", "stop"} /\ c.duration \in Nat
  BY DoesCalls DEF Calls
<1>6. Want(th)' \in Alarm!Wants
  BY <1>4, <1>5 DEF Alarm!Wants
<1>7. /\ Want(th)' \in Wanted' /\ Wanted' = Wanted \cup {Want(th)'}
      /\ \A w \in Wanted : w.by # th
  BY <1>1, <1>2, <1>3
<1>8. \E want \in Wanted' : /\ want \in Alarm!Wants
                            /\ \A other \in Wanted : other.by # want.by
                            /\ Wanted' = Wanted \cup {want}
  BY <1>1, <1>6, <1>7
<1> QED BY <1>8 DEF Alarm!Want

\* Nothing is wanted or served where a call only goes on or ends.
LEMMA CallGoesOn ==
  ASSUME TypeOK, NEW th \in Threads, NEW c, call' = [call EXCEPT ![th] = c],
         call[th].op \notin DOMAIN Does, c.op \notin DOMAIN Does
  PROVE  Wanted' = Wanted
<1>1. /\ call'[th] = c
      /\ \A x \in Threads : x # th => call'[x] = call[x] /\ Want(x)' = Want(x)
  BY OthersWant
<1>2. \A w : w \in Wanted <=> \E x \in Threads : call[x].op \in DOMAIN Does /\ w = Want(x)
  BY DEF Wanted
<1>3. \A w : w \in Wanted' <=> \E x \in Threads : call'[x].op \in DOMAIN Does /\ w = Want(x)'
  BY DEF Wanted
<1>4. Wanted' \subseteq Wanted /\ Wanted \subseteq Wanted'
  BY <1>1, <1>2, <1>3
<1> QED BY <1>4

\* While a thread has the scan table no hook is being called.
LEMMA NoneRings ==
  ASSUME TypeOK, ~scanning, firing' = firing
  PROVE  {e.tid : e \in firing} = {} /\ {e.tid : e \in firing'} = {}
BY DEF TypeOK, ScanType

\* SetTimer counts from the clock, LoopTimer from the expiry before.
LEMMA SetIsSeen ==
  ASSUME TypeOK, NEW th \in Threads, SetTimerLocked(th)
  PROVE  Alarm!Next
<1> DEFINE t == call[th].tid
           d == call[th].duration
<1>1. t \in Tids /\ d \in Nat /\ now \in Nat
  BY DEF TypeOK, CallType, Calls, HistoryType, SetTimerLocked, Locked
<1>w. PICK w \in Wanted : /\ Wanted' = Wanted \ {w}
                          /\ w.does = "set" /\ w.alarm = t /\ w.period = d
  <2>1. call' = [call EXCEPT ![th] = Idle] /\ call[th].op = "set"
    BY DEF SetTimerLocked, Locked, Return
  <2> QED BY <2>1, IdleDoesNothing, CallServed, DoesCalls
<1>2. /\ timing' = [timing EXCEPT ![t] = TRUE]
      /\ timeout' = [timeout EXCEPT ![t] = AddDuration(GetMonoTime(now), d)]
      /\ duration' = [duration EXCEPT ![t] = d] /\ now' = now
  BY DEF SetTimerLocked, Rearm
<1> HIDE DEF t, d
<1>4. GetMonoTime(now) \in Stored /\ (now <= Latest => Ms(GetMonoTime(now)) = now)
  BY <1>1, ClockExact
<1>5. /\ {u \in Tids : timing'[u]} = {u \in Tids : timing[u]} \cup {t}
      /\ [u \in Tids |-> Ms(timeout'[u])]
           = [[u \in Tids |-> Ms(timeout[u])] EXCEPT ![t] = Ms(timeout'[t])]
      /\ Ms(timeout'[t]) \in Nat
      /\ d <= Longest /\ now + d <= Latest => Ms(timeout'[t]) = now + d
  BY <1>1, <1>2, <1>4, RearmIsSeen
<1>6. [u \in Tids |-> Ms(timeout'[u])][t] = Ms(timeout'[t])
  BY <1>1
<1>7. {e.tid : e \in firing} = {} /\ {e.tid : e \in firing'} = {}
  BY NoneRings DEF SetTimerLocked, Locked, scanVars
<1>8. Alarm!Set(w)
  BY <1>1, <1>w, <1>2, <1>5, <1>6, <1>7 DEF Alarm!Set, Alarm!Serve, Alarm!Arm
<1> QED BY <1>w, <1>8 DEF Alarm!Next

LEMMA LoopIsSeen ==
  ASSUME TypeOK, MomentsInv, NEW th \in Threads, LoopTimerLocked(th)
  PROVE  Alarm!Next
<1> DEFINE t == call[th].tid
           d == duration[t]
           m == Ms(timeout[t])
<1>1. t \in Tids
  BY DEF TypeOK, CallType, LoopTimerLocked, Locked
<1>w. PICK w \in Wanted : /\ Wanted' = Wanted \ {w}
                          /\ w.does = "again" /\ w.alarm = t
  <2>1. call' = [call EXCEPT ![th] = Idle] /\ call[th].op = "loop"
    BY DEF LoopTimerLocked, Locked, Return
  <2> QED BY <2>1, IdleDoesNothing, CallServed, DoesCalls
<1>2. /\ timing' = [timing EXCEPT ![t] = TRUE]
      /\ timeout' = [timeout EXCEPT ![t] = AddDuration(timeout[t], d)]
      /\ duration' = duration /\ now' = now
  BY DEF LoopTimerLocked, Rearm
<1> HIDE DEF t
<1>3. timeout[t] \in Stored /\ m \in Nat /\ d \in Nat
  BY <1>1, StoredMs DEF MomentsInv, TypeOK, BlockType
<1>4. /\ {u \in Tids : timing'[u]} = {u \in Tids : timing[u]} \cup {t}
      /\ [u \in Tids |-> Ms(timeout'[u])]
           = [[u \in Tids |-> Ms(timeout[u])] EXCEPT ![t] = Ms(timeout'[t])]
      /\ Ms(timeout'[t]) \in Nat
      /\ d <= Longest /\ m + d <= Latest => Ms(timeout'[t]) = m + d
  BY <1>1, <1>2, <1>3, RearmIsSeen
<1>5. /\ [u \in Tids |-> Ms(timeout'[u])][t] = Ms(timeout'[t])
      /\ [u \in Tids |-> Ms(timeout[u])][t] = m
  BY <1>1
<1>6. {e.tid : e \in firing} = {} /\ {e.tid : e \in firing'} = {}
  BY NoneRings DEF LoopTimerLocked, Locked, scanVars
<1> HIDE DEF d, m
<1>7. Alarm!Again(w)
  <2>1. [u \in Tids |-> Ms(timeout[u])][w.alarm] = m /\ duration[w.alarm] = d
    BY <1>w, <1>5 DEF d
  <2> QED BY <1>1, <1>w, <1>2, <1>4, <1>5, <1>6, <2>1 DEF Alarm!Again, Alarm!Serve, Alarm!Arm
<1> QED BY <1>w, <1>7 DEF Alarm!Next

\* A block whose running flag falls is an alarm that is not armed any more.
LEMMA FlagFalls ==
  ASSUME TypeOK, NEW t \in Tids, timing' = [timing EXCEPT ![t] = FALSE]
  PROVE  {u \in Tids : timing'[u]} = {u \in Tids : timing[u]} \ {t}
BY DEF TypeOK, BlockType

\* StopTimer and the RemoveTimer of KillTimer stop the alarm, a running one or not.
LEMMA StopIsSeen ==
  ASSUME TypeOK, NEW th \in Threads, StopTimerLocked(th) \/ RemoveForKill(th)
  PROVE  Alarm!Next
<1> DEFINE t == call[th].tid
<1>w. PICK w \in Wanted : /\ Wanted' = Wanted \ {w}
                          /\ w.does = "stop" /\ w.alarm = t
  <2>1. CASE StopTimerLocked(th)
    <3>1. call' = [call EXCEPT ![th] = Idle] /\ call[th].op = "stop"
      BY <2>1 DEF StopTimerLocked, Locked, Return
    <3> QED BY <3>1, IdleDoesNothing, CallServed, DoesCalls
  <2>2. CASE RemoveForKill(th)
    <3>1. call' = [call EXCEPT ![th] = InCall("free", t)] /\ call[th].op = "remove"
      BY <2>2 DEF RemoveForKill, Locked
    <3>2. InCall("free", t).op \notin DOMAIN Does
      BY DoesCalls DEF InCall
    <3> QED BY <3>1, <3>2, CallServed, DoesCalls
  <2> QED BY <2>1, <2>2
<1>1. t \in Tids
  BY DEF TypeOK, CallType, StopTimerLocked, RemoveForKill, Locked
<1>2. /\ timing' = [timing EXCEPT ![t] = FALSE]
      /\ UNCHANGED <<timeout, duration, now>>
  BY DEF StopTimerLocked, RemoveForKill
<1> HIDE DEF t
<1>3. {u \in Tids : timing'[u]} = {u \in Tids : timing[u]} \ {t}
  BY <1>1, <1>2, FlagFalls
<1>4. {e.tid : e \in firing} = {} /\ {e.tid : e \in firing'} = {}
  BY NoneRings DEF StopTimerLocked, RemoveForKill, Locked, scanVars
<1>5. Alarm!Stop(w)
  BY <1>w, <1>1, <1>2, <1>3, <1>4 DEF Alarm!Stop, Alarm!Serve
<1> QED BY <1>w, <1>5 DEF Alarm!Next

\* The first entry of the scan table is that of a running block, it is due, and every
\* other running block has an entry behind it (timer.cpp:438).
LEMMA ExpireIsSeen ==
  ASSUME TypeOK, ScanTableConsistent, MomentsInv, ScanExpire
  PROVE  \E t \in Tids : Alarm!Ring(t)
<1>1. PICK e \in table : /\ First(e) /\ Expired(e.time, GetMonoTime(scanNow))
                         /\ timing' = [timing EXCEPT ![e.tid] = FALSE]
                         /\ scanning /\ firing = {} /\ firing' = {e}
                         /\ UNCHANGED <<timeout, duration, now, call>>
  BY DEF ScanExpire
<1> DEFINE t == e.tid
<1>2. t \in Tids /\ e = Entry(t) /\ timing[t]
  BY <1>1 DEF ScanTableConsistent, TypeOK, ScanType, Entries
<1>3. e.time = timeout[t] /\ timeout[t] \in Stored /\ Ms(timeout[t]) \in Nat
  BY <1>2, StoredMs DEF Entry, MomentsInv
<1>4. scanNow \in Nat /\ now \in Nat /\ scanNow <= now
  BY <1>1 DEF TypeOK, ScanType, HistoryType, MomentsInv
<1>5. ASSUME now <= Latest PROVE Ms(timeout[t]) <= now
  <2>1. scanNow <= Latest
    BY <1>4, <1>5 DEF Latest
  <2>2. Expired(timeout[t], GetMonoTime(scanNow))
    BY <1>1, <1>3
  <2>3. Ms(timeout[t]) <= scanNow
    BY <1>3, <1>4, <2>1, <2>2, ExpiredIsDue
  <2> QED BY <1>3, <1>4, <2>3
<1>6. ASSUME NEW u \in Tids, timing[u] PROVE Ms(timeout[t]) <= Ms(timeout[u])
  <2>1. Entry(u) \in table /\ Entry(u).time = timeout[u] /\ timeout[u] \in Stored
    BY <1>6 DEF ScanTableConsistent, MomentsInv, Entry
  <2>2. Entry(u) = e \/ KeyLess(e, Entry(u))
    BY <1>1, <2>1 DEF First
  <2>3. CASE Entry(u) = e
    BY <1>3, <2>1, <2>3
  <2>4. CASE KeyLess(e, Entry(u))
    <3>1. Ms(e.time) <= Ms(Entry(u).time)
      BY <1>3, <2>1, <2>4, KeyOrder
    <3> QED BY <1>3, <2>1, <3>1
  <2> QED BY <2>2, <2>3, <2>4
<1> HIDE DEF t
<1>7. {u \in Tids : timing'[u]} = {u \in Tids : timing[u]} \ {t}
  BY <1>1, <1>2, FlagFalls DEF t
<1>8. \A u \in Tids : [v \in Tids |-> Ms(timeout[v])][u] = Ms(timeout[u])
  OBVIOUS
<1> DEFINE f == [v \in Tids |-> Ms(timeout[v])]
<1>9. /\ t \in {u \in Tids : timing[u]} /\ (now <= Latest => f[t] <= now)
      /\ \A u \in {v \in Tids : timing[v]} : f[t] <= f[u]
  BY <1>2, <1>5, <1>6, <1>8
<1>10. {d.tid : d \in firing} = {} /\ {d.tid : d \in firing'} = {t}
  BY <1>1 DEF t
<1>11. Wanted' = Wanted
  BY <1>1 DEF Wanted, Want
<1> QED BY <1>1, <1>2, <1>7, <1>9, <1>10, <1>11 DEF Alarm!Ring

\* A call begins where SetTimer, StopTimer, KillTimer of a running timer, or LoopTimer
\* has made its checks (timer.cpp:541, 683).
LEMMA CallIsSeen ==
  ASSUME TypeOK, NEW th \in Threads,
         \/ SetTimer(th) \/ StopTimer(th) \/ KillTimer(th) \/ WaitTimerMessage(th)
  PROVE  Alarm!Next \/ UNCHANGED Alarm!vars
<1>1. UNCHANGED <<timing, timeout, duration, firing, now>>
  BY DEF SetTimer, StopTimer, KillTimer, WaitTimerMessage, blockVars, scanVars
<1>2. call[th].op = "idle"
  BY DEF SetTimer, StopTimer, KillTimer, WaitTimerMessage, Ready, Idle, InCall
<1>3. \/ call' = call
      \/ \E c \in Calls : /\ call' = [call EXCEPT ![th] = c]
                          /\ c.tid \in Tids
                          /\ c.op \in {"set", "stop", "remove", "free", "loop"}
  <2>1. ASSUME NEW t \in Tids, NEW op \in {"stop", "remove", "free", "loop"},
               call' = [call EXCEPT ![th] = InCall(op, t)]
        PROVE  \E c \in Calls : /\ call' = [call EXCEPT ![th] = c]
                                /\ c.tid \in Tids
                                /\ c.op \in {"set", "stop", "remove", "free", "loop"}
    <3>1. InCall(op, t) \in Calls /\ InCall(op, t).tid = t /\ InCall(op, t).op = op
      BY DEF InCall, Calls, Ops, AllTypes, Tids
    <3> QED BY <2>1, <3>1
  <2>2. CASE SetTimer(th)
    <3>1. PICK t \in Tids, ty \in Types, d \in Durations :
            call' = [call EXCEPT ![th] =
                       [op |-> "set", tid |-> t, type |-> ty, duration |-> d]]
      BY <2>2 DEF SetTimer
    <3>2. [op |-> "set", tid |-> t, type |-> ty, duration |-> d] \in Calls
      BY TimerAssumption DEF Calls, Ops, AllTypes, Tids
    <3> QED BY <3>1, <3>2
  <2>3. CASE StopTimer(th)
    <3>1. PICK t \in Tids : call' = [call EXCEPT ![th] = InCall("stop", t)]
      BY <2>3 DEF StopTimer
    <3> QED BY <2>1, <3>1
  <2>4. CASE KillTimer(th)
    <3>1. PICK t \in Tids : call' = [call EXCEPT ![th] = InCall(AfterKill(t), t)]
      BY <2>4 DEF KillTimer
    <3>2. AfterKill(t) \in {"remove", "free"}
      BY DEF AfterKill
    <3> QED BY <2>1, <3>1, <3>2
  <2>5. CASE WaitTimerMessage(th)
    <3> DEFINE t == Head(queue[Owner[th]]).tid
    <3>1. \/ call' = call
          \/ t \in timers[Owner[th]] /\ call' = [call EXCEPT ![th] = InCall("loop", t)]
      BY <2>5 DEF WaitTimerMessage, OwnsTimer
    <3>2. timers[Owner[th]] \subseteq Tids
      BY TimerAssumption DEF TypeOK, ListType
    <3> HIDE DEF t
    <3> QED BY <2>1, <3>1, <3>2
  <2> QED BY <2>2, <2>3, <2>4, <2>5
<1>4. CASE call' = call
  BY <1>1, <1>4 DEF Alarm!vars, Wanted, Want
<1>5. ASSUME NEW c \in Calls, call' = [call EXCEPT ![th] = c], c.tid \in Tids,
             c.op \in {"set", "stop", "remove", "loop"}
      PROVE  Alarm!Next
  BY <1>1, <1>2, <1>5, CallBegun, DoesCalls DEF Alarm!Next
<1>6. ASSUME NEW c \in Calls, call' = [call EXCEPT ![th] = c], c.op = "free"
      PROVE  UNCHANGED Alarm!vars
  <2>1. Wanted' = Wanted
    BY <1>2, <1>6, CallGoesOn, DoesCalls
  <2> QED BY <1>1, <2>1 DEF Alarm!vars
<1> QED BY <1>3, <1>4, <1>5, <1>6

\* Every step of the timer is a step of the alarm clock, or leaves it as it is.
LEMMA TimerStepIsSeen ==
  ASSUME TypeOK, ScanTableConsistent, MomentsInv, [Next]_vars
  PROVE  [Alarm!Next]_Alarm!vars
<1>1. ASSUME NEW th \in Threads, SetTimerLocked(th) PROVE Alarm!Next
  BY <1>1, SetIsSeen
<1>2. ASSUME NEW th \in Threads, LoopTimerLocked(th) PROVE Alarm!Next
  BY <1>2, LoopIsSeen
<1>3. ASSUME NEW th \in Threads, StopTimerLocked(th) \/ RemoveForKill(th) PROVE Alarm!Next
  BY <1>3, StopIsSeen
<1>4. ASSUME ScanExpire PROVE Alarm!Next
  BY <1>4, ExpireIsSeen DEF Alarm!Next
<1>5. ASSUME call' = call PROVE Wanted' = Wanted
  BY <1>5 DEF Wanted, Want
<1>6. ASSUME Tick PROVE Alarm!Next
  <2>1. now' = now + 1 /\ UNCHANGED <<timing, timeout, duration, firing, call>>
    BY <1>6 DEF Tick, blockVars, scanVars
  <2> QED BY <1>5, <2>1 DEF Alarm!Next, Alarm!Tick
<1>7. ASSUME UNCHANGED <<timing, timeout, duration, firing, now, call>>
      PROVE  UNCHANGED Alarm!vars
  BY <1>5, <1>7 DEF Alarm!vars
<1>8. ASSUME NEW th \in Threads,
             SetTimer(th) \/ StopTimer(th) \/ KillTimer(th) \/ WaitTimerMessage(th)
      PROVE  Alarm!Next \/ UNCHANGED Alarm!vars
  BY <1>8, CallIsSeen
<1>9. ASSUME NEW th \in Threads, FreeBlock(th) PROVE UNCHANGED Alarm!vars
  <2>1. /\ UNCHANGED <<timing, timeout, duration, firing, now>>
        /\ call' = [call EXCEPT ![th] = Idle] /\ call[th].op = "free"
    BY <1>9 DEF FreeBlock, Return, scanVars
  <2>2. Wanted' = Wanted
    BY <2>1, CallGoesOn, DoesCalls, IdleDoesNothing
  <2> QED BY <2>1, <2>2 DEF Alarm!vars
<1>10. ASSUME NEW th \in Threads, CreateTimer(th) PROVE UNCHANGED Alarm!vars
  <2>1. UNCHANGED <<timing, timeout, duration, firing, now, call>>
    BY <1>10 DEF CreateTimer, scanVars
  <2> QED BY <1>7, <2>1
<1>11. ASSUME ScanBegin \/ ScanEnd \/ UNCHANGED vars PROVE UNCHANGED Alarm!vars
  <2>1. UNCHANGED <<timing, timeout, duration, firing, now, call>>
    BY <1>11 DEF ScanBegin, ScanEnd, vars, blockVars, scanVars
  <2> QED BY <1>7, <2>1
<1>12. ASSUME ScanHook PROVE Alarm!Next \/ UNCHANGED Alarm!vars
  <2>1. PICK e \in firing : firing' = {} \/ firing' = firing
    BY <1>12 DEF ScanHook
  <2>2. UNCHANGED <<timing, timeout, duration, now, call>>
    BY <1>12 DEF ScanHook, blockVars
  <2>3. CASE firing' = {}
    <3>1. {d.tid : d \in firing} # {} /\ {d.tid : d \in firing'} = {}
      BY <2>1, <2>3
    <3> QED BY <1>5, <2>2, <3>1 DEF Alarm!Next, Alarm!Quiet
  <2>4. CASE firing' = firing
    BY <1>7, <2>2, <2>4
  <2> QED BY <2>1, <2>3, <2>4
<1>13. ASSUME NEW th \in Threads, ClientStep(th)
       PROVE  Alarm!Next \/ UNCHANGED Alarm!vars
  BY <1>1, <1>2, <1>3, <1>8, <1>9, <1>10, <1>13 DEF ClientStep
<1> QED BY <1>4, <1>6, <1>11, <1>12, <1>13 DEF Next, Dead

\* Before any timer is set no alarm is armed.
LEMMA AlarmInit ==
  ASSUME Init
  PROVE  MomentsInv /\ Alarm!Init
<1>1. [second |-> 0, milisecond |-> 0] \in Stored
  BY DEF Stored, TimeValues
<1>2. \A t \in Tids : timeout[t] \in Stored /\ ~timing[t]
  BY <1>1 DEF Init
<1>3. \A t \in Tids : Ms(timeout[t]) \in Nat
  BY <1>2, StoredMs
<1>4. [t \in Tids |-> Ms(timeout[t])] \in [Tids -> Nat]
  BY <1>3
<1>5. {t \in Tids : timing[t]} = {}
  BY <1>2
<1>6. duration \in [Tids -> Nat] /\ now = 0 /\ ~scanning /\ firing = {}
  BY DEF Init
<1>7. Wanted = {}
  BY DoesCalls DEF Init, Wanted, Idle, InCall
<1> QED BY <1>2, <1>4, <1>5, <1>6, <1>7 DEF MomentsInv, Alarm!Init

\* Every call takes effect once and not while a hook is called, timers ring one at a time,
\* in the order in which they are due and never early, and a loop timer keeps to the
\* multiples of its duration as long as the fields can hold them (timer.cpp:438, 567,
\* 611), for any number of threads on any clients, in every order of their calls with the
\* scan, the messages and the reuse of blocks, and also where a flow number has wrapped.
THEOREM TimerImplementsAlarm == Spec => ImplementsAlarm
<1>1. Init => MomentsInv /\ Alarm!Init
  BY AlarmInit
<1>2. TypeOK /\ MomentsInv /\ [Next]_vars => MomentsInv'
  BY MomentsStep
<1>3. TypeOK /\ ScanTableConsistent /\ MomentsInv /\ [Next]_vars
        => [Alarm!Next]_Alarm!vars
  BY TimerStepIsSeen
<1> QED BY <1>1, <1>2, <1>3, TypeCorrect, ScanTableSafe, PTL
        DEF Spec, ImplementsAlarm, Alarm!Spec
=============================================================================
