------------------------------- MODULE Timer -------------------------------
(***************************************************************************)
(* TimerManager (timer.cpp) and its TimerClients (timer.h): the pool of    *)
(* timer blocks, the free list, the scan table ordered by expiry, the scan *)
(* thread, and the threads that create, set, stop and kill timers and that *)
(* take expiry messages out of their message queue.                        *)
(*                                                                         *)
(* Locks.  rel_scan_table_mutex is held by Scan from the first entry to    *)
(* the last (`scanning'); SetTimer, LoopTimer, StopTimer and RemoveTimer   *)
(* take it for one step.  free_list_mutex protects single steps only.      *)
(* What the code reads before it takes a lock is a step of its own: the    *)
(* client check of every operation and the `timing' flag KillTimer reads.  *)
(*                                                                         *)
(* flow counts the increments of a block's flow_number; the code keeps it  *)
(* modulo 2^32 (FlowNumber).  arm, armer, stopped and freedInTable, and    *)
(* the fields count, arm and armer of a message, are history: no guard     *)
(* reads them.                                                             *)
(***************************************************************************)
EXTENDS TimeValue, Sequences, FiniteSets

CONSTANTS
  Clients,      \* TimerClient objects (message queues, message units)
  Threads,      \* threads that use timers
  Owner,        \* the client whose timers a thread uses
  NULL,         \* client of a free block
  Types,        \* timer types passed to SetTimer
  Durations,    \* durations passed to SetTimer
  OnceAlloc,    \* blocks allocated at a time (ONCE_ALLOC_COUNT)
  FlowModulus,  \* 2^32: flow_number is a uint32
  MaxPool,      \* bound: number of blocks
  MaxFlow,      \* bound: no SetTimer or KillTimer beyond this flow
  MaxTime       \* bound: length of a run in milliseconds

RELATIVE_TIMER == "RELATIVE"
LOOP_TIMER     == "LOOP"
ABSOLUTE_TIMER == "ABSOLUTE"
INVALID_TIMER_ID == 0

ASSUME TimerAssumption ==
  /\ Owner \in [Threads -> Clients]
  /\ NULL \notin Clients
  /\ Types \subseteq {RELATIVE_TIMER, LOOP_TIMER, ABSOLUTE_TIMER}
  /\ Durations \subseteq Nat
  /\ OnceAlloc \in Nat \ {0}
  /\ FlowModulus \in Nat \ {0}
  /\ MaxPool \in Nat /\ OnceAlloc <= MaxPool
  /\ MaxFlow \in Nat /\ MaxTime \in Nat

Tids == 1..MaxPool

VARIABLES
  pool,          \* number of blocks in _pool
  freelist,      \* _freelist, a deque of ids
  client,        \* TimerBlock::client
  timing,        \* TimerBlock::timing
  timerType,     \* TimerBlock::timer_type
  duration,      \* TimerBlock::timer_duration
  timeout,       \* TimerBlock::timeout
  flow,          \* number of increments of TimerBlock::flow_number
  table,         \* rel_scan_table
  timers,        \* TimerClient::timers of every client
  queue,         \* timer messages in every client's message queue
  call,          \* the operation every thread is in
  scanning,      \* the scan thread holds rel_scan_table_mutex
  scanNow,       \* the clock as Scan read it
  firing,        \* the entry whose hook Scan is about to call
  now,           \* the monotonic clock, in milliseconds
  crashed,       \* the process has died: a call through a NULL client
  asserted,      \* a SkyAssert(false) after a failed RemoveTimer was reached
  arm, armer,    \* history: armings of a block, and the client of the last
  stopped,       \* history: StopTimer returned SUCCESS and no SetTimer since
  freedInTable   \* history: a block was freed while its entry was in the table

blockVars == <<client, timing, timerType, duration, timeout, flow>>
scanVars  == <<scanning, scanNow, firing>>
history   == <<arm, armer, stopped, freedInTable>>
vars == <<pool, freelist, blockVars, table, timers, queue, call, scanVars,
          now, crashed, asserted, history>>

Entries  == [time : TimeValues, tid : Tids]
Ops      == {"idle", "set", "stop", "remove", "free", "loop"}
AllTypes == {RELATIVE_TIMER, LOOP_TIMER, ABSOLUTE_TIMER}
Calls    == [op : Ops, tid : 0..MaxPool, type : AllTypes, duration : Nat]
Messages == [tid : Tids, type : AllTypes, flow : 0..(FlowModulus - 1),
             count : Nat, arm : Nat, armer : Clients \cup {NULL}]

\* A thread inside operation op on timer t; only SetTimer carries a type and a
\* duration.
InCall(op, t) == [op |-> op, tid |-> t, type |-> RELATIVE_TIMER, duration |-> 0]

Idle == InCall("idle", INVALID_TIMER_ID)

\* A flow number wider than the field of the message.
FlowUnbounded(n) == n

\* The uint32 a block holds after n increments.
FlowNumber(n) == n % FlowModulus

\* The ids a batch of newly allocated blocks gets: AllocateTimerBlock.
Batch == [i \in 1..OnceAlloc |-> pool + i]

\* The scan table key of a block: RemoveTimer looks for exactly this one.
Entry(t) == [time |-> timeout[t], tid |-> t]

\* RemoveTimer succeeds: the block is idle, or its key is found.
RemoveSucceeds(t) == timing[t] => Entry(t) \in table

\* A RemoveTimer that forgets the entry of the table.
TableNotErased(t) == table

\* The scan table after RemoveTimer.
TableWithout(t) == IF timing[t] THEN table \ {Entry(t)} ELSE table

\* A thread in no call, of a living process.
Ready(th) == ~crashed /\ call[th] = Idle

\* The thread's call is `op' and rel_scan_table_mutex is free.
Locked(th, op) == ~crashed /\ call[th].op = op /\ ~scanning

Return(th) == call' = [call EXCEPT ![th] = Idle]

Init ==
  /\ pool = OnceAlloc
  /\ freelist = [i \in 1..OnceAlloc |-> i]
  /\ client = [t \in Tids |-> NULL]
  /\ timing = [t \in Tids |-> FALSE]
  /\ timerType = [t \in Tids |-> RELATIVE_TIMER]
  /\ duration = [t \in Tids |-> 0]
  /\ timeout = [t \in Tids |-> [second |-> 0, milisecond |-> 0]]
  /\ flow = [t \in Tids |-> 0]
  /\ table = {}
  /\ timers = [c \in Clients |-> {}]
  /\ queue = [c \in Clients |-> <<>>]
  /\ call = [th \in Threads |-> Idle]
  /\ scanning = FALSE /\ scanNow = 0 /\ firing = {}
  /\ now = 0
  /\ crashed = FALSE /\ asserted = FALSE
  /\ arm = [t \in Tids |-> 0]
  /\ armer = [t \in Tids |-> NULL]
  /\ stopped = [t \in Tids |-> FALSE]
  /\ freedInTable = FALSE

-----------------------------------------------------------------------------
(* Operations of a client's thread *)

\* TimerClient::CreateTimer and TimerManager::CreateTimer: take the first free
\* block, allocating a batch when there is none.  The flow number is kept.
CreateTimer(th) ==
  /\ Ready(th)
  /\ freelist = <<>> => pool + OnceAlloc <= MaxPool
  /\ LET available == IF freelist = <<>> THEN Batch ELSE freelist
         t == Head(available)
         c == Owner[th]
     IN  /\ pool' = IF freelist = <<>> THEN pool + OnceAlloc ELSE pool
         /\ freelist' = Tail(available)
         /\ client' = [client EXCEPT ![t] = c]
         /\ timers' = [timers EXCEPT ![c] = @ \cup {t}]
         /\ armer' = [armer EXCEPT ![t] = NULL]
         /\ stopped' = [stopped EXCEPT ![t] = FALSE]
  /\ UNCHANGED <<timing, timerType, duration, timeout, flow, table, queue, call,
                 scanVars, now, crashed, asserted, arm, freedInTable>>

\* IsMyTimerId and the client check, both made before the lock.
OwnsTimer(th, t) == t \in timers[Owner[th]] /\ client[t] # NULL

\* SetTimer up to the lock.
SetTimer(th) ==
  /\ Ready(th)
  /\ \E t \in Tids, ty \in Types, d \in Durations :
       /\ OwnsTimer(th, t)
       /\ flow[t] < MaxFlow
       /\ call' = [call EXCEPT ![th] =
                     [op |-> "set", tid |-> t, type |-> ty, duration |-> d]]
  /\ UNCHANGED <<pool, freelist, blockVars, table, timers, queue, scanVars,
                 now, crashed, asserted, history>>

\* Increments of flow_number by SetTimer, LoopTimer and StopTimer: RemoveTimer
\* makes one more when the timer was running.
Increments(t) == IF timing[t] THEN 2 ELSE 1

\* The entry InsertTimer makes.
Inserted(t, expiry) == [time |-> expiry, tid |-> t]

\* InsertTimer with a new expiry, after RemoveTimer.  The return that follows a
\* failed RemoveTimer is left out: `asserted' records that it was reached, and
\* NoAssertionFails says that it never is.
Rearm(t, expiry) ==
  /\ asserted' = (asserted \/ ~RemoveSucceeds(t))
  /\ timeout' = [timeout EXCEPT ![t] = expiry]
  /\ table' = TableWithout(t) \cup {Inserted(t, expiry)}
  /\ timing' = [timing EXCEPT ![t] = TRUE]
  /\ flow' = [flow EXCEPT ![t] = @ + Increments(t)]
  /\ arm' = [arm EXCEPT ![t] = @ + 1]

\* SetTimer under rel_scan_table_mutex.
SetTimerLocked(th) ==
  /\ Locked(th, "set")
  /\ LET t == call[th].tid
         d == call[th].duration
     IN  /\ Rearm(t, AddDuration(GetMonoTime(now), d))
         /\ timerType' = [timerType EXCEPT ![t] = call[th].type]
         /\ duration' = [duration EXCEPT ![t] = d]
         /\ armer' = [armer EXCEPT ![t] = Owner[th]]
         /\ stopped' = [stopped EXCEPT ![t] = FALSE]
  /\ Return(th)
  /\ UNCHANGED <<pool, freelist, client, timers, queue, scanVars, now, crashed,
                 freedInTable>>

\* StopTimer up to the lock.
StopTimer(th) ==
  /\ Ready(th)
  /\ \E t \in Tids :
       /\ OwnsTimer(th, t)
       /\ call' = [call EXCEPT ![th] = InCall("stop", t)]
  /\ UNCHANGED <<pool, freelist, blockVars, table, timers, queue, scanVars,
                 now, crashed, asserted, history>>

\* StopTimer under rel_scan_table_mutex.  A timer that is not running, one that
\* has expired and whose message is still queued included, is left as it is.
StopTimerLocked(th) ==
  /\ Locked(th, "stop")
  /\ LET t == call[th].tid
     IN  /\ asserted' = (asserted \/ ~RemoveSucceeds(t))
         /\ table' = TableWithout(t)
         /\ timing' = [timing EXCEPT ![t] = FALSE]
         /\ flow' = [flow EXCEPT ![t] = IF timing[t] THEN @ + 2 ELSE @]
         /\ stopped' = [stopped EXCEPT ![t] = TRUE]
  /\ Return(th)
  /\ UNCHANGED <<pool, freelist, client, timerType, duration, timeout, timers,
                 queue, scanVars, now, crashed, arm, armer, freedInTable>>

\* KillTimer calls RemoveTimer only if it saw the timer running.
AfterKill(t) == IF timing[t] THEN "remove" ELSE "free"

\* A KillTimer that leaves the id in the client's list.
Remember(ids, t) == ids

\* timers.remove of TimerClient::KillTimer.
Forget(ids, t) == ids \ {t}

\* KillTimer up to its first lock: the id leaves the client's list, and client
\* and timing are read without a lock.
KillTimer(th) ==
  /\ Ready(th)
  /\ \E t \in Tids :
       /\ OwnsTimer(th, t)
       /\ flow[t] < MaxFlow
       /\ timers' = [timers EXCEPT ![Owner[th]] = Forget(@, t)]
       /\ call' = [call EXCEPT ![th] = InCall(AfterKill(t), t)]
  /\ UNCHANGED <<pool, freelist, blockVars, table, queue, scanVars, now, crashed,
                 asserted, history>>

\* RemoveTimer called by KillTimer: it looks at timing again, under the lock.
RemoveForKill(th) ==
  /\ Locked(th, "remove")
  /\ LET t == call[th].tid
     IN  /\ asserted' = (asserted \/ ~RemoveSucceeds(t))
         /\ table' = TableWithout(t)
         /\ timing' = [timing EXCEPT ![t] = FALSE]
         /\ flow' = [flow EXCEPT ![t] = IF timing[t] THEN @ + 1 ELSE @]
         /\ call' = [call EXCEPT ![th] = InCall("free", t)]
  /\ UNCHANGED <<pool, freelist, client, timerType, duration, timeout, timers,
                 queue, scanVars, now, crashed, history>>

\* A release that leaves the flow number alone.
NoIncrementOnFree(n) == n

\* flow_number++ of KillTimer.
IncrementOnFree(n) == n + 1

\* KillTimer under free_list_mutex, which Scan does not take.
FreeBlock(th) ==
  /\ ~crashed
  /\ call[th].op = "free"
  /\ LET t == call[th].tid
     IN  /\ freelist' = Append(freelist, t)
         /\ client' = [client EXCEPT ![t] = NULL]
         /\ flow' = [flow EXCEPT ![t] = IncrementOnFree(@)]
         /\ freedInTable' = (freedInTable \/ \E e \in table : e.tid = t)
  /\ Return(th)
  /\ UNCHANGED <<pool, timing, timerType, duration, timeout, table, timers,
                 queue, scanVars, now, crashed, asserted, arm, armer, stopped>>

\* GetFlowNumber: 0 for a free block.
GetFlowNumber(t) == IF client[t] = NULL THEN 0 ELSE FlowNumber(flow[t])

\* ValidateTimer: the message carries the block's present flow number.
ValidateTimer(m) == GetFlowNumber(m.tid) = m.flow

\* A Wait that takes every timer for a loop timer.
RearmsAlways(m) == TRUE

\* Wait arms a loop timer again.
Rearms(m) == m.type = LOOP_TIMER

\* Wait takes the first timer message.  An invalid one is dropped (Wait returns
\* ERROR_TIMER_MESSAGE_INVALID); a valid one of a loop timer makes Wait call
\* LoopTimer, which makes its own checks before it takes the lock.
WaitTimerMessage(th) ==
  /\ Ready(th)
  /\ LET c == Owner[th]
         m == Head(queue[c])
     IN  /\ queue[c] # <<>>
         /\ queue' = [queue EXCEPT ![c] = Tail(@)]
         /\ call' = IF ValidateTimer(m) /\ Rearms(m) /\ OwnsTimer(th, m.tid)
                    THEN [call EXCEPT ![th] = InCall("loop", m.tid)]
                    ELSE call
  /\ UNCHANGED <<pool, freelist, blockVars, table, timers, scanVars, now, crashed,
                 asserted, history>>

\* LoopTimer under rel_scan_table_mutex: the next expiry is counted from the
\* previous one.
LoopTimerLocked(th) ==
  /\ Locked(th, "loop")
  /\ LET t == call[th].tid
     IN  /\ Rearm(t, AddDuration(timeout[t], duration[t]))
         /\ armer' = [armer EXCEPT ![t] = Owner[th]]
  /\ Return(th)
  /\ UNCHANGED <<pool, freelist, client, timerType, duration, timers, queue,
                 scanVars, now, crashed, stopped, freedInTable>>

-----------------------------------------------------------------------------
(* The scan thread *)

\* Scan takes the lock and, if there is any entry, reads the clock.
ScanBegin ==
  /\ ~crashed
  /\ ~scanning
  /\ table # {}
  /\ scanning' = TRUE
  /\ scanNow' = now
  /\ UNCHANGED <<pool, freelist, blockVars, table, timers, queue, call, firing,
                 now, crashed, asserted, history>>

\* e is the first entry of the map.
First(e) == e \in table /\ \A f \in table : f = e \/ KeyLess(e, f)

\* Scan finds the first entry expired: from here the block is no longer timing
\* although its entry is in the table until the hook has returned.
ScanExpire ==
  /\ ~crashed
  /\ scanning
  /\ firing = {}
  /\ \E e \in table :
       /\ First(e)
       /\ Expired(e.time, GetMonoTime(scanNow))
       /\ firing' = {e}
       /\ timing' = [timing EXCEPT ![e.tid] = FALSE]
  /\ UNCHANGED <<pool, freelist, client, timerType, duration, timeout, flow, table,
                 timers, queue, call, scanning, scanNow, now, crashed, asserted,
                 history>>

\* TimeoutHook: the message for the block's client, built from the block as it
\* is now.
TimeoutMessage(t) ==
  [tid |-> t, type |-> timerType[t], flow |-> FlowNumber(flow[t]),
   count |-> flow[t], arm |-> arm[t], armer |-> armer[t]]

\* The hook of the entry, DoTimer's push into the client's queue, and the erase
\* of the entry.  A call through a NULL client kills the process.
ScanHook ==
  /\ ~crashed
  /\ \E e \in firing :
       IF client[e.tid] = NULL
       THEN crashed' = TRUE /\ UNCHANGED <<queue, table, firing>>
       ELSE /\ queue' = [queue EXCEPT ![client[e.tid]] =
                           Append(@, TimeoutMessage(e.tid))]
            /\ table' = table \ {e}
            /\ firing' = {}
            /\ UNCHANGED crashed
  /\ UNCHANGED <<pool, freelist, blockVars, timers, call, scanning, scanNow,
                 now, asserted, history>>

\* No entry is left, or the first one is not due: Scan returns.
ScanEnd ==
  /\ ~crashed
  /\ scanning
  /\ firing = {}
  /\ \A e \in table : First(e) => ~Expired(e.time, GetMonoTime(scanNow))
  /\ scanning' = FALSE
  /\ scanNow' = 0
  /\ UNCHANGED <<pool, freelist, blockVars, table, timers, queue, call, firing,
                 now, crashed, asserted, history>>

\* The monotonic clock.
Tick ==
  /\ ~crashed
  /\ now < MaxTime
  /\ now' = now + 1
  /\ UNCHANGED <<pool, freelist, blockVars, table, timers, queue, call, scanVars,
                 crashed, asserted, history>>

\* A dead process takes no more steps.
Dead == crashed /\ UNCHANGED vars

ClientStep(th) ==
  \/ CreateTimer(th)
  \/ SetTimer(th) \/ SetTimerLocked(th)
  \/ StopTimer(th) \/ StopTimerLocked(th)
  \/ KillTimer(th) \/ RemoveForKill(th) \/ FreeBlock(th)
  \/ WaitTimerMessage(th) \/ LoopTimerLocked(th)

Next ==
  \/ \E th \in Threads : ClientStep(th)
  \/ ScanBegin \/ ScanExpire \/ ScanHook \/ ScanEnd
  \/ Tick
  \/ Dead

Spec == Init /\ [][Next]_vars

-----------------------------------------------------------------------------
(* Properties *)

BlockType ==
  /\ client \in [Tids -> Clients \cup {NULL}]
  /\ timing \in [Tids -> BOOLEAN]
  /\ timerType \in [Tids -> AllTypes]
  /\ duration \in [Tids -> Nat]
  /\ timeout \in [Tids -> TimeValues]
  /\ flow \in [Tids -> Nat]

ListType ==
  /\ pool \in 0..MaxPool
  /\ freelist \in Seq(Tids)
  /\ timers \in [Clients -> SUBSET Tids]

CallType ==
  /\ call \in [Threads -> Calls]
  /\ \A th \in Threads : call[th].op # "idle" => call[th].tid \in Tids

ScanType ==
  /\ table \subseteq Entries
  /\ scanning \in BOOLEAN
  /\ scanNow \in Nat
  /\ firing \subseteq table
  /\ \A e, f \in firing : e = f
  /\ firing # {} => scanning

HistoryType ==
  /\ now \in Nat
  /\ crashed \in BOOLEAN
  /\ asserted \in BOOLEAN
  /\ arm \in [Tids -> Nat]
  /\ armer \in [Tids -> Clients \cup {NULL}]
  /\ stopped \in [Tids -> BOOLEAN]
  /\ freedInTable \in BOOLEAN

\* Every variable has its type; a scan fires at most one entry and holds the
\* mutex while it does.
TypeOK ==
  /\ BlockType
  /\ ListType
  /\ queue \in [Clients -> Seq(Messages)]
  /\ CallType
  /\ ScanType
  /\ HistoryType

\* rel_scan_table and the timing flags agree whatever the threads do: a running
\* timer has exactly the entry RemoveTimer will look for, and every other entry
\* is the one Scan is firing (timer.cpp:390, 418, 461).
ScanTableConsistent ==
  /\ \A t \in Tids : timing[t] => Entry(t) \in table
  /\ \A e \in table : e = Entry(e.tid)
  /\ \A e \in table : timing[e.tid] <=> e \notin firing

\* RemoveTimer never fails with ERROR_OBJECT_NOT_EXIST, so none of the
\* SkyAssert(false) that follow it in SetTimer, LoopTimer, StopTimer and
\* KillTimer is reached (timer.cpp:554, 606, 657, 688).
NoAssertionFails == ~asserted

\* The scan table is in order, so that RemoveTimer always finds the key it builds.
TableIsSound == ScanTableConsistent /\ NoAssertionFails

\* Every client is served by one thread, the work thread of its queue.
SingleThreaded ==
  \A a, b \in Threads : Owner[a] = Owner[b] => a = b

\* A thread is killing timer t: the id has left the list of its client and is
\* not yet in the free list.
IsKilling(th, t) == call[th].op \in {"remove", "free"} /\ call[th].tid = t

Free(t) == \E i \in DOMAIN freelist : freelist[i] = t

FreelistDistinct ==
  \A i, j \in DOMAIN freelist : freelist[i] = freelist[j] => i = j

FreeIsUnowned == \A t \in Tids : Free(t) <=> (t <= pool /\ client[t] = NULL)

ListedIsOwned == \A c \in Clients : \A t \in timers[c] : client[t] = c

OwnedIsListed ==
  \A t \in Tids : client[t] # NULL =>
    \/ t \in timers[client[t]]
    \/ \E th \in Threads : IsKilling(th, t)

KilledIsOwned ==
  \A t \in Tids, th \in Threads : IsKilling(th, t) =>
    client[t] = Owner[th] /\ t \notin timers[Owner[th]]

\* No block is lost and none is given to two owners: every allocated block is
\* in the free list once, in the list of exactly the client its block names, or
\* being killed by a thread of that client (timer.cpp:507, 695, timer.h:344, 412).
BlocksAccountedFor ==
  /\ FreelistDistinct
  /\ FreeIsUnowned
  /\ ListedIsOwned
  /\ OwnedIsListed
  /\ KilledIsOwned

\* A block in the free list is not running: KillTimer's unlocked look at timing
\* (timer.cpp:683) is safe against everything but a second thread of its client.
FreeBlocksIdle == \A t \in Tids : client[t] = NULL => ~timing[t]

\* A block is out of the scan table before it is released, as KillTimer's comment
\* says ("take it out of the scan table", timer.cpp:685).
KilledOutOfScanTable == ~freedInTable

\* The scan thread calls a hook through a NULL client (timer.cpp:467) only after
\* a block was released while its entry was still in the scan table.
CrashOnlyAfterEarlyFree == crashed => freedInTable

\* Only the last Set takes effect (test_mu.cpp:139): a queued message that Wait
\* would accept was sent by the last arming of its timer, and that arming was
\* made by this client, which still owns it.  Neither SetTimer, LoopTimer,
\* KillTimer nor the reuse of the block for another client leaves an older
\* message acceptable, until the 32-bit flow number of the block has wrapped.
OnlyLastSetDelivers ==
  ~freedInTable =>
    \A c \in Clients : \A i \in DOMAIN queue[c] :
      LET m == queue[c][i]
      IN  ValidateTimer(m) /\ flow[m.tid] < FlowModulus
            => /\ m.arm = arm[m.tid]
               /\ m.armer = c
               /\ client[m.tid] = c

\* A one-shot timer that was stopped does not run until it is set again
\* (test_mu.cpp:141), although StopTimer leaves the flow number of a timer alone
\* whose expiry waits in the queue (timer.cpp:650) and Wait takes that expiry for
\* valid.  A loop timer is armed again by it, and so is a one-shot timer once the
\* flow number has wrapped.
StoppedStaysIdle ==
  \A t \in Tids :
    stopped[t] /\ timing[t] /\ flow[t] < FlowModulus => timerType[t] = LOOP_TIMER

-----------------------------------------------------------------------------
(* The abstract timer *)

\* The last moment that two uint32 fields can hold, and the longest duration whose
\* addition to the milliseconds does not wrap.
Latest  == Word * MsPerSec - 1
Longest == Word - MsPerSec - 1

\* What a thread's call does to its alarm, as long as it has not done it yet.
Does == [set |-> "set", loop |-> "again", stop |-> "stop", remove |-> "stop"]

Want(th) == [by |-> th, does |-> Does[call[th].op], alarm |-> call[th].tid,
             period |-> call[th].duration]

Wanted == {Want(th) : th \in {x \in Threads : call[x].op \in DOMAIN Does}}

\* The alarm clock that callers of the timer see: a running block is an armed alarm,
\* due at its timeout in milliseconds; one whose hook is about to be called rings.
Alarm == INSTANCE AlarmClock WITH
  Callers <- Threads,
  Alarms  <- Tids,
  clock   <- now,
  wanted  <- Wanted,
  armed   <- {t \in Tids : timing[t]},
  ringing <- {e.tid : e \in firing},
  due     <- [t \in Tids |-> Ms(timeout[t])],
  period  <- duration

\* SetTimer, LoopTimer, StopTimer and KillTimer take effect once and in one step, timers
\* ring one at a time, in the order of their due moments and never early, and a loop
\* timer does not drift (timer.cpp:438, 567, 611), whatever the threads set, stop, kill
\* and take over from each other, and however late the scan and the messages are.
ImplementsAlarm == Alarm!Spec
=============================================================================
