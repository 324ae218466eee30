# A TLA+ model of the core of TECS: runtime, workflows and edge virtual bridging

TECS is a cloud management system written in C++. All its processes (cloud
controller, cluster controller, host controller, network and storage
controllers) are built on one runtime library, `src/code/sky`: message queues
with their work threads, timers, synchronous waiting, thread pools and a
persistent workflow engine. Everything above it is written as message handlers
that call this library, so an ordering mistake here is a mistake everywhere. The
other part of the repository with logic of its own in the face of concurrency and
loss is `src/code/network/protocol`: an implementation of edge virtual bridging
(EVB), in which a host and a switch agree on the network of a virtual machine.
This project models the runtime, the workflow engine and EVB, checks the models
with TLC and proves the main safety results with TLAPS.

## The system

### Inventory

| part | source | state | operations | works with |
|---|---|---|---|---|
| TimerManager | `sky/src/timer/timer.cpp`, `sky/include/timer.h` | pool of timer blocks, free list, scan table ordered by expiry, flow numbers | CreateTimer, SetTimer, LoopTimer, StopTimer, KillTimer, GetFlowNumber, GetRemainedTime, Scan | clients call it; its scan thread calls the clients' TimeoutHook |
| TimerClient | `sky/include/timer.h` | list of own timer ids | the same, after IsMyTimerId; ValidateTimer | base class of MessageQueue |
| MessageQueue | `sky/src/message/message_queue.cpp` | frames, stop flag, id of the work thread, `_wait_timer` | Receive, Run, Stop, Wait, DoTimer | senders and the scan thread push, the work thread calls the handler |
| ThreadPool | `sky/src/sys/threadpool.cpp` | waiting works, map from thread to running work | CreateThreads, AssignWork, CancelWork, FindWork, FetchWork, DestroyPool | image and file managers assign works |
| threads, mutexes | `sky/src/sys/thread.cpp`, `mutex.cpp` | list of thread records | StartThread, KillThread | used by all of the above |
| message agent, message units | `sky/src/message/message_agent_impl.cpp`, `message_unit.cpp`, `uds.cpp` | tables of local and remote units | Register, Send, Broadcast, Deregister | finds the queue a message goes to, in this or another process |
| workflow engine | `sky/src/workflow/engine.cpp`, `action.cpp` | workflows and actions in a database, lock table | create, run, answer, time out, finish, restart, skip, pause, resume, lock, delete, roll back, power on | the engine's thread is a message unit; any thread of the process calls the API and waits at most three seconds |
| shell, databases, serialization, misc | `sky/src/shell`, `dbs`, `serialization`, `misc` | - | console, SQL wrappers, text conversions | - |
| ECP | `network/protocol/ecp` | per port: PDUs to send with their tries and timers, PDUs received, sequence number | send, retransmit, acknowledge, hand up | carries VDP; its loop handler and its receiver run under `g_tMainThrdLock` |
| VDP station and bridge | `network/protocol/vdp` | command pool, profiles, VSI instances, the bridge's MAC/VLAN filters | associate, keep alive, dissociate, time out | the VM manager (`vnet_evb_mgr.cpp`) gives commands without that lock |
| controllers | `code/tc`, `cc`, `hc`, `network`, `storage`, `common`, `utils`, `special_device` | relational databases, caches | message handlers | everything through sky |
| user interfaces | `client/` | - | CLI, web UI | XML-RPC |

### What is hard, and what correctness means

* **Timers.** Two locks that are not held together, flags read before a lock
  (`timer.cpp:541`, `683`), blocks reused for other clients while messages of
  their former life are queued, a 32-bit flow number as the only protection, and
  a clock of two fields with a carry. Correct means: the table and the blocks
  agree, no block is lost or shared, and an expiry that is accepted belongs to
  the last arming by the present owner.
* **Message queues.** A stop flag written without the mutex, a thread id stored
  after its thread has started, wake-ups that might be lost, a popped frame that
  is dropped at stop. Correct means: first in, first out, at most once, nothing
  lost before Stop; Stop returns and leaves no thread behind.
* **Timed waits.** The time-out is itself a message in the queue and races with
  the answer; an expiry left over by one call meets the next one. Correct means:
  a call ends with a time-out only for its own timer, and no frame is lost.
* **Thread pools.** A signal sent after the unlock, an unlocked write to a shared
  map, and a destruction that gives up waiting. Correct means: every work is
  started once, is visible while it lives and is deleted once.
* **Workflow engine.** Requests and answers are lost, repeated, late and
  contradictory; the process dies between two steps; FinishAction reads and writes
  in separate steps, or in a transaction of its caller; a lock is tested when a
  request is made and used when it is executed; a caller gives up while the engine
  still works. Correct means: actions run in their order, an outcome once recorded
  stands, whatever was begun ends or is undone, never both at once, and its
  outcome is found in the history.
* **EVB.** Two state machines with timers at each end of a link that loses
  frames, over a retransmission protocol that gives up after a few tries; lists
  in which the younger overtakes the older; a manager that changes profile and
  command in two unprotected steps. Correct means: no filter without a VSI, both
  ends agree in the end, and neither takes the other for dead while it lives.
* **Message agent.** Deregistration against a delivery under way.

`PROJECT.json` lists each of these hazards at its line with the properties that
cover it.

## Modules

| module | models |
|---|---|
| `TimeValue` | `T_TimeValue`, `operator<` of `T_TimeKey`, the carry of SetTimer and LoopTimer, Scan's test, GetRemainedTime, as operators on 32-bit words of parametric width |
| `MCTimeValue` | a timer armed and re-armed at any moment, compared with plain milliseconds; bounds are constants |
| `TimeValueProofs` | theorems about `MCTimeValue`: the arithmetic for any width and any bounds |
| `AlarmClock` | abstract specification: what a timer promises |
| `Timer` | TimerManager and its clients; implements `AlarmClock` |
| `MCTimer` | its instance: two clients with a thread each |
| `TimerProofs` | theorems about `Timer` |
| `FrameFifo` | abstract specification: what a message queue promises |
| `MessageQueue` | Receive, Run, Stop, the work thread; implements `FrameFifo` |
| `MCMessageQueue`, `MessageQueueProofs` | its instance, its theorems |
| `TimedWait`, `MCTimedWait`, `TimedWaitProofs` | Wait with a limit; its instance; its theorems |
| `PoolPromise` | abstract specification: what a thread pool promises |
| `ThreadPool`, `MCThreadPool`, `ThreadPoolProofs` | the thread pool, which implements `PoolPromise`; its instance; its theorems |
| `Saga` | abstract specification: the life of a workflow and its rollback |
| `Workflow` | the workflow engine, its tables, the threads that call it, receivers and crashes; implements `Saga` |
| `MCWorkflow` | its instances: a workflow of two actions and the rollback workflow that undoes them |
| `WorkflowProofs`, `WorkflowCallsProofs` | its types and its safety; what callers of the engine may rely on, wakeups, and what FinishAction removes |
| `EcpPort` | ECP on one port, as operators on a record |
| `VdpStation`, `VdpBridge` | the two halves of VDP for one VSI, as operators on records |
| `Evb` | composes a station and a bridge, each with an ECP port, with the VM manager and the link |
| `MCEvb`, `EvbProofs` | its instances; its theorems |

An operator described as a variant that forgets something (`NoIncrementOnFree`,
`PopLast`, ...) is not used by the model. It stands before the definition it is a
faulty form of, and `PROJECT.json` pairs the two: with the faulty form in its
place TLC refutes the named property, so the property does depend on that line of
code.

### Timer

One variable per field of the block, plus the pool size, the free list, the scan
table (a set of entries; `First` is its order), the id list of every client and
the timer messages in every client's queue. A thread is either idle or inside an
operation (`call`). What an operation does under a lock is one action; what it
reads before the lock is another:

| code | actions |
|---|---|
| CreateTimer | `CreateTimer` |
| SetTimer | `SetTimer` (checks), `SetTimerLocked` |
| StopTimer | `StopTimer` (checks), `StopTimerLocked` |
| KillTimer | `KillTimer` (list, checks, unlocked look at `timing`), `RemoveForKill`, `FreeBlock` |
| Wait of a timer message, LoopTimer | `WaitTimerMessage` (ValidateTimer and checks), `LoopTimerLocked` |
| Scan | `ScanBegin`, then per entry `ScanExpire` (timing cleared), `ScanHook` (hook, push, erase), and `ScanEnd` |

`FreeBlock` does not need the scan table's lock and can fall between
`ScanExpire` and `ScanHook`; that is the race of the run `timer_kill`. A hook
called through a NULL client ends the process (`crashed`, `Dead`). A scan may
begin at any moment: nothing depends on its period. `flow` counts all increments;
the code's number is `FlowNumber`, the count modulo `FlowModulus` (2^32). The
variables `arm`, `armer`, `stopped`, `freedInTable` are history.

Two simplifications matter only for clients used by several threads: the
client's `std::list` of ids is updated atomically, and SetTimer reads the list and
the block in one step. The queue of a client is taken to accept the expiry; a
queue that is being stopped refuses it, which is modelled in `MessageQueue`.

### MessageQueue

The work thread's place in Wait is the variable `worker`; it holds `mutex` in
three of the places. The thread that calls Run and Stop is `control`; senders
test the stop flag (`Receive`) and push later (`ReceiveLocked`).
`pthread_cond_wait` may return without a signal (`SpuriousWakeup`). `hasThread`
becomes true in `RunStored`, after the thread may already run, and
`willBeStopped` is never reset, as in the code: a queue that is run again after
Stop ends its thread at the first check. Whether `pthread_kill` accepts a thread
that has ended but was not joined depends on the C library; both answers are
modelled (`StopNoThread`, `Stop`).

### TimedWait

The caller's own `_wait_timer` is its flow number and whether it is armed.
SetTimer, StopTimer and an expiry are single steps, because all three run under
the scan table's lock. `RejectSync`, `AcceptSync` and `AcceptUser` are the
branches of Wait after the pop.

### ThreadPool

Each critical section is one step. `StartThread` and `RecordThread` are the two
halves of a round of CreateThreads, the second without the mutex; AssignWork is
split into `AssignWork` and `AssignSignal` at the unlock; DestroyPool into its
polls (`Poll`) and its locked part. `starts`, `deletes`, `erased` and `unsafe` are
history. `unsafe` marks the three situations in which the code gives no
protection: a work assigned after DestroyPool began, polls that ran out, an entry
overwritten by CreateThreads. They are reachable in the runs; the properties
that need them excluded say so.

### Workflow

The tables of the database survive a crash; the queue of the engine, the calls
under way, the locks and the feedback do not. The engine is one thread; `pc` says
where DoAction is between two writes, `todo` is what the loop of Run has still to
visit, `cur` the copy of the row in the Action object. A copy may be stale, and the
updates check only that the row exists, as the SQL does.

| code | actions |
|---|---|
| Run (cycle, wakeup), PowerOn | `EngineRun`, `EnginePowerOn` list the running actions; `EngineRead` reads one again and begins DoAction |
| DoAction | `EngineClearSkip` (the rollback action may no longer be skipped), `EngineSend`, `EngineTimeOut`, `EngineFinished` |
| an answer | `EngineAck` (accepted or too late), `EngineStore` (UpdateActionState, DoAction) |
| requests of the API | `EnginePause`, `EngineResume`, `EngineDelete`, `EngineRollback` |
| FinishAction, of any thread | `FinishCount`, `FinishWrite`, `FinishDelete`; in a transaction of the caller `FinishCount`, `FinishCommit` |
| callers | `Create`, `Request` and `GiveUp` (three seconds), `LockWorkflow`, `UnlockWorkflow`, `SkipAction`, `TakeFeedback` (finish, finish in a transaction, restart, roll back or delete) |
| outside | `Tick`, `Answer`, `Lose`, `Crash` |

The engine reports an outcome again in every cycle until the action is finished
(`engine.cpp:811`), so that `mailbox` counts the copies of every feedback that its
sender has not taken; the constant `Copies` bounds the count. A sender takes copies
one by one and in any order, and drops those of an action that is gone or, unless it
is told of a timeout, finished (`Stale`), as the handlers of the workflow test do.

A row that is deleted keeps its `finished` and `state` in the model, so that the
properties can speak of what became of it. `asked`, `restarted`, `recalled`,
`closed`, `undone`, `quiet` and `gaveup` are history; `recalled` has the actions that
were restarted while feedback waited at which their sender ends them. Callers are held to two things,
`CallerAssumption`: nobody resumes a rollback workflow on his own or skips its
actions. The identities of workflows are used once.

### Evb

`EcpPort`, `VdpStation` and `VdpBridge` translate the functions of the C files,
one operator per function and with its name where it has one, as functions of a
record: all of them run under `g_tMainThrdLock`. `Evb` composes them.

| code | actions |
|---|---|
| ExecVDPCmd4VSI | `ExecProfile`, `ExecCommand`: it takes no lock, and a handler may come between |
| `vdp_delete_vsi_and_cmdPool` | `Delete` |
| `vdp_s_loop_timer_handler`, `vdp_b_loop_timer_handler` | `StationVdp`, `BridgeVdp` (adding a filter may fail) |
| `ecp_loop_timeout_handler` | `EcpLoop`: send list, then one PDU of the receive list is given to VDP |
| `ecp_rx_ReceiveFrame` | `ReceiveFrame`; `LoseFrame` is the link |
| result of LLDP's EVB TLV exchange | `NegotiationLost`, `NegotiationWon` |

Time passes in rounds: the handlers are started by periodic timers (200 ms for
VDP, 160 ms for ECP), and in a round each of the four runs once, in any order. Three
orders are left out because the steps commute: a frame arrives before the next
handler runs; the manager and the negotiation act between two rounds; the two
handlers of a system run one after the other. The uninitialised `newFlag` of a new
pool item (`vdp.c:478`) is a choice of both values. Timers are the negotiated
values in rounds, and the two waits derived from them are computed as
`evbcalc_vdpSRespWaitDelay` and `evbcalc_vdpBtoutKeepAlive` do. They are much
smaller in the runs than in the field (a keepalive every 52 VDP ticks), so that no
property claims that a response always comes back in time.

## Runs

| run | asks | bounds |
|---|---|---|
| `time_value` | is the two-field arithmetic exact | 4 ms per second, 5-bit words, starts over two seconds, durations beyond two seconds, two re-arms: every carry, the stored form (s, 1000) and the wrap occur |
| `timer_reuse` | is only the last arming delivered, does a stopped timer stay idle, are all blocks accounted for, when does the scan thread die; is it an `AlarmClock` | 2 clients with a thread each, 2 blocks allocated one at a time, so that the second is allocated while the first is in use; flow modulus 3 with bound 2 on new calls: kill, reuse and wrap all happen; 2 ms |
| `timer_kill` | is a block out of the scan table when it is released | violated, see below |
| `message_queue` | FIFO, Stop, lost wake-ups | 2 senders, 3 frames of which one is an out-of-date timer frame, 2 runs of the queue |
| `timed_wait` | whose time-out is it, is a frame lost | 6 calls, 2 frames: three left-over expiries can be queued at once |
| `thread_pool` | start, find, delete, destroy; is every work started; is it a `PoolPromise` | 2 threads, 3 works of which 2 have one name, 2 polls |
| `workflow_undo` | do undo, outcomes and history survive any answers, repeated feedback and a crash | 2 actions in order with a rollback of 2; one action with a limit of two requests, one with retry; receivers answer success or failure and change their mind; feedback on success, failure and timeout with every reaction, two copies of a failure at once; one crash at any step |
| `workflow_calls` | do pause and lock hold, is a successor asked at once; is it a `Saga` | 2 calling threads, 2 calls of any kind, both may give up; one crash |
| `workflow_live` | does every workflow end | a synchronous and an asynchronous action, lost requests and answers, two copies of a feedback, one crash |
| `workflow_stays` | is a finished workflow removed | violated, see below: two actions without an order |
| `evb_calls` | no filter without a VSI, no command without a profile, no time-out of the living, no mistaken acknowledgement | every command, 2 calls, 1 fault of any kind; 3 sequence numbers and 2 tries, so that numbers wrap while PDUs wait |
| `evb_live` | do both ends agree in the end | associations with 2 versions of the profile, 1 fault, and one try per PDU, so that a lost frame is not sent again and the recovery is VDP's own |

`OrderKept` and `StartedOnce` are not listed in a run: they are parts of `Saga` and
`PoolPromise`, which the runs check, and are proved by themselves, as the types of
`TimedWait` are.

Requests are lost in `workflow_live` only. A safety property gains nothing from a
loss: a receiver need not answer, so that every behaviour with a lost request is also
one without, up to the set of requests outside the process. "Running" as an answer
comes in `workflow_live` alone, to keep the other runs small.

Deadlock checking is off where the bounded environment simply runs out of calls
(all frames sent, all waits made, the pool destroyed, the inputs enumerated). The
timer, workflow and EVB runs keep it on. Symmetry is used only in the timer runs,
which check no liveness: it exchanges both clients with their threads.

A property that excludes a situation says so in its definition, and each
exclusion is reachable in its run: `CrashOnlyAfterEarlyFree` the early release,
`DeletionIsSafe` the unsafe uses of the pool, `LockedKept` a caller that gave up,
`ProfileLostOnlyByRace` the race, `KeptAlive` as many faults as tries,
`ClosedIsFinished` an action in `recalled`.

### What the two violations show

1. `timer_kill`: KillTimer reads `timing` at `timer.cpp:683` before any lock.
   While the scan thread is between lines 461 and 484, the timer looks idle and
   the block is released with its entry still in the table, although the comment
   says it is first taken out. If the release comes before line 467, the hook is
   called through NULL. `CrashOnlyAfterEarlyFree` shows that this is the only way.
2. `workflow_stays`: FinishAction counts the unfinished actions (`action.cpp:2824`)
   and writes later (2840). When the engine ends one action and a sender the other,
   both count two, neither removes the workflow, and it stays in the table, with
   nothing left to do, until PowerOn removes it. `workflow.h:951` says that it is
   removed with its last action.

### What else the code does

Behaviour met while modelling which the models contain and which a reader of the
headers would not expect. No property asserts the contrary.

* *Timers.* StopTimer of a loop timer that has just expired returns SUCCESS and
  changes nothing (`timer.cpp:650`); the queued expiry is still valid and LoopTimer
  arms the timer again. Two threads that share a timer (the comment at 601 speaks of
  that) can arm a block one of them has just released, because SetTimer checks the
  client before the lock (541).
* *Workflow.* A timeout shorter than the cycle counts as one request
  (`engine.cpp:206`, 644), and every answer to it is "too late". An action
  restarted after a timeout times out again before it is requested, because its
  count is not reset (`action.cpp:1842`; `workflow.h:954` says otherwise). A wakeup
  requests an action again that was requested and not answered
  (`engine.cpp:714`). A second FinishAction for the same action, while one
  other is unfinished, removes the workflow with work left (`action.cpp:2854`). It is
  made when a sender ends an action on every timeout it is told of, as the handler in
  `test_workflow.cpp` does at its end, because timeouts are repeated and that handler
  does not ask whether the action is finished. And a sender that restarts an action
  while a copy of earlier feedback is still queued may end it for an outcome it no
  longer has. RollbackWorkflow of a rollback
  workflow is accepted and deletes it (`engine.cpp:896`). FinishAction in a
  transaction wakes the engine before the commit (`action.cpp:2881`); the successor
  may then wait for the next cycle. An asynchronous last action that is ended in a
  transaction is recorded as cancelled (`action.cpp:2355`).
* *EVB.* A VDP tick between the two calls of ExecVDPCmd4VSI deletes the profile
  (`vnet_evb_mgr.cpp:557`, 564; `vdp_s.c:648`); the VSI then starts again and again
  without sending, until the manager's polling adds the profile anew. Both ECP lists
  grow at their head, so that a younger PDU overtakes an older one; a stale response
  can then leave a station in ASSOC_NEW or PREASSOC_NEW. The bridge's time-out goes
  before a keepalive that was acknowledged and waits (`vdp_b.c:1042`). A
  pre-association has no filter, so that its time-out sends no notice; a change from
  ASSOC to PRE leaves the filter in place.

### Fairness

`MessageQueue`: weak fairness of the work thread, of a Stop or Run under way and
of a sender that is about to push. The code justifies it as far as the scheduler
runs ready threads, mutexes are not held for ever (they are not: no code blocks
under `_queue_mutex`) and the handler returns. Nobody has to send, run or stop.
`TimedWait`: weak fairness of the caller and of the expiry of an armed timer (the
scan thread runs periodically). `ThreadPool`: weak fairness of pool threads,
signals under way and CreateThreads, and works that return from Execute.
Spurious wake-ups are allowed and never required.

`Workflow` (`FairSpec`): weak fairness of the engine's thread, of calls of
FinishAction and of senders that have mail: threads run. Strong fairness of the
loop timer, because whether the queue has room is a bound of the model only. Strong
fairness of `Answer(a, "success")`: a receiver that is asked again and again
succeeds in the end; without it no engine could end a workflow. Losses are not
bounded: any number of requests may be lost, but a receiver that gets requests
again and again does not stay silent for ever.

`Evb` (`FairSpec`): weak fairness of the periodic handlers and the link as one
action; the rounds see to it that no handler is left out. Strong fairness of
`ExecCommand`, which is possible only between two rounds: a thread between two calls
goes on. The manager need not do anything, faults need not happen, and a lost
negotiation need not come back: the liveness properties have it as a premise.

## Proofs

`TLAPS` proves, for every value of the constants:

| theorem | states | assumes |
|---|---|---|
| `ExpiryCorrect` | `ExpiryIsExact` | `TimeValueAssumption`, `BoundsAssumption`; `ClockInRange`: the clock's seconds fit their field (2^32 of them are 136 years) |
| `RemainedCorrect` | `RemainedIsExact` | the first two |
| `TypeCorrect` | `Timer` keeps `TypeOK` | constants as in `TimerAssumption`, `TimeValueAssumption` |
| `RemoveTimerSucceeds` | `TableIsSound` | nothing more: any number of threads on any client |
| `BlocksSafe`, `FreeBlocksStayIdle` | `BlocksAccountedFor`; no free block runs | `SingleThreaded`: one thread per client |
| `DeliverySafe`, `ScanThreadSurvives` | `OnlyLastSetDelivers`, `CrashOnlyAfterEarlyFree` | `SingleThreaded` |
| `StoppedSafe` | `StoppedStaysIdle` | `SingleThreaded` |
| `TimerImplementsAlarm` | `Timer` implements `AlarmClock` | nothing more: any number of threads on any client |
| `StopLeavesNoWorker` | `NoWorkerAfterStop` | - |
| `QueueTypeCorrect` | `MessageQueue` keeps `TypeOK` | `QueueAssumption` |
| `QueueImplementsFifo` | `MessageQueue` implements `FrameFifo` | the same |
| `WaitTypeCorrect`, `TimeOutCorrect`, `NothingLostCorrect` | `TimedWait` keeps `TypeOK`; `TimeOutIsOwn`; `NothingLost` | `WaitAssumption` |
| `PoolTypeCorrect`, `StartedOnceCorrect`, `FoundCorrect`, `DeletionCorrect` | `ThreadPool` keeps `TypeOK`; `StartedOnce`, `LiveWorkIsFound`, `DeletionIsSafe` | `PoolAssumption` |
| `PoolKeepsPromise` | `ThreadPool` implements `PoolPromise` | the same, unsafe uses of the pool included |
| `WorkflowTypeCorrect` | `Workflow` keeps `TypeOK` | constants as in the named assumptions |
| `OrderCorrect`, `UndoArmedCorrect`, `UndoAloneCorrect`, `NothingVanishesCorrect` | `OrderKept`, `UndoArmed`, `UndoAlone`, `NothingVanishes` | the same, with `CallerAssumption` |
| `OutcomeCorrect` | `OutcomeStands`, a property of steps | the same |
| `PausedCorrect`, `LockedCorrect` | `PausedIsQuiet`; `LockedKept`, a property of steps | the same |
| `WorkflowImplementsSaga` | `Workflow` implements `Saga` | the same, transactions and disorderly senders included |
| `WokenCorrect` | `ReadyIsWoken` | the same, and `NoTransactions`: no sender ends an action in a transaction |
| `ClosedCorrect` | `ClosedIsFinished` | the same, and `OrderlySenders`: senders end actions at a recorded outcome that is not a timeout, in a transaction only after a success that the row says, too |
| `EvbTypeCorrect` | `Evb` keeps `TypeOK` | `EcpAssumption`, `EvbAssumption` |
| `FilterCorrect` | `FilterHasVsi` | the same |
| `ProfileRaceCorrect` | `ProfileLostOnlyByRace` | the same |

**Clock.** What SetTimer and LoopTimer store is a moment with at most a whole second
in its milliseconds (`Stored`), of which (s, 1000) is the one that is not normal.
On such moments `operator<` orders as the milliseconds do (`LessIsLess`) and the
carry adds exactly (`CarryExact`), as long as the seconds do not wrap; the lemmas rest
on `DivMod` alone. That the stored moment is the one due is then inductive over any
number of re-armings (`ExpiryInv`).

**Scan table.** `ScanTableConsistent` is inductive together with the types. The
point is that an operation which changes an expiry holds the scan table's lock,
so that no entry is being fired, and every entry is then of a running timer and is
the one its block describes; RemoveTimer finds it, and the new entry replaces it.

**Blocks.** `BlocksAccountedFor` alone is not inductive: a SetTimer in progress
could arm a block that was released meanwhile, and a KillTimer could release a
block that was armed meanwhile. `OwnerInv` adds `PendingOwned` (the timer of a
Set, Stop or Loop in progress is still in the list of the caller's client),
`UnallocatedFree`, and `FreeingIdle` (a block about to be released does not run).
With one thread per client nobody else can take an id out of the list, which is
where `SingleThreaded` is used; the race of SetTimer described above shows that it
is needed. What holds for shared timers too is the scan table's part, and it is
proved only: the runs give every client a thread of its own.

**Delivery.** `DeliveryInv` adds what the flow number is for: the message of a
client counts at most as many increments as its block, and if it counts as many,
the block has not been armed, released or given away since (`MessagesOK`);
entries of the table were made by the present owner unless a block was released
early (`ArmedOwned`). The step is split in two: `BlockFrame` says that no step
lowers a flow or changes arming and owner without raising it, and only ScanHook
adds messages. The flow number of a message equals that of its block only if the
counts are equal, as long as the block's count is below the modulus.

**Stopped timers.** `StoppedStaysIdle` does not follow from the flow numbers: StopTimer
of a timer whose expiry is queued leaves the number alone, and Wait then takes that
expiry for valid. What saves a one-shot timer is the type in the message. A message
that counts as many increments as its block carries the type the timer has now
(`LoopingIsLoop` and `MessagesOK`), and Wait re-arms loop timers only.

**Alarm clock.** In `AlarmClock` there is neither table nor lock. A call is `wanted`
from its check to the step under the scan table's lock, and takes effect there: the
mapping reads `wanted` off the calls under way, `armed` off the timing flags, `due`
off the two fields of the expiry in milliseconds, and `ringing` off the entry between
`ScanExpire` and `ScanHook`. `MomentsInv` says that every expiry is a stored moment and
that the time a scan works with is not ahead of the clock, so that it fires no timer
early. Timers ring in the order of their due moments because the first entry
of the table is the least by `operator<`, which orders stored moments as milliseconds
do, and because `ScanTableConsistent` has an entry for every running timer, with the
expiry of its block. That LoopTimer adds to the stored expiry and not to the clock
is what `Again` asks for. The arithmetic comes from `TimeValueProofs` by INSTANCE.
The fields are as wide as they are: for a due moment after `Latest` or a period
longer than `Longest` the sums wrap and the abstract alarm may be due at any moment,
and after `Latest`, when the clock itself has wrapped, alarms may ring early. Shared
timers are included: whichever thread wins, calls act one after the other.

**Queue.** `NoWorkerAfterStop` is inductive by itself and is used for the types:
Run starts a thread only where none is left. In the refinement a frame popped by
the work thread is still pending; Receive's push is Accept, Dispatch (or the
rejection of a stale frame) is Take, a frame dropped at stop is Abandon, and every
other step is a stutter or RequestStop.

**Timed wait.** Flow numbers only grow, so that an expiry whose number is that of
the timer can only be that of the last arming. `OnlyOne` says that at most one such
expiry is in the queue or in the hands of Wait, and none while the timer is armed;
`OwnFlow` ties the number to the call that waits. `NothingLost` is stated without
filtering the queue: the frames popped so far are a prefix of those sent, and `rank`
maps the others, by their places in the queue, to the rest in order and without a gap.
The proof gives the new map for each step: Receive extends it, TakeFrame shifts it.

**Thread pool.** `Ledger` says that every work is in one place: not assigned yet,
waiting, taken out by CancelWork, run by one thread, or done. `Entries` relates the
map's entry of a thread to what the thread does, with the exception of an entry
that CreateThreads overwrote. `Destruction` says that until DestroyPool deletes
works itself, or if it saw the pool empty, nothing that is held was deleted.

`PoolPromise` is the ledger seen from outside: a queue of works, those begun, those
deleted. `FetchWork` is Begin, `DeleteWork` Delete, and the locked part of DestroyPool
Close. Two facts carry the proof: `Ledger`, because of which a work that waits was never
begun, and `ClosedIsEmpty`, because of which a thread that wakes after DestroyPool has
nothing left to fetch. The promise is kept in unsafe uses too; it does not say that the
works Close deletes are not being executed, which `DeletionIsSafe` does.

**Workflow.** None of the safety properties is inductive: a request may be sent
long after its action was listed. `CoreInv` rests on one notion, `Due(a)`: the
predecessors of `a` are finished, its workflow is in a table, and if it is a
rollback workflow, what it undoes is over. `Due` is stable: nothing makes an
action undone, and workflows leave the table in one way only, which the lemmas
state once as `Retires` and which covers FinishAction, DeleteWorkflow,
RollbackWorkflow and PowerOn. So it is enough that an action is due when the engine
lists it (`RunningIsDue`), and `TouchedInv` keeps it for every action requested,
listed, in hand or being finished. `TablesInv` ties a workflow to its rollback:
they enter together, and the rollback is paused as long as the other is there.
`ReachedInv` says that answers, feedback and non-initial rows belong to requested
actions; `SendInv` carries `UndoArmed` over the step between clearing the flag and
sending; `OutcomeInv` says that the engine is never about to overwrite an outcome.

*Saga.* `Phase` reads the life of a workflow off the two tables: one in the history is
over, a rollback whose workflow is in the table with it is prepared, one that is in
neither table is absent, or dropped if its workflow is in the history. Most steps of the
code are stutters; of the others, `EngineSend` is Ask, `FinishWrite` is Finish, `FinishCommit`
is Finish or Complete, and every removal is, whichever thread makes it, one of End,
Rollback and Discard, which is where `Retires` is used once more. Ask and Finish
require what the saga calls Ready and Undoing, and both follow from `Due`, once it is
known of the finished actions too (`FinishedInv`). The run checks it on a workflow and its rollback with pauses, locks,
deletions and a crash. Transactions, timeouts and repeated feedback, which `workflow_undo`
has, are covered by the theorem only: that instance is too large to check the
refinement on as well.

`CallInv` adds what the calls rest on. Requests are in the queue in the order of
their numbers (`QueueInv`), so that an answer ends the wait of its own caller only.
As long as nobody gives up, a request to delete or roll back in the queue has a
caller who holds the mutex, and LockWorkflow needs the mutex: the test of the lock
still holds when the engine gets there (`LockInv`). A workflow whose pause was
confirmed is paused, and no request that would let it run is in the queue
(`QuietInv`); it cannot be created again, because its history row is there, or it
is a rollback workflow.

*Wakeups.* `ReadyIsWoken` becomes inductive as `WokenInv` when the engine's own places
are made explicit: an answer is handled only when the list of Run is empty
(`mode = "ack" => todo = {}`), so that no listed action is passed over by `Ignored`, and
a stored answer never makes an action ready again. A successor becomes ready by
FinishAction's write, which appends the wakeup in the same step unless the workflow is
about to be removed. In a transaction the wakeup comes first and the write later; the
engine may look too early, and the property is false there, which is why
`NoTransactions` is needed.

*Removal.* FinishAction counts, and removes the workflow later if it counted one. That
the one it counted is the action it ends, and still is when it gets there, is
`CountClaim`. It needs `Claim(a)`: the engine and a sender never end the same action,
and nobody ends it for an outcome it does not have. Feedback at which the sender may end
an action says what the row says (`MailClaim`), the sender is one thread and tests
`Stale` before (`CallClaim`), and the engine, when it comes to an action whose sender
ends it or has been told to, does no more than report it again (`HandClaim`,
`ClaimedRead`). Due actions carry it over CreateWorkflow: what is created is not due, so
that nobody works on it (`UntouchedClaim`). Each part of `OrderlySenders` excludes a
behaviour described above: with the timeouts of the test's handler `Claim` fails and so
does the property; a failure that is ended in a transaction, or the last action when it
is asynchronous, is not recorded as a success.

**EVB.** `EvbInv` strengthens the types where a guard of the code depends on it: a
PDU that has not been sent has used no try (`FreshPdu`), otherwise the count could
pass its maximum; a VSI of the bridge has its command; a filter has a VSI in
WAIT_STATION_CMD. The profile is lost while a command is pending only if the
manager was interrupted, and this is stable because a command deletes no profile.
Each handler has a lemma of its own over its record, so that the proof of a step
only composes them.

**Only model-checked:** all liveness (`StopReturns`, `AcceptedIsHandled`,
`LimitedWaitReturns`, `AssignedIsStarted`, `EveryWorkflowEnds`,
`AssociationConverges`, `ReleaseConverges`), because the prover does not handle
fairness; and two invariants of `Evb` that are not true for every value of its
constants:

* `KeptAlive` depends on the timers. With one try, and timers of one round each
  (`MaxTries`, `AckTimerInit`, `ReinitKeepAlive` and `ResourceWaitDelay` all 1), TLC
  refutes it without any fault: a keepalive waits up to six rounds for the handlers of
  both ends to come round, as many as `evbcalc_vdpBtoutKeepAlive` then allows. A
  theorem would need timers above that skew and an argument about the time that a PDU
  spends in both ECP lists, in which a younger PDU may overtake it.
* `AckIsUnambiguous` depends on the number space. It holds while the numbers do not
  wrap within the life of one PDU in a list that grows at its head, and nothing in the
  code bounds that life by the 16 bits of the number: it is a matter of the speeds of
  the handlers. An assumption to that effect would restate the property.

The properties of the two runs that expect a violation are false.

## Not modelled

* *Runtime.* Tracing and show commands; the storage of the timer pool's vector and
  of the pool's `std::map` under unlocked concurrent use (undefined memory); the
  destruction of a TimerClient and of the TimerManager; a queue without a handler;
  the message agent and the sockets below it (planned).
* *Workflow.* Names, labels, progress and the other columns that only accessors
  read; the idle count that stretches the cycle; several engines, which share
  nothing but the tables and have disjoint workflows.
* *EVB.* The LLDP exchange, of which only the result is there; timers renegotiated
  during an association (`evbtlv_chg_set_*`); the shutdown of a port
  (`vdp_port_shutdown_b` frees the instances and leaves their filters); several VSIs
  and ports; the rows of the tables that need the keep bit or `bridgeExit`, which
  nothing sets, and the station's TRANSMIT_DEASSOC, which nothing reaches.
* *The rest of the repository.* The shell, databases, text conversions, the
  controllers, storage, and the user interfaces. Most of the repository's lines are
  there, in drivers of hypervisors and storage arrays, wrappers of database
  clients, a vendored SNMP library, SQLite, PHP and generated structures: I/O, SQL
  and third-party code whose behaviour lies in the systems they call.

## Plan

1. *Done:* timers, message queue with its abstract FIFO, timed wait, thread pool;
   workflow engine with persistence, restart and rollback; edge virtual bridging;
   theorems about each of them.
2. Message agent: registration and delivery by name against deregistration, and
   its composition with `MessageQueue`; destruction of a TimerClient against the
   scan thread.
3. Proofs. *Done:* every safety property of the passing runs except two of `Evb`, and
   the refinements of the queue, the timer, the pool and the workflow engine. *Left:* a
   bound on the time that a PDU spends in ECP, from which `KeptAlive` would follow for
   timers above it.
4. The host heartbeat and the life cycle of a virtual machine in the cluster
   controller, on top of `Workflow`.
