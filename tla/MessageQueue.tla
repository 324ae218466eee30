---------------------------- MODULE MessageQueue ----------------------------
(***************************************************************************)
(* MessageQueue (message_queue.cpp): senders push frames under             *)
(* _queue_mutex and signal _queue_cond; the work thread created by Run     *)
(* waits for frames and hands them to the handler; Stop raises             *)
(* _will_be_stopped without the mutex, signals under it and joins the work *)
(* thread.  _will_be_stopped is never reset, and Run stores _workthread_id *)
(* only after the thread it started may already be running.                *)
(*                                                                         *)
(* The work thread calls Wait with WAIT_FOREVER; Wait with a timeout is    *)
(* the subject of TimedWait.  LoopTimer, which Wait calls for the frame of *)
(* a loop timer, is modelled in Timer.                                     *)
(***************************************************************************)
EXTENDS Naturals, Sequences

CONSTANTS
  Senders,   \* threads that call Receive: other units and the scan thread
  Msgs,      \* frames, each sent once
  Stale,     \* timer frames that ValidateTimer refuses
  MaxRuns    \* bound: number of calls of Run

ASSUME QueueAssumption == Stale \subseteq Msgs /\ MaxRuns \in Nat

NoMsg == "no frame"
ASSUME NoMsgAssumption == NoMsg \notin Msgs

VARIABLES
  frames,        \* _waiting_frames
  mutex,         \* _queue_mutex is held by the work thread
  willBeStopped, \* _will_be_stopped
  hasThread,     \* _workthread_id # INVALID_THREAD_ID
  worker,        \* where the work thread is
  hand,          \* the frame it has popped
  sender,        \* the frame a sender is about to push
  unsent,        \* frames nobody has sent yet
  control,       \* where the thread that calls Run and Stop is
  runs,          \* calls of Run so far
  handled        \* history: frames given to MessageEntry, in order

vars == <<frames, mutex, willBeStopped, hasThread, worker, hand, sender, unsent,
          control, runs, handled>>

\* Places where the work thread holds _queue_mutex.
Holding == {"test", "wait", "woken"}

WorkerPlaces == Holding \cup
  {"none", "enter", "lock", "asleep", "relock", "popped", "dispatch", "exited"}

ControlPlaces == {"idle", "starting", "signal", "join"}

Init ==
  /\ frames = <<>>
  /\ mutex = FALSE
  /\ willBeStopped = FALSE
  /\ hasThread = FALSE
  /\ worker = "none"
  /\ hand = NoMsg
  /\ sender = [s \in Senders |-> NoMsg]
  /\ unsent = Msgs
  /\ control = "idle"
  /\ runs = 0
  /\ handled = <<>>

\* IF_WORKTHREAD_WILL_STOP.
WillStop == hasThread /\ willBeStopped

\* pthread_cond_signal: a sleeping work thread leaves the condition variable and
\* asks for the mutex; nobody else ever waits.
Signalled == IF worker = "asleep" THEN "relock" ELSE worker

-----------------------------------------------------------------------------
(* Receive *)

\* The check before the lock: refused with ERROR_THREAD_WILL_EXIT, or on to the
\* lock.
Receive(s) ==
  /\ sender[s] = NoMsg
  /\ \E m \in unsent :
       /\ unsent' = unsent \ {m}
       /\ sender' = IF WillStop THEN sender ELSE [sender EXCEPT ![s] = m]
  /\ UNCHANGED <<frames, mutex, willBeStopped, hasThread, worker, hand, control,
                 runs, handled>>

\* A push that forgets to signal.
PushOnly == worker

\* What the push does to the work thread.
AfterPush == Signalled

\* push, count, signal and unlock.
ReceiveLocked(s) ==
  /\ sender[s] # NoMsg
  /\ ~mutex
  /\ frames' = Append(frames, sender[s])
  /\ sender' = [sender EXCEPT ![s] = NoMsg]
  /\ worker' = AfterPush
  /\ UNCHANGED <<mutex, willBeStopped, hasThread, hand, unsent, control, runs,
                 handled>>

-----------------------------------------------------------------------------
(* The work thread: mqWorkLoopTaskEntry and Wait(WAIT_FOREVER) *)

WorkerTo(place) ==
  /\ worker' = place
  /\ UNCHANGED <<frames, willBeStopped, hasThread, hand, sender, unsent, control,
                 runs, handled>>

\* The first check of Wait.
EnterWait ==
  /\ worker = "enter"
  /\ WorkerTo(IF WillStop THEN "exited" ELSE "lock")
  /\ UNCHANGED mutex

Lock ==
  /\ \/ worker = "lock"   /\ WorkerTo("test")
     \/ worker = "relock" /\ WorkerTo("woken")
  /\ ~mutex
  /\ mutex' = TRUE

\* An early return that forgets pthread_mutex_unlock.
KeepOnExit == TRUE

\* An early return of the loop releases the mutex.
HeldAfterCheck == ~WillStop

\* The loop condition is true: the queue is empty.
TestEmpty ==
  /\ worker = "test"
  /\ frames = <<>>
  /\ WorkerTo(IF WillStop THEN "exited" ELSE "wait")
  /\ mutex' = HeldAfterCheck

\* pthread_cond_wait releases the mutex and sleeps in one step.
CondWait ==
  /\ worker = "wait"
  /\ WorkerTo("asleep")
  /\ mutex' = FALSE

\* pthread_cond_wait may return without a signal.
SpuriousWakeup ==
  /\ worker = "asleep"
  /\ WorkerTo("relock")
  /\ UNCHANGED mutex

\* The check after pthread_cond_wait.
CheckWoken ==
  /\ worker = "woken"
  /\ WorkerTo(IF WillStop THEN "exited" ELSE "test")
  /\ mutex' = HeldAfterCheck

\* A pop that takes the newest frame.
PopLast == [msg |-> frames[Len(frames)], rest |-> SubSeq(frames, 1, Len(frames) - 1)]

\* front and pop.
Pop == [msg |-> Head(frames), rest |-> Tail(frames)]

TakeFrame ==
  /\ worker = "test"
  /\ frames # <<>>
  /\ hand' = Pop.msg
  /\ frames' = Pop.rest
  /\ worker' = "popped"
  /\ mutex' = FALSE
  /\ UNCHANGED <<willBeStopped, hasThread, sender, unsent, control, runs, handled>>

\* The check after the unlock: a thread told to stop drops the frame it has
\* popped.  A stale timer frame makes Wait return ERROR_TIMER_MESSAGE_INVALID and
\* the loop starts over.
CheckPopped ==
  /\ worker = "popped"
  /\ worker' = IF WillStop THEN "exited"
               ELSE IF hand \in Stale THEN "enter" ELSE "dispatch"
  /\ hand' = IF WillStop \/ hand \in Stale THEN NoMsg ELSE hand
  /\ UNCHANGED <<frames, mutex, willBeStopped, hasThread, sender, unsent, control,
                 runs, handled>>

\* handler->MessageEntry.
Dispatch ==
  /\ worker = "dispatch"
  /\ handled' = Append(handled, hand)
  /\ hand' = NoMsg
  /\ worker' = "enter"
  /\ UNCHANGED <<frames, mutex, willBeStopped, hasThread, sender, unsent, control,
                 runs>>

-----------------------------------------------------------------------------
(* Run and Stop, called by the thread that owns the queue *)

ControlTo(place) ==
  /\ control' = place
  /\ UNCHANGED <<frames, mutex, hand, sender, unsent, handled>>

\* Run with no work thread: StartThread.  Run of a running queue returns
\* ERROR_DUPLICATED_OP and a failed StartThread ERROR; neither changes anything.
Run ==
  /\ control = "idle"
  /\ ~hasThread
  /\ runs < MaxRuns
  /\ runs' = runs + 1
  /\ worker' = "enter"
  /\ ControlTo("starting")
  /\ UNCHANGED <<willBeStopped, hasThread>>

\* The result of StartThread is stored.
RunStored ==
  /\ control = "starting"
  /\ hasThread' = TRUE
  /\ ControlTo("idle")
  /\ UNCHANGED <<willBeStopped, worker, runs>>

\* Stop of a work thread that has already ended by itself, when pthread_kill
\* fails for such a thread.
StopNoThread ==
  /\ control = "idle"
  /\ hasThread
  /\ worker = "exited"
  /\ hasThread' = FALSE
  /\ worker' = "none"
  /\ ControlTo("idle")
  /\ UNCHANGED <<willBeStopped, runs>>

\* Stop up to its lock, for a living work thread or for an ended one that
\* pthread_kill still accepts: which of the two depends on the C library.
Stop ==
  /\ control = "idle"
  /\ hasThread
  /\ willBeStopped' = TRUE
  /\ ControlTo("signal")
  /\ UNCHANGED <<hasThread, worker, runs>>

\* A Stop that signals without the mutex.
SignalUnlocked == TRUE

\* Stop signals under _queue_mutex.
SignalLocked == ~mutex

StopSignal ==
  /\ control = "signal"
  /\ SignalLocked
  /\ worker' = Signalled
  /\ ControlTo("join")
  /\ UNCHANGED <<willBeStopped, hasThread, runs>>

\* A Stop that does not wait for the work thread.
NoJoin == TRUE

\* pthread_join returns.
Joined == worker = "exited"

StopJoin ==
  /\ control = "join"
  /\ Joined
  /\ hasThread' = FALSE
  /\ worker' = IF worker = "exited" THEN "none" ELSE worker
  /\ ControlTo("idle")
  /\ UNCHANGED <<willBeStopped, runs>>

-----------------------------------------------------------------------------

WorkerStep == EnterWait \/ Lock \/ TestEmpty \/ CondWait \/ CheckWoken \/ TakeFrame
              \/ CheckPopped \/ Dispatch

ControlStep == RunStored \/ StopSignal \/ StopJoin

Next ==
  \/ \E s \in Senders : Receive(s) \/ ReceiveLocked(s)
  \/ WorkerStep \/ SpuriousWakeup
  \/ ControlStep \/ Run \/ Stop \/ StopNoThread

\* Threads that can run do: the scheduler is fair and MessageEntry returns.
\* Nothing obliges anybody to call Receive, Run or Stop.
Spec ==
  /\ Init /\ [][Next]_vars
  /\ WF_vars(WorkerStep) /\ WF_vars(ControlStep)
  /\ \A s \in Senders : WF_vars(ReceiveLocked(s))

-----------------------------------------------------------------------------
(* Properties *)

\* Every variable has its type, the mutex is held exactly where Wait holds it and
\* the frame on its way to the handler is not a stale one.
TypeOK ==
  /\ frames \in Seq(Msgs)
  /\ mutex \in BOOLEAN
  /\ mutex <=> worker \in Holding
  /\ willBeStopped \in BOOLEAN
  /\ hasThread \in BOOLEAN
  /\ worker \in WorkerPlaces
  /\ hand \in Msgs \cup {NoMsg}
  /\ hand # NoMsg <=> worker \in {"popped", "dispatch"}
  /\ worker = "dispatch" => hand \notin Stale
  /\ sender \in [Senders -> Msgs \cup {NoMsg}]
  /\ unsent \subseteq Msgs
  /\ control \in ControlPlaces
  /\ runs \in 0..MaxRuns
  /\ handled \in Seq(Msgs)

\* Once Stop has returned there is no work thread left that could touch the queue
\* or call the handler (message_queue.cpp:271), and Run never starts a second one
\* beside a living one (message_queue.cpp:224): the destructor, which calls Stop,
\* may free the queue.
NoWorkerAfterStop ==
  /\ control = "idle" /\ ~hasThread => worker = "none"
  /\ worker = "exited" => willBeStopped

\* Stop returns: the wake-up it sends cannot be lost between the work thread's
\* look at _will_be_stopped and its pthread_cond_wait (message_queue.cpp:117,
\* 126, 261-265), whatever the senders do meanwhile.
StopReturns == control \in {"signal", "join"} ~> control = "idle"

IsQueued(m) == \E i \in DOMAIN frames : frames[i] = m

WasHandled(m) == \E i \in DOMAIN handled : handled[i] = m

\* A frame accepted by Receive (message_queue.cpp:215) while a work thread is to
\* serve the queue is handled, unless the queue is told to stop: no signal of
\* Receive is lost.
AcceptedIsHandled ==
  \A m \in Msgs \ Stale :
    IsQueued(m) /\ runs > 0 ~> WasHandled(m) \/ willBeStopped

Fifo == INSTANCE FrameFifo WITH
          pending  <- IF hand = NoMsg THEN frames ELSE <<hand>> \o frames,
          stopping <- willBeStopped

\* The queue implements its abstract promise: in order, at most once, and frames
\* are given up only after Stop (message_queue.cpp:136, 142, 215).
ImplementsFifo == Fifo!Spec
=============================================================================
