----------------------------- MODULE TimedWait -----------------------------
(***************************************************************************)
(* Wait with a time limit (message_queue.cpp:93-207), called by the thread *)
(* that owns a message unit: it arms the unit's own _wait_timer, takes the *)
(* first frame, and stops the timer again unless the frame is the expiry   *)
(* of that timer.  Calls with and without a limit follow each other in any *)
(* order, while other units send frames and the timer may expire between   *)
(* any two steps.                                                          *)
(*                                                                         *)
(* SetTimer, StopTimer and an expiry are one step each: all three run      *)
(* under rel_scan_table_mutex (see Timer).  flow and armed are those of    *)
(* _wait_timer; the caller has no other timers and no work thread.         *)
(***************************************************************************)
EXTENDS Naturals, Sequences

CONSTANTS
  Msgs,       \* frames of other units, each sent once
  MaxWaits    \* bound: number of calls of Wait

WAIT_FOREVER == "FOREVER"
LIMITED      == "LIMITED"

SUCCESS                     == "SUCCESS"
ERROR_TIME_OUT              == "TIME_OUT"
ERROR_TIMER_MESSAGE_INVALID == "INVALID"

None == "none"

ASSUME WaitAssumption == MaxWaits \in Nat /\ None \notin Msgs

VARIABLES
  frames,    \* _waiting_frames
  unsent,    \* frames nobody has sent yet
  armed,     \* _wait_timer is timing
  flow,      \* flow_number of _wait_timer
  place,     \* where the caller is
  limit,     \* the argument of the call: WAIT_FOREVER or a time limit
  hand,      \* the frame it has popped
  waits,     \* calls so far
  result,    \* what the last call returned
  owned,     \* history: the flow of the timer the present or last call has armed
  sent, got  \* history: frames in the order sent, and as returned by Wait

vars == <<frames, unsent, armed, flow, place, limit, hand, waits, result, owned,
          sent, got>>

\* A frame is a message of another unit or an expiry of _wait_timer (the message
\* EV_SKY_SYNC_TIMER) with the flow number the block had then.
UserFrame(m) == [msg |-> m, flow |-> 0]
SyncFrame(n) == [msg |-> None, flow |-> n]
IsSync(f) == f.msg = None
Frames == [msg : Msgs \cup {None}, flow : Nat]
NoFrame == SyncFrame(0)

Init ==
  /\ frames = <<>>
  /\ unsent = Msgs
  /\ armed = FALSE
  /\ flow = 0
  /\ place = "idle"
  /\ limit = WAIT_FOREVER
  /\ hand = NoFrame
  /\ waits = 0
  /\ result = None
  /\ owned = 0
  /\ sent = <<>> /\ got = <<>>

\* SetTimer that leaves the flow number of a timer that is not running alone.
FlowKeptWhenIdle == IF armed THEN flow + 2 ELSE flow

\* flow_number after SetTimer: one increment, and one of RemoveTimer.
FlowAfterSet == IF armed THEN flow + 2 ELSE flow + 1

\* SetTimer that takes a running timer out of the table and does not put it back.
RemovedOnly == ~armed

\* The timer is in the scan table after SetTimer, whether it was before or not.
ArmedAfterSet == TRUE

\* Wait up to the lock: a limited call arms _wait_timer, created at the first.
Wait ==
  /\ place = "idle"
  /\ waits < MaxWaits
  /\ waits' = waits + 1
  /\ place' = "waiting"
  /\ result' = None
  /\ \E l \in {WAIT_FOREVER, LIMITED} :
       /\ limit' = l
       /\ IF l = LIMITED
          THEN flow' = FlowAfterSet /\ armed' = ArmedAfterSet /\ owned' = flow'
          ELSE UNCHANGED <<flow, armed, owned>>
  /\ UNCHANGED <<frames, unsent, hand, sent, got>>

\* front and pop, once there is a frame.
TakeFrame ==
  /\ place = "waiting"
  /\ frames # <<>>
  /\ hand' = Head(frames)
  /\ frames' = Tail(frames)
  /\ place' = "taken"
  /\ UNCHANGED <<unsent, armed, flow, limit, waits, result, owned, sent, got>>

Return(status) ==
  /\ place' = "idle"
  /\ result' = status
  /\ hand' = NoFrame

\* ValidateTimer.
ValidateTimer(f) == f.flow = flow

\* The frame is an expiry that is out of date: the call fails at once, and the
\* timer it may have armed stays armed.
RejectSync ==
  /\ place = "taken"
  /\ IsSync(hand) /\ ~ValidateTimer(hand)
  /\ Return(ERROR_TIMER_MESSAGE_INVALID)
  /\ UNCHANGED <<frames, unsent, armed, flow, limit, waits, owned, sent, got>>

\* The frame is a valid expiry: the limit of this call is over, or a call without
\* a limit returns it like any other frame.
AcceptSync ==
  /\ place = "taken"
  /\ IsSync(hand) /\ ValidateTimer(hand)
  /\ Return(IF limit = LIMITED THEN ERROR_TIME_OUT ELSE SUCCESS)
  /\ UNCHANGED <<frames, unsent, armed, flow, limit, waits, owned, sent, got>>

\* flow_number after StopTimer of a running timer.
FlowAfterStop == flow + 2

\* A Wait that gives the expiry that came meanwhile precedence over its frame.
DropWhenExpired == IF limit = LIMITED /\ ~armed THEN got ELSE Append(got, hand.msg)

\* The frame is returned to the caller.
Delivered == Append(got, hand.msg)

\* The frame is from another unit: a limited call stops its timer, which may have
\* expired meanwhile.
AcceptUser ==
  /\ place = "taken"
  /\ ~IsSync(hand)
  /\ IF limit = LIMITED /\ armed
     THEN armed' = FALSE /\ flow' = FlowAfterStop
     ELSE UNCHANGED <<armed, flow>>
  /\ got' = Delivered
  /\ Return(SUCCESS)
  /\ UNCHANGED <<frames, unsent, limit, waits, owned, sent>>

\* Receive of a frame from another unit.
Receive ==
  /\ \E m \in unsent :
       /\ unsent' = unsent \ {m}
       /\ frames' = Append(frames, UserFrame(m))
       /\ sent' = Append(sent, m)
  /\ UNCHANGED <<armed, flow, place, limit, hand, waits, result, owned, got>>

\* The scan thread finds _wait_timer expired and DoTimer pushes the expiry.
DoTimer ==
  /\ armed
  /\ armed' = FALSE
  /\ frames' = Append(frames, SyncFrame(flow))
  /\ UNCHANGED <<unsent, flow, place, limit, hand, waits, result, owned, sent, got>>

CallerStep == TakeFrame \/ RejectSync \/ AcceptSync \/ AcceptUser

Next == Wait \/ CallerStep \/ Receive \/ DoTimer

\* The caller runs when it can and an armed timer expires; nobody has to send.
Spec == Init /\ [][Next]_vars /\ WF_vars(CallerStep) /\ WF_vars(DoTimer)

-----------------------------------------------------------------------------
(* Properties *)

\* Every variable has its type.
TypeOK ==
  /\ frames \in Seq(Frames) /\ hand \in Frames
  /\ unsent \subseteq Msgs
  /\ armed \in BOOLEAN
  /\ flow \in Nat /\ owned \in 0..flow
  /\ place \in {"idle", "waiting", "taken"}
  /\ limit \in {WAIT_FOREVER, LIMITED}
  /\ waits \in 0..MaxWaits
  /\ result \in {None, SUCCESS, ERROR_TIME_OUT, ERROR_TIMER_MESSAGE_INVALID}
  /\ sent \in Seq(Msgs) /\ got \in Seq(Msgs)

Syncs == {i \in DOMAIN frames : IsSync(frames[i])}

\* At any time at most one queued expiry is acceptable, and none while the timer
\* is armed: the expiries that earlier calls left behind (message_queue.cpp:201
\* stops no timer that has just expired) never end a later call early.
OneAcceptable ==
  /\ \A i, j \in Syncs :
       ValidateTimer(frames[i]) /\ ValidateTimer(frames[j]) => i = j
  /\ armed => \A i \in Syncs : ~ValidateTimer(frames[i])

\* A limited call ends with ERROR_TIME_OUT only when the timer that this call has
\* armed has expired (message_queue.cpp:193), never because of an expiry of an
\* earlier call, and no queued expiry of an earlier call can end a later one.
TimeOutIsOwn ==
  /\ OneAcceptable
  /\ result = ERROR_TIME_OUT => owned = flow /\ ~armed

\* The frames of other units that have left the queue, the one in hand included.
Popped == IF place = "taken" /\ ~IsSync(hand) THEN Append(got, hand.msg) ELSE got

\* Where frames of other units are in the queue.
Users == {i \in DOMAIN frames : ~IsSync(frames[i])}

\* Frames of other units come out of Wait complete and in order, whatever limits
\* the calls have (message_queue.cpp:93-207): an expiry that ends a call takes no
\* frame with it.  What was sent first has left the queue, in the order sent, and
\* the rest is in the queue, each frame once and again in that order: rank says
\* which of the frames sent a frame of the queue is.
NothingLost ==
  /\ Len(Popped) <= Len(sent)
  /\ \A k \in 1..Len(Popped) : Popped[k] = sent[k]
  /\ \E rank \in [Users -> (Len(Popped) + 1)..Len(sent)] :
       /\ \A i \in Users : frames[i].msg = sent[rank[i]]
       /\ \A i, j \in Users : i < j => rank[i] < rank[j]
       /\ \A k \in (Len(Popped) + 1)..Len(sent) : \E i \in Users : rank[i] = k

\* A call with a limit always returns, even if nobody sends (the expiry of its
\* timer reaches the queue and is taken).
LimitedWaitReturns == place = "waiting" /\ limit = LIMITED ~> place = "idle"
=============================================================================
