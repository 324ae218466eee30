---------------------------- MODULE MCTimeValue ----------------------------
(***************************************************************************)
(* Enumerates the inputs of the clock arithmetic: a timer set at `start`   *)
(* with `duration`, re-armed by LoopTimer `loops` times, looked at `at`    *)
(* milliseconds after the origin.  Every state is one such case.           *)
(***************************************************************************)
EXTENDS TimeValue

CONSTANTS MaxStart, MaxDuration, MaxLoops, MaxAt

ASSUME BoundsAssumption == MaxStart \in Nat /\ MaxDuration \in Nat /\ MaxLoops \in Nat /\ MaxAt \in Nat

VARIABLES start, duration, loops, timeout, at

vars == <<start, duration, loops, timeout, at>>

Init ==
  /\ start \in 0..MaxStart
  /\ duration \in 0..MaxDuration
  /\ loops = 0
  /\ timeout = AddDuration(GetMonoTime(start), duration)
  /\ at = start

\* LoopTimer adds the duration to the previous expiry.
Loop ==
  /\ loops < MaxLoops
  /\ loops' = loops + 1
  /\ timeout' = AddDuration(timeout, duration)
  /\ UNCHANGED <<start, duration, at>>

Clock ==
  /\ at < MaxAt
  /\ at' = at + 1
  /\ UNCHANGED <<start, duration, loops, timeout>>

Next == Loop \/ Clock

Spec == Init /\ [][Next]_vars

\* What the timer should wait for, in milliseconds.
Due == start + (loops + 1) * duration

\* No uint32 addition on the way to this expiry has wrapped.
InRange ==
  /\ MsPerSec + duration < Word
  /\ Due \div MsPerSec < Word

\* After any number of LoopTimer re-arms the expiry is start + n * duration,
\* although a sum of exactly 1000 ms is stored un-carried (timer.cpp:568, 613):
\* the periods of a loop timer do not drift.  And Scan finds it expired (timer.cpp:446)
\* at the first millisecond at which it is due and never before, in either form.
ExpiryIsExact ==
  InRange =>
    /\ Ms(timeout) = Due
    /\ Expired(timeout, GetMonoTime(at)) <=> at >= Due

\* GetRemainedTime returns the time left to the expiry as long as the timer is
\* not yet due (timer.cpp:748); the borrow of a second and an expiry stored as
\* (s, 1000) do not disturb it.  At the due moment itself and later the uint32
\* subtraction of the seconds may underflow: an expiry stored as (s, 1000) read
\* at (s + 1, 0) gives 2^32 - 1 seconds.
RemainedIsExact ==
  InRange /\ at < Due => Ms(Remained(timeout, GetMonoTime(at))) = Due - at
=============================================================================
