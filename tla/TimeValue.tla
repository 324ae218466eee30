----------------------------- MODULE TimeValue -----------------------------
(***************************************************************************)
(* The clock arithmetic of the sky timer (timer.h, timer.cpp): a moment of *)
(* the monotonic clock is a pair of unsigned 32-bit numbers, seconds and   *)
(* milliseconds, and the scan table is ordered by such a pair followed by  *)
(* the id of the timer.                                                    *)
(*                                                                         *)
(* MsPerSec is 1000 and Word is 2^32 in the code; both are parameters so   *)
(* that the carry and the wrap-around are reached by small instances.      *)
(***************************************************************************)
EXTENDS Integers

CONSTANTS MsPerSec, Word

ASSUME TimeValueAssumption ==
  /\ MsPerSec \in Nat \ {0}
  /\ Word \in Nat \ {0}
  /\ MsPerSec < Word

\* T_TimeValue: two uint32 fields.
TimeValues == [second : 0..(Word - 1), milisecond : 0..(Word - 1)]

\* The moment `ticks` milliseconds after the clock's origin, as GetMonoTime
\* returns it: milisecond is always below MsPerSec there.
GetMonoTime(ticks) ==
  [second |-> (ticks \div MsPerSec) % Word, milisecond |-> ticks % MsPerSec]

\* The first carry a hand would write: it keeps 1000 ms but loses whole seconds.
CarryOne(tv, ms) ==
  IF ms > MsPerSec
  THEN [second |-> (tv.second + 1) % Word, milisecond |-> ms % MsPerSec]
  ELSE [second |-> tv.second, milisecond |-> ms]

\* Carry of the milliseconds into the seconds.  The test is "> 1000", so a
\* sum of exactly 1000 is left as (second, 1000).
Carry(tv, ms) ==
  IF ms > MsPerSec
  THEN [second |-> (tv.second + ms \div MsPerSec) % Word,
        milisecond |-> ms % MsPerSec]
  ELSE [second |-> tv.second, milisecond |-> ms]

\* "milisecond += duration" and its carry, in SetTimer (from the current
\* moment) and in LoopTimer (from the previous expiry).
AddDuration(tv, duration) == Carry(tv, (tv.milisecond + duration) % Word)

\* The part of operator< of T_TimeKey that compares two moments.
TimeLess(one, other) ==
  \/ one.second < other.second
  \/ one.second = other.second /\ one.milisecond < other.milisecond

\* An order that looks at the seconds and the timer id only.
KeyLessInSeconds(one, other) ==
  \/ one.time.second < other.time.second
  \/ one.time.second = other.time.second /\ one.tid < other.tid

\* operator< of T_TimeKey: the moment first, then the timer id.
KeyLess(one, other) ==
  \/ TimeLess(one.time, other.time)
  \/ one.time = other.time /\ one.tid < other.tid

\* Scan's test "nowkey < it->first" is false: nowkey carries the largest tid,
\* so only the moments are compared.
Expired(time, now) == ~TimeLess(now, time)

\* GetRemainedTime without the borrow of a second.
RemainedNoBorrow(timeout, now) ==
  [second |-> (timeout.second - now.second) % Word,
   milisecond |-> (timeout.milisecond - now.milisecond) % Word]

\* GetRemainedTime: field-wise uint32 subtraction with a borrow of one second.
Remained(timeout, now) ==
  LET borrow == timeout.milisecond < now.milisecond
      ms     == IF borrow THEN timeout.milisecond + MsPerSec ELSE timeout.milisecond
      sec    == timeout.second - now.second
  IN  [second     |-> (IF borrow THEN sec - 1 ELSE sec) % Word,
       milisecond |-> (ms - now.milisecond) % Word]

\* The reference: a moment as a number of milliseconds.
Ms(tv) == tv.second * MsPerSec + tv.milisecond
=============================================================================
