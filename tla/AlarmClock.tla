----------------------------- MODULE AlarmClock -----------------------------
(***************************************************************************)
(* What a timer promises the code that uses it, without scan table, locks, *)
(* flow numbers, messages and the two fields of a moment.  Every call that *)
(* sets, repeats or stops an alarm takes effect once, in one step, between *)
(* its beginning and its end and not while an alarm rings.  An alarm rings *)
(* once per arming, not before it is due, and after every alarm that is    *)
(* due earlier.  An alarm that is repeated keeps to the times it was set   *)
(* to, however late it rang and however late it is repeated.               *)
(*                                                                         *)
(* A moment after Latest and a period longer than Longest cannot be        *)
(* represented: an alarm that would be due then has any due moment, and    *)
(* after Latest alarms may ring early.                                     *)
(***************************************************************************)
EXTENDS Integers

CONSTANTS Callers, Alarms, Latest, Longest

VARIABLES
  clock,   \* the time
  wanted,  \* calls that have begun and not yet taken effect
  armed,   \* alarms that have been set and have not rung or been stopped since
  ringing, \* the alarm that rings, if any
  due,     \* when each alarm rings
  period   \* how long after it was set, and how long after that if it is repeated

vars == <<clock, wanted, armed, ringing, due, period>>

\* What callers may ask for; only a call to set brings a period.
Wants == [by : Callers, does : {"set", "again", "stop"}, alarm : Alarms, period : Nat]

Init ==
  /\ clock = 0
  /\ wanted = {}
  /\ armed = {}
  /\ ringing = {}
  /\ due \in [Alarms -> Nat]
  /\ period \in [Alarms -> Nat]

Tick ==
  /\ clock' = clock + 1
  /\ UNCHANGED <<wanted, armed, ringing, due, period>>

\* A caller makes one call at a time.
Want ==
  /\ \E want \in wanted' : /\ want \in Wants
                           /\ \A other \in wanted : other.by # want.by
                           /\ wanted' = wanted \cup {want}
  /\ UNCHANGED <<clock, armed, ringing, due, period>>

\* A call takes effect.
Serve(want) ==
  /\ ringing = {}
  /\ wanted' = wanted \ {want}
  /\ UNCHANGED <<clock, ringing>>

\* Alarm t is armed, due at a moment p after `from'.
Arm(t, from, p) ==
  /\ armed' = armed \cup {t}
  /\ due' = [due EXCEPT ![t] = due'[t]]
  /\ due'[t] \in Nat
  /\ p <= Longest /\ from + p <= Latest => due'[t] = from + p

\* A new period, counted from now.
Set(want) ==
  /\ want.does = "set"
  /\ Serve(want)
  /\ period' = [period EXCEPT ![want.alarm] = want.period]
  /\ Arm(want.alarm, clock, want.period)

\* The same period once more, counted from when the alarm was due.
Again(want) ==
  /\ want.does = "again"
  /\ Serve(want)
  /\ Arm(want.alarm, due[want.alarm], period[want.alarm])
  /\ UNCHANGED period

Stop(want) ==
  /\ want.does = "stop"
  /\ Serve(want)
  /\ armed' = armed \ {want.alarm}
  /\ UNCHANGED <<due, period>>

\* Alarms ring one at a time, in the order in which they are due.
Ring(t) ==
  /\ ringing = {}
  /\ t \in armed
  /\ clock <= Latest => due[t] <= clock
  /\ \A u \in armed : due[t] <= due[u]
  /\ armed' = armed \ {t}
  /\ ringing' = {t}
  /\ UNCHANGED <<clock, wanted, due, period>>

Quiet ==
  /\ ringing # {}
  /\ ringing' = {}
  /\ UNCHANGED <<clock, wanted, armed, due, period>>

Next ==
  \/ Tick \/ Want \/ Quiet
  \/ \E want \in wanted : Set(want) \/ Again(want) \/ Stop(want)
  \/ \E t \in Alarms : Ring(t)

Spec == Init /\ [][Next]_vars
=============================================================================
