-------------------------- MODULE ThreadPoolProofs --------------------------
(***************************************************************************)
(* Safety of ThreadPool for any number of pool threads, works and polls.   *)
(***************************************************************************)
EXTENDS ThreadPool, FiniteSetTheorems, SequenceTheorems, TLAPS

USE PoolAssumption

\* Every work is in one place: not assigned, waiting once, taken out by CancelWork, or
\* started by one thread.
WorkLedger(w) ==
  /\ w \in unassigned => ~IsWaiting(w)
  /\ w \in unassigned \/ IsWaiting(w) => starts[w] = 0 /\ deletes[w] = 0 /\ w \notin erased
  /\ w \in erased => starts[w] = 0
  /\ starts[w] <= 1

Ledger ==
  /\ \A i, j \in DOMAIN waiting : waiting[i] = waiting[j] => i = j
  /\ \A w \in Works : WorkLedger(w)
  /\ \A t \in Workers : work[t] # NULL => starts[work[t]] = 1
  /\ \A t, u \in Workers : work[t] # NULL /\ work[t] = work[u] => t = u

\* The entry of a thread in the map against the thread itself.
Entry(t) ==
  /\ place[t] \in {"unstarted", "fetch", "asleep"} => work[t] = NULL
  /\ place[t] \in {"execute", "clear", "delete"} => work[t] # NULL
  /\ running[t] # NULL => running[t] = work[t] /\ place[t] \in {"execute", "clear", "dead"}
  /\ ~unsafe /\ place[t] \in {"execute", "clear"} => running[t] = work[t] /\ t \in recorded

Entries == \A t \in Workers : Entry(t)

\* Until DestroyPool deletes works itself, and afterwards too if it has seen the pool
\* empty, what a thread holds was not deleted; an empty pool stays empty.
Held(t) == work[t] # NULL => deletes[work[t]] = 0

Destruction ==
  /\ IsFiniteSet(recorded)
  /\ doomed # {} => destroying = "done"
  /\ destroying \in {"no", "polling"} => polls < MaxPolls
  /\ destroying # "done" \/ ~unsafe => \A t \in Workers : Held(t)
  /\ ~unsafe => \A w \in Works : deletes[w] <= 1
  /\ ~unsafe /\ destroying \in {"kill", "done"} =>
        waiting = <<>> /\ \A t \in Workers : place[t] \notin {"execute", "clear"}
  /\ ~unsafe => NoThreadKilledAtWork

PoolInv == TypeOK /\ Ledger /\ Entries /\ Destruction

-----------------------------------------------------------------------------
(* The list of waiting works.                                              *)

\* A work that is pushed is the last one waiting.
LEMMA PushedWaits ==
  ASSUME waiting \in Seq(Works), NEW w \in Works, waiting' = Append(waiting, w)
  PROVE  /\ waiting' \in Seq(Works)
         /\ \A x : IsWaiting(x)' <=> IsWaiting(x) \/ x = w
         /\ Ledger /\ ~IsWaiting(w) =>
              \A i, j \in DOMAIN waiting' : waiting'[i] = waiting'[j] => i = j
<1>1. /\ waiting' \in Seq(Works) /\ Len(waiting') = Len(waiting) + 1
      /\ waiting'[Len(waiting) + 1] = w
      /\ \A i \in 1..Len(waiting) : waiting'[i] = waiting[i]
      /\ Len(waiting) \in Nat
  BY AppendProperties
<1>2. DOMAIN waiting' = 1..(Len(waiting) + 1) /\ DOMAIN waiting = 1..Len(waiting)
  BY <1>1
<1>3. ASSUME NEW x PROVE IsWaiting(x)' <=> IsWaiting(x) \/ x = w
  <2>1. ASSUME IsWaiting(x) \/ x = w PROVE \E i \in DOMAIN waiting' : waiting'[i] = x
    <3>1. CASE IsWaiting(x)
      BY <1>1, <1>2, <3>1 DEF IsWaiting
    <3>2. CASE x = w
      BY <1>1, <1>2, <3>2
    <3> QED BY <2>1, <3>1, <3>2
  <2>2. ASSUME NEW i \in DOMAIN waiting', waiting'[i] = x PROVE IsWaiting(x) \/ x = w
    BY <1>1, <1>2, <2>2 DEF IsWaiting
  <2> QED BY <2>1, <2>2 DEF IsWaiting
<1>4. ASSUME Ledger, ~IsWaiting(w), NEW i \in DOMAIN waiting', NEW j \in DOMAIN waiting',
             waiting'[i] = waiting'[j]
      PROVE  i = j
  <2>1. \A k \in DOMAIN waiting : waiting[k] # w
    BY <1>4 DEF IsWaiting
  <2>2. \A k, l \in DOMAIN waiting : waiting[k] = waiting[l] => k = l
    BY <1>4 DEF Ledger
  <2>3. \A k \in DOMAIN waiting' : k \in DOMAIN waiting \/ k = Len(waiting) + 1
    BY <1>1, <1>2
  <2> QED BY <1>1, <1>2, <1>4, <2>1, <2>2, <2>3
<1> QED BY <1>1, <1>3, <1>4

\* What Without returns.
LEMMA WithoutProperties ==
  ASSUME NEW s \in Seq(Works), NEW i \in 1..Len(s)
  PROVE  /\ Without(s, i) \in Seq(Works)
         /\ Len(Without(s, i)) = Len(s) - 1
         /\ \A j \in 1..(Len(s) - 1) :
               Without(s, i)[j] = IF j < i THEN s[j] ELSE s[j + 1]
<1>0. Len(s) \in Nat /\ i \in Nat /\ i >= 1 /\ i <= Len(s) /\ \A j \in 1..Len(s) : s[j] \in Works
  OBVIOUS
<1> DEFINE p == SubSeq(s, 1, i - 1)
           q == SubSeq(s, i + 1, Len(s))
<1>1. p \in Seq(Works) /\ Len(p) = i - 1 /\ \A j \in 1..(i - 1) : p[j] = s[j]
  BY <1>0, SubSeqProperties
<1>2. q \in Seq(Works) /\ Len(q) = Len(s) - i /\ \A j \in 1..(Len(s) - i) : q[j] = s[j + i]
  BY <1>0, SubSeqProperties
<1>3. Without(s, i) = p \o q
  BY DEF Without
<1> HIDE DEF p, q
<1>4. /\ p \o q \in Seq(Works) /\ Len(p \o q) = Len(s) - 1
      /\ \A j \in 1..Len(p \o q) : (p \o q)[j] = IF j <= Len(p) THEN p[j] ELSE q[j - Len(p)]
  <2>1. p \o q \in Seq(Works) /\ Len(p \o q) = Len(p) + Len(q)
    BY <1>1, <1>2, ConcatProperties, Zenon
  <2>2. Len(p) + Len(q) = Len(s) - 1
    BY <1>0, <1>1, <1>2
  <2>3. \A j \in 1..(Len(p) + Len(q)) : (p \o q)[j] = IF j <= Len(p) THEN p[j] ELSE q[j - Len(p)]
    BY <1>1, <1>2, ConcatProperties
  <2> QED BY <2>1, <2>2, <2>3
<1>5. ASSUME NEW j \in 1..(Len(s) - 1) PROVE (p \o q)[j] = IF j < i THEN s[j] ELSE s[j + 1]
  <2>1. CASE j < i
    BY <1>0, <1>1, <1>4, <1>5, <2>1
  <2>2. CASE ~(j < i)
    <3>1. j - (i - 1) \in 1..(Len(s) - i) /\ (j - (i - 1)) + i = j + 1
      BY <1>0, <1>5, <2>2
    <3>2. (p \o q)[j] = q[j - (i - 1)]
      BY <1>0, <1>1, <1>4, <1>5, <2>2
    <3> QED BY <1>2, <2>2, <3>1, <3>2
  <2> QED BY <2>1, <2>2
<1> QED BY <1>3, <1>4, <1>5

\* A work that is taken out of the list, wherever it stood, waits no more.
LEMMA RemovedWaits ==
  ASSUME TypeOK, Ledger, NEW i \in DOMAIN waiting, waiting' = Without(waiting, i)
  PROVE  /\ waiting' \in Seq(Works) /\ waiting[i] \in Works
         /\ \A x : IsWaiting(x)' <=> IsWaiting(x) /\ x # waiting[i]
         /\ \A k, l \in DOMAIN waiting' : waiting'[k] = waiting'[l] => k = l
<1>1. /\ waiting \in Seq(Works) /\ DOMAIN waiting = 1..Len(waiting) /\ Len(waiting) \in Nat
      /\ \A k \in DOMAIN waiting : waiting[k] \in Works
  BY DEF TypeOK
<1>2. /\ waiting' \in Seq(Works) /\ Len(waiting') = Len(waiting) - 1
      /\ \A j \in 1..(Len(waiting) - 1) :
            waiting'[j] = IF j < i THEN waiting[j] ELSE waiting[j + 1]
  BY <1>1, WithoutProperties
<1>3. DOMAIN waiting' = 1..(Len(waiting) - 1) /\ i \in 1..Len(waiting)
  BY <1>1, <1>2
<1>4. \A k, l \in DOMAIN waiting : waiting[k] = waiting[l] => k = l
  BY DEF Ledger
<1> DEFINE from(j) == IF j < i THEN j ELSE j + 1
<1>5. \A j \in DOMAIN waiting' : from(j) \in DOMAIN waiting /\ from(j) # i
                                 /\ waiting'[j] = waiting[from(j)]
  BY <1>1, <1>2, <1>3
<1>6. \A k, l \in DOMAIN waiting' : from(k) = from(l) => k = l
  BY <1>1, <1>3
<1>7. \A k \in DOMAIN waiting \ {i} : \E j \in DOMAIN waiting' : from(j) = k
  <2> SUFFICES ASSUME NEW k \in DOMAIN waiting \ {i} PROVE \E j \in DOMAIN waiting' : from(j) = k
    OBVIOUS
  <2>1. CASE k < i
    BY <1>1, <1>3, <2>1
  <2>2. CASE ~(k < i)
    <3>1. k - 1 \in DOMAIN waiting' /\ from(k - 1) = k
      BY <1>1, <1>3, <2>2
    <3> QED BY <3>1
  <2> QED BY <2>1, <2>2
<1> HIDE DEF from
<1>8. ASSUME NEW x PROVE IsWaiting(x)' <=> IsWaiting(x) /\ x # waiting[i]
  <2>1. ASSUME NEW j \in DOMAIN waiting', waiting'[j] = x PROVE IsWaiting(x) /\ x # waiting[i]
    BY <1>3, <1>4, <1>5, <2>1, <1>1 DEF IsWaiting
  <2>2. ASSUME IsWaiting(x), x # waiting[i] PROVE \E j \in DOMAIN waiting' : waiting'[j] = x
    <3>1. PICK k \in DOMAIN waiting : waiting[k] = x
      BY <2>2 DEF IsWaiting
    <3>2. PICK j \in DOMAIN waiting' : from(j) = k
      BY <1>7, <2>2, <3>1
    <3> QED BY <1>5, <3>1, <3>2
  <2> QED BY <2>1, <2>2 DEF IsWaiting
<1>9. ASSUME NEW k \in DOMAIN waiting', NEW l \in DOMAIN waiting', waiting'[k] = waiting'[l]
      PROVE  k = l
  BY <1>4, <1>5, <1>6, <1>9
<1> QED BY <1>1, <1>2, <1>8, <1>9

\* pop_front is the removal of the first.
LEMMA TailIsWithout ==
  ASSUME NEW s \in Seq(Works), s # <<>>
  PROVE  Tail(s) = Without(s, 1) /\ Head(s) = s[1] /\ 1 \in DOMAIN s
<1>1. Len(s) \in Nat /\ Len(s) > 0 /\ 1 \in 1..Len(s)
  OBVIOUS
<1>2. /\ Without(s, 1) \in Seq(Works) /\ Len(Without(s, 1)) = Len(s) - 1
      /\ \A j \in 1..(Len(s) - 1) : Without(s, 1)[j] = s[j + 1]
  BY <1>1, WithoutProperties
<1>3. Tail(s) \in Seq(Works) /\ Len(Tail(s)) = Len(s) - 1
      /\ \A j \in 1..(Len(s) - 1) : Tail(s)[j] = s[j + 1]
  BY <1>1, HeadTailProperties
<1> QED BY <1>1, <1>2, <1>3, SeqEqual

-----------------------------------------------------------------------------
(* The steps.                                                              *)

\* Steps that move no work.
LEMMA LedgerFrame ==
  ASSUME Ledger, UNCHANGED <<waiting, unassigned, starts, deletes, erased, work>>
  PROVE  Ledger'
<1>1. \A w : IsWaiting(w)' <=> IsWaiting(w)
  BY DEF IsWaiting
<1> QED BY <1>1 DEF Ledger, WorkLedger

\* The invariant holds at the start.
LEMMA InitPool == Init => PoolInv
<1> SUFFICES ASSUME Init PROVE PoolInv
  OBVIOUS
<1>1. \A w : ~IsWaiting(w)
  BY DEF Init, IsWaiting
<1>2. <<>> \in Seq(Works) /\ 0 \in 0..MaxPolls /\ 0 < MaxPolls
  OBVIOUS
<1>3. TypeOK
  BY <1>2 DEF Init, TypeOK, Places
<1>4. Ledger
  BY <1>1 DEF Init, Ledger, WorkLedger
<1>5. Entries
  BY DEF Init, Entries, Entry
<1>6. IsFiniteSet(recorded)
  BY FS_EmptySet DEF Init
<1>7. Destruction
  BY <1>2, <1>6 DEF Init, Destruction, Held, NoThreadKilledAtWork
<1> QED BY <1>3, <1>4, <1>5, <1>7 DEF PoolInv

\* CreateThreads.
LEMMA StartThreadStep ==
  ASSUME PoolInv, StartThread
  PROVE  PoolInv'
<1> USE DEF PoolInv
<1>1. PICK t \in Workers : place[t] = "unstarted" /\ Goto(t, "fetch") /\ creating' = {t}
  BY DEF StartThread
<1>2. UNCHANGED <<waiting, running, recorded, work, unassigned, signals, destroying,
                  polls, doomed, starts, deletes, erased, unsafe>>
  BY DEF StartThread
<1>3. place' = [place EXCEPT ![t] = "fetch"] /\ place' \in [Workers -> Places]
  BY <1>1 DEF Goto, TypeOK, Places
<1>4. TypeOK'
  BY <1>1, <1>2, <1>3 DEF TypeOK
<1>5. Ledger'
  BY <1>2, LedgerFrame
<1>6. Entries'
  BY <1>1, <1>2, <1>3 DEF Entries, Entry, TypeOK
<1>7. \A u \in Workers : place'[u] = place[u] \/ place'[u] = "fetch"
  BY <1>3 DEF TypeOK
<1>8. NoThreadKilledAtWork => NoThreadKilledAtWork'
  BY <1>2, <1>7 DEF NoThreadKilledAtWork
<1>9. Destruction'
  BY <1>2, <1>7, <1>8 DEF Destruction, Held
<1> QED BY <1>4, <1>5, <1>6, <1>9

LEMMA RecordThreadStep ==
  ASSUME PoolInv, RecordThread
  PROVE  PoolInv'
<1> USE DEF PoolInv
<1>1. PICK t \in creating : /\ running' = [running EXCEPT ![t] = NULL]
                            /\ recorded' = recorded \cup {t}
                            /\ unsafe' = (unsafe \/ running[t] # NULL)
  BY DEF RecordThread
<1>2. /\ UNCHANGED <<waiting, place, work, unassigned, signals, destroying, polls,
                     doomed, starts, deletes, erased>>
      /\ creating' = {} /\ t \in Workers
  BY <1>1 DEF RecordThread, TypeOK
<1>3. /\ running' \in [Workers -> Works \cup {NULL}]
      /\ \A u \in Workers : running'[u] = IF u = t THEN NULL ELSE running[u]
  BY <1>1, <1>2 DEF TypeOK
<1>4. unsafe' \in BOOLEAN /\ (unsafe => unsafe') /\ (~unsafe' => running[t] = NULL)
  BY <1>1 DEF TypeOK
<1>5. TypeOK'
  BY <1>1, <1>2, <1>3, <1>4 DEF TypeOK
<1>6. Ledger'
  BY <1>2, LedgerFrame
<1>7. ASSUME NEW u \in Workers PROVE Entry(u)'
  <2>1. Entry(u) /\ recorded \subseteq recorded'
    BY <1>1 DEF Entries
  <2>2. ASSUME ~unsafe', place'[u] \in {"execute", "clear"}
        PROVE  running'[u] = work'[u] /\ u \in recorded'
    <3>1. running[u] = work[u] /\ u \in recorded /\ work[u] # NULL
      BY <1>2, <1>4, <2>1, <2>2 DEF Entry
    <3> QED BY <1>2, <1>3, <1>4, <2>1, <2>2, <3>1
  <2> QED BY <1>2, <1>3, <2>1, <2>2 DEF Entry
<1>8. IsFiniteSet(recorded')
  BY <1>1, FS_AddElement DEF Destruction
<1>9. Destruction'
  BY <1>2, <1>4, <1>8 DEF Destruction, Held, NoThreadKilledAtWork
<1> QED BY <1>5, <1>6, <1>7, <1>9 DEF Entries

\* AssignWork, its signal, and CancelWork.
LEMMA AssignWorkStep ==
  ASSUME PoolInv, AssignWork
  PROVE  PoolInv'
<1> USE DEF PoolInv
<1>1. PICK w \in unassigned : /\ unassigned' = unassigned \ {w}
                              /\ waiting' = Append(waiting, w)
                              /\ signals' = signals \cup {w}
  BY DEF AssignWork
<1>2. /\ UNCHANGED <<running, recorded, place, work, creating, destroying, polls, doomed,
                     starts, deletes, erased>>
      /\ unsafe' = (unsafe \/ destroying # "no") /\ w \in Works /\ waiting \in Seq(Works)
  BY <1>1 DEF AssignWork, TypeOK
<1>3. /\ waiting' \in Seq(Works)
      /\ \A x : IsWaiting(x)' <=> IsWaiting(x) \/ x = w
      /\ ~IsWaiting(w) => \A i, j \in DOMAIN waiting' : waiting'[i] = waiting'[j] => i = j
  BY <1>1, <1>2, PushedWaits
<1>4. unsafe' \in BOOLEAN /\ (~unsafe' => ~unsafe /\ destroying = "no")
  BY <1>2 DEF TypeOK
<1>5. TypeOK'
  BY <1>1, <1>2, <1>3, <1>4 DEF TypeOK
<1>6. ~IsWaiting(w) /\ \A x \in Works : WorkLedger(x)'
  BY <1>1, <1>2, <1>3 DEF Ledger, WorkLedger
<1>7. Ledger'
  BY <1>2, <1>3, <1>6 DEF Ledger
<1>8. Entries'
  BY <1>2, <1>4 DEF Entries, Entry
<1>9. Destruction'
  BY <1>2, <1>4 DEF Destruction, Held, NoThreadKilledAtWork
<1> QED BY <1>5, <1>7, <1>8, <1>9

LEMMA AssignSignalStep ==
  ASSUME PoolInv, AssignSignal
  PROVE  PoolInv'
<1> USE DEF PoolInv
<1>1. /\ UNCHANGED <<waiting, running, recorded, work, creating, unassigned, destroying,
                     polls, doomed, starts, deletes, erased, unsafe>>
      /\ signals' \subseteq signals
  BY DEF AssignSignal
<1>2. \/ \E t \in Workers : place[t] = "asleep" /\ place' = [place EXCEPT ![t] = "fetch"]
      \/ place' = place
  BY DEF AssignSignal, WakeOne, Goto
<1>3. /\ place' \in [Workers -> Places]
      /\ \A u \in Workers : place'[u] = place[u] \/ (place[u] = "asleep" /\ place'[u] = "fetch")
  BY <1>2 DEF TypeOK, Places
<1>4. TypeOK'
  BY <1>1, <1>3 DEF TypeOK
<1>5. Ledger'
  BY <1>1, LedgerFrame
<1>6. Entries'
  BY <1>1, <1>3 DEF Entries, Entry
<1>7. NoThreadKilledAtWork => NoThreadKilledAtWork'
  BY <1>1, <1>3 DEF NoThreadKilledAtWork
<1>8. Destruction'
  BY <1>1, <1>3, <1>7 DEF Destruction, Held
<1> QED BY <1>4, <1>5, <1>6, <1>8

LEMMA CancelWorkStep ==
  ASSUME PoolInv, CancelWork
  PROVE  PoolInv'
<1> USE DEF PoolInv
<1>1. PICK i \in DOMAIN waiting : waiting' = Without(waiting, i) /\ erased' = erased \cup {waiting[i]}
  BY DEF CancelWork
<1>2. UNCHANGED <<running, recorded, place, work, creating, unassigned, signals,
                  destroying, polls, doomed, starts, deletes, unsafe>>
  BY DEF CancelWork
<1> DEFINE w == waiting[i]
<1>3. /\ waiting' \in Seq(Works) /\ w \in Works
      /\ \A x : IsWaiting(x)' <=> IsWaiting(x) /\ x # w
      /\ \A k, l \in DOMAIN waiting' : waiting'[k] = waiting'[l] => k = l
  BY <1>1, RemovedWaits
<1>4. IsWaiting(w)
  BY DEF IsWaiting
<1> HIDE DEF w
<1>5. TypeOK'
  BY <1>1, <1>2, <1>3 DEF TypeOK, w
<1>6. ASSUME NEW x \in Works PROVE WorkLedger(x)'
  <2>1. erased' = erased \cup {w} /\ WorkLedger(x) /\ WorkLedger(w)
    BY <1>1, <1>3 DEF Ledger, w
  <2>2. CASE x = w
    BY <1>2, <1>3, <1>4, <2>1, <2>2 DEF WorkLedger
  <2>3. CASE x # w
    BY <1>2, <1>3, <2>1, <2>3 DEF WorkLedger
  <2> QED BY <2>2, <2>3
<1>7. Ledger'
  BY <1>2, <1>3, <1>6 DEF Ledger
<1>8. Entries'
  BY <1>2 DEF Entries, Entry
<1>9. waiting # <<>>
  BY <1>1
<1>10. Destruction'
  BY <1>2, <1>9 DEF Destruction, Held, NoThreadKilledAtWork
<1> QED BY <1>5, <1>7, <1>8, <1>10

\* A pool thread that goes to sleep, wakes up, or returns from Execute.
LEMMA MoveStep ==
  ASSUME PoolInv, NEW t \in Workers, FetchNone(t) \/ SpuriousWakeup(t) \/ Executed(t)
  PROVE  PoolInv'
<1> USE DEF PoolInv
<1>1. UNCHANGED <<waiting, running, recorded, work, creating, unassigned, signals,
                  destroying, polls, doomed, starts, deletes, erased, unsafe>>
  BY DEF FetchNone, SpuriousWakeup, Executed
<1>2. \/ place[t] \in {"fetch", "asleep"} /\ place' = [place EXCEPT ![t] = "asleep"]
      \/ place[t] \in {"fetch", "asleep"} /\ place' = [place EXCEPT ![t] = "fetch"]
      \/ place[t] = "execute" /\ place' = [place EXCEPT ![t] = "clear"]
  BY DEF FetchNone, SpuriousWakeup, Executed, Goto
<1>3. place' \in [Workers -> Places]
  BY <1>2 DEF TypeOK, Places
<1>4. \A u \in Workers : \/ place'[u] = place[u]
                         \/ place[u] \in {"fetch", "asleep"} /\ place'[u] \in {"fetch", "asleep"}
                         \/ place[u] = "execute" /\ place'[u] = "clear"
  BY <1>2 DEF TypeOK
<1>5. TypeOK'
  BY <1>1, <1>3 DEF TypeOK
<1>6. Ledger'
  BY <1>1, LedgerFrame
<1>7. Entries'
  BY <1>1, <1>4 DEF Entries, Entry
<1>8. NoThreadKilledAtWork => NoThreadKilledAtWork'
  BY <1>1, <1>4 DEF NoThreadKilledAtWork
<1>9. Destruction'
  BY <1>1, <1>4, <1>8 DEF Destruction, Held
<1> QED BY <1>5, <1>6, <1>7, <1>9

LEMMA FetchWorkStep ==
  ASSUME PoolInv, NEW t \in Workers, FetchWork(t)
  PROVE  PoolInv'
<1> USE DEF PoolInv
<1> DEFINE w == Head(waiting)
<1>1. /\ place[t] = "fetch" /\ waiting # <<>> /\ waiting' = Tail(waiting)
      /\ work' = [work EXCEPT ![t] = w] /\ running' = [running EXCEPT ![t] = w]
      /\ starts' = [starts EXCEPT ![w] = starts[w] + 1]
      /\ recorded' = recorded \cup {t} /\ place' = [place EXCEPT ![t] = "execute"]
      /\ UNCHANGED <<creating, unassigned, signals, destroying, polls, doomed, deletes,
                     erased, unsafe>>
  BY DEF FetchWork, PopFront, Goto
<1>2. waiting' = Without(waiting, 1) /\ w = waiting[1] /\ 1 \in DOMAIN waiting
  BY <1>1, TailIsWithout DEF TypeOK
<1>3. /\ waiting' \in Seq(Works) /\ w \in Works
      /\ \A x : IsWaiting(x)' <=> IsWaiting(x) /\ x # w
      /\ \A k, l \in DOMAIN waiting' : waiting'[k] = waiting'[l] => k = l
  BY <1>2, RemovedWaits
<1>4. IsWaiting(w)
  BY <1>2 DEF IsWaiting
<1> HIDE DEF w
<1>5. starts[w] = 0 /\ deletes[w] = 0 /\ w \notin erased /\ w \notin unassigned /\ w # NULL
  BY <1>3, <1>4 DEF Ledger, WorkLedger
<1>6. /\ work' \in [Workers -> Works \cup {NULL}] /\ running' \in [Workers -> Works \cup {NULL}]
      /\ place' \in [Workers -> Places] /\ starts' \in [Works -> Nat]
  BY <1>1, <1>3, <1>5 DEF TypeOK, Places
<1>7. \A u \in Workers : /\ work'[u] = IF u = t THEN w ELSE work[u]
                         /\ running'[u] = IF u = t THEN w ELSE running[u]
                         /\ place'[u] = IF u = t THEN "execute" ELSE place[u]
  BY <1>1 DEF TypeOK
<1>8. \A x \in Works : starts'[x] = IF x = w THEN 1 ELSE starts[x]
  BY <1>1, <1>5 DEF TypeOK
<1>9. TypeOK'
  BY <1>1, <1>3, <1>6 DEF TypeOK
<1>10. ASSUME NEW x \in Works PROVE WorkLedger(x)'
  <2>1. WorkLedger(x)
    BY DEF Ledger
  <2>2. CASE x = w
    BY <1>1, <1>3, <1>5, <1>8, <2>2 DEF WorkLedger
  <2>3. CASE x # w
    BY <1>1, <1>3, <1>8, <2>1, <2>3 DEF WorkLedger
  <2> QED BY <2>2, <2>3
<1>11. \A u \in Workers : work[u] # NULL => work[u] \in Works /\ starts[work[u]] = 1 /\ work[u] # w
  BY <1>5 DEF Ledger, TypeOK
<1>12. Ledger'
  <2>1. \A u \in Workers : work'[u] # NULL => starts'[work'[u]] = 1
    BY <1>3, <1>7, <1>8, <1>11
  <2>2. \A u, v \in Workers : work'[u] # NULL /\ work'[u] = work'[v] => u = v
    BY <1>5, <1>7, <1>11 DEF Ledger
  <2> QED BY <1>3, <1>10, <2>1, <2>2 DEF Ledger
<1>13. Entries'
  BY <1>1, <1>5, <1>7 DEF Entries, Entry
<1>14. IsFiniteSet(recorded')
  BY <1>1, FS_AddElement DEF Destruction
<1>15. ASSUME ~unsafe' PROVE destroying' \notin {"kill", "done"}
  BY <1>1, <1>15 DEF Destruction
<1>16. NoThreadKilledAtWork => NoThreadKilledAtWork'
  BY <1>7 DEF NoThreadKilledAtWork
<1>17. (\A u \in Workers : Held(u)) => \A u \in Workers : Held(u)'
  BY <1>1, <1>5, <1>7 DEF Held
<1>18. Destruction'
  BY <1>1, <1>14, <1>15, <1>16, <1>17 DEF Destruction
<1> QED BY <1>9, <1>12, <1>13, <1>18

LEMMA ClearWorkStep ==
  ASSUME PoolInv, NEW t \in Workers, ClearWork(t)
  PROVE  PoolInv'
<1> USE DEF PoolInv
<1>1. /\ place[t] = "clear" /\ place' = [place EXCEPT ![t] = "delete"]
      /\ running' = [running EXCEPT ![t] = NULL]
      /\ UNCHANGED <<waiting, recorded, work, creating, unassigned, signals, destroying,
                     polls, doomed, starts, deletes, erased, unsafe>>
  BY DEF ClearWork, ClearEntry, Goto
<1>2. place' \in [Workers -> Places] /\ running' \in [Workers -> Works \cup {NULL}]
  BY <1>1 DEF TypeOK, Places
<1>3. \A u \in Workers : /\ place'[u] = IF u = t THEN "delete" ELSE place[u]
                         /\ running'[u] = IF u = t THEN NULL ELSE running[u]
  BY <1>1 DEF TypeOK
<1>4. TypeOK'
  BY <1>1, <1>2 DEF TypeOK
<1>5. Ledger'
  BY <1>1, LedgerFrame
<1>6. Entries'
  BY <1>1, <1>3 DEF Entries, Entry
<1>7. NoThreadKilledAtWork => NoThreadKilledAtWork'
  BY <1>1, <1>3 DEF NoThreadKilledAtWork
<1>8. Destruction'
  BY <1>1, <1>3, <1>7 DEF Destruction, Held
<1> QED BY <1>4, <1>5, <1>6, <1>8

LEMMA DeleteWorkStep ==
  ASSUME PoolInv, NEW t \in Workers, DeleteWork(t)
  PROVE  PoolInv'
<1> USE DEF PoolInv
<1> DEFINE w == work[t]
<1>1. /\ place[t] = "delete" /\ place' = [place EXCEPT ![t] = "fetch"]
      /\ deletes' = [deletes EXCEPT ![w] = deletes[w] + 1]
      /\ work' = [work EXCEPT ![t] = NULL]
      /\ UNCHANGED <<waiting, running, recorded, creating, unassigned, signals, destroying,
                     polls, doomed, starts, erased, unsafe>>
  BY DEF DeleteWork, Goto
<1>2. w # NULL /\ w \in Works /\ starts[w] = 1 /\ running[t] = NULL
  BY <1>1 DEF Entries, Entry, Ledger, TypeOK
<1> HIDE DEF w
<1>3. /\ place' \in [Workers -> Places] /\ work' \in [Workers -> Works \cup {NULL}]
      /\ deletes' \in [Works -> Nat]
  BY <1>1, <1>2 DEF TypeOK, Places
<1>4. \A u \in Workers : /\ place'[u] = IF u = t THEN "fetch" ELSE place[u]
                         /\ work'[u] = IF u = t THEN NULL ELSE work[u]
  BY <1>1 DEF TypeOK
<1>5. \A x \in Works : deletes'[x] = IF x = w THEN deletes[w] + 1 ELSE deletes[x]
  BY <1>1, <1>2 DEF TypeOK
<1>6. \A u \in Workers : u # t /\ work[u] # NULL => work[u] # w /\ work[u] \in Works
  BY <1>2 DEF Ledger, TypeOK, w
<1>7. TypeOK'
  BY <1>1, <1>3 DEF TypeOK
<1>8. ASSUME NEW x \in Works PROVE WorkLedger(x)'
  <2>1. WorkLedger(x) /\ (IsWaiting(x)' <=> IsWaiting(x))
    BY <1>1 DEF Ledger, IsWaiting
  <2>2. x = w => ~IsWaiting(x) /\ x \notin unassigned
    BY <1>2, <2>1 DEF WorkLedger
  <2> QED BY <1>1, <1>5, <2>1, <2>2 DEF WorkLedger
<1>9. Ledger'
  <2>1. \A u \in Workers : work'[u] # NULL => starts'[work'[u]] = 1
    BY <1>1, <1>4 DEF Ledger
  <2>2. \A u, v \in Workers : work'[u] # NULL /\ work'[u] = work'[v] => u = v
    BY <1>4 DEF Ledger
  <2>3. \A i, j \in DOMAIN waiting' : waiting'[i] = waiting'[j] => i = j
    BY <1>1 DEF Ledger
  <2> QED BY <1>8, <2>1, <2>2, <2>3 DEF Ledger
<1>10. Entries'
  BY <1>1, <1>2, <1>4 DEF Entries, Entry
<1>11. (\A u \in Workers : Held(u)) => \A u \in Workers : Held(u)'
  BY <1>4, <1>5, <1>6 DEF Held
<1>12. ASSUME ~unsafe' PROVE \A x \in Works : deletes'[x] <= 1
  <2>1. deletes[w] = 0 /\ \A x \in Works : deletes[x] <= 1
    BY <1>1, <1>2, <1>12 DEF Destruction, Held, w
  <2> QED BY <1>5, <2>1
<1>13. NoThreadKilledAtWork => NoThreadKilledAtWork'
  BY <1>4 DEF NoThreadKilledAtWork
<1>14. Destruction'
  BY <1>1, <1>4, <1>11, <1>12, <1>13 DEF Destruction
<1> QED BY <1>7, <1>9, <1>10, <1>14

LEMMA DieStep ==
  ASSUME PoolInv, NEW t \in Workers, Die(t)
  PROVE  PoolInv'
<1> USE DEF PoolInv
<1>1. /\ t \in doomed /\ place[t] \in {"asleep", "execute"}
      /\ place' = [place EXCEPT ![t] = "dead"]
      /\ UNCHANGED <<waiting, running, recorded, work, creating, unassigned, signals,
                     destroying, polls, doomed, starts, deletes, erased, unsafe>>
  BY DEF Die, Goto
<1>2. place' \in [Workers -> Places]
  BY <1>1 DEF TypeOK, Places
<1>3. \A u \in Workers : place'[u] = IF u = t THEN "dead" ELSE place[u]
  BY <1>1 DEF TypeOK
<1>4. TypeOK'
  BY <1>1, <1>2 DEF TypeOK
<1>5. Ledger'
  BY <1>1, LedgerFrame
<1>6. Entries'
  BY <1>1, <1>3 DEF Entries, Entry
<1>7. ASSUME ~unsafe' PROVE work[t] = NULL
  <2>1. destroying = "done" /\ place[t] \notin {"execute", "clear"}
    BY <1>1, <1>7 DEF Destruction
  <2> QED BY <1>1, <2>1 DEF Entries, Entry
<1>8. ~unsafe' => NoThreadKilledAtWork'
  BY <1>1, <1>3, <1>7 DEF Destruction, NoThreadKilledAtWork
<1>9. Destruction'
  BY <1>1, <1>3, <1>8 DEF Destruction, Held
<1> QED BY <1>4, <1>5, <1>6, <1>9

\* A count of zero means that the list is empty and every entry is NULL.
LEMMA CountZero ==
  ASSUME TypeOK, IsFiniteSet(recorded)
  PROVE  /\ CountOfWorks \in Nat
         /\ CountOfWorks = 0 => waiting = <<>> /\ \A t \in recorded : running[t] = NULL
<1> DEFINE busy == {t \in recorded : running[t] # NULL}
<1>1. IsFiniteSet(busy)
  BY FS_Subset
<1>2. Cardinality(busy) \in Nat /\ (Cardinality(busy) = 0 <=> busy = {})
  BY <1>1, FS_CardinalityType, FS_EmptySet
<1>3. Len(waiting) \in Nat /\ (Len(waiting) = 0 => waiting = <<>>)
  BY DEF TypeOK
<1>4. CountOfWorks = Len(waiting) + Cardinality(busy)
  BY DEF CountOfWorks
<1>5. busy = {} => \A t \in recorded : running[t] = NULL
  OBVIOUS
<1> HIDE DEF busy
<1> QED BY <1>2, <1>3, <1>4, <1>5

\* DestroyPool.
LEMMA PollStep ==
  ASSUME PoolInv, Poll
  PROVE  PoolInv'
<1> USE DEF PoolInv
<1>1. /\ destroying \in {"no", "polling"} /\ polls' = polls + 1
      /\ destroying' = IF CountOfWorks = 0 \/ polls' >= MaxPolls THEN "kill" ELSE "polling"
      /\ unsafe' = (unsafe \/ (CountOfWorks > 0 /\ polls' >= MaxPolls))
      /\ UNCHANGED <<waiting, running, recorded, place, work, creating, unassigned,
                     signals, doomed, starts, deletes, erased>>
  BY DEF Poll, LastPoll
<1>2. polls' \in 0..MaxPolls /\ polls' \in Nat /\ MaxPolls \in Nat
  BY <1>1 DEF TypeOK, Destruction
<1>3. unsafe' \in BOOLEAN /\ (~unsafe' => ~unsafe)
  BY <1>1 DEF TypeOK
<1>4. /\ CountOfWorks \in Nat
      /\ CountOfWorks = 0 => waiting = <<>> /\ \A t \in recorded : running[t] = NULL
  BY CountZero DEF Destruction
<1>5. TypeOK'
  BY <1>1, <1>2, <1>3 DEF TypeOK
<1>6. Ledger'
  BY <1>1, LedgerFrame
<1>7. Entries'
  BY <1>1, <1>3 DEF Entries, Entry
<1>8. ASSUME ~unsafe', destroying' \in {"kill", "done"}
      PROVE  waiting = <<>> /\ \A t \in Workers : place[t] \notin {"execute", "clear"}
  <2>1. CountOfWorks = 0
    <3>1. CountOfWorks > 0 => ~(polls' >= MaxPolls)
      BY <1>1, <1>8
    <3>2. CountOfWorks = 0 \/ polls' >= MaxPolls
      BY <1>1, <1>8
    <3> QED BY <1>4, <3>1, <3>2
  <2>2. \A t \in Workers : place[t] \in {"execute", "clear"} => running[t] # NULL /\ t \in recorded
    BY <1>3, <1>8 DEF Entries, Entry
  <2> QED BY <1>4, <2>1, <2>2
<1>9. destroying' \in {"no", "polling"} => polls' < MaxPolls
  BY <1>1, <1>2
<1>10. Destruction'
  BY <1>1, <1>3, <1>8, <1>9 DEF Destruction, Held, NoThreadKilledAtWork
<1> QED BY <1>5, <1>6, <1>7, <1>10

LEMMA DestroyLockedStep ==
  ASSUME PoolInv, DestroyLocked
  PROVE  PoolInv'
<1> USE DEF PoolInv
<1>1. /\ destroying = "kill" /\ destroying' = "done" /\ doomed' = recorded /\ waiting' = <<>>
      /\ deletes' = [w \in Works |-> deletes[w] + DestroyDeletes(w)]
      /\ UNCHANGED <<running, recorded, place, work, creating, unassigned, signals, polls,
                     starts, erased, unsafe>>
  BY DEF DestroyLocked
<1>2. ASSUME NEW w \in Works
      PROVE  /\ DestroyDeletes(w) \in Nat
             /\ ~IsWaiting(w) /\ (\A t \in recorded : running[t] # w) => DestroyDeletes(w) = 0
  <2> DEFINE named == {t \in recorded : running[t] = w}
  <2>1. IsFiniteSet(named)
    BY FS_Subset DEF Destruction
  <2>2. Cardinality(named) \in Nat /\ (named = {} => Cardinality(named) = 0)
    BY <2>1, FS_CardinalityType, FS_EmptySet
  <2>3. (\A t \in recorded : running[t] # w) => named = {}
    OBVIOUS
  <2>4. DestroyDeletes(w) = Cardinality(named) + (IF IsWaiting(w) THEN 1 ELSE 0)
    BY DEF DestroyDeletes
  <2> HIDE DEF named
  <2> QED BY <2>2, <2>3, <2>4
<1>3. deletes' \in [Works -> Nat]
  BY <1>1, <1>2 DEF TypeOK
<1>4. <<>> \in Seq(Works) /\ \A x : ~IsWaiting(x)'
  BY <1>1 DEF IsWaiting
<1>5. TypeOK'
  BY <1>1, <1>3, <1>4 DEF TypeOK
<1>6. ASSUME NEW w \in Works PROVE WorkLedger(w)'
  <2>1. WorkLedger(w)
    BY DEF Ledger
  <2>2. ASSUME w \in unassigned PROVE deletes'[w] = 0
    <3>1. starts[w] = 0 /\ deletes[w] = 0 /\ ~IsWaiting(w)
      BY <2>1, <2>2 DEF WorkLedger
    <3>2. ASSUME NEW t \in recorded, running[t] = w PROVE FALSE
      <4>1. t \in Workers /\ w # NULL
        BY DEF TypeOK
      <4>2. work[t] = w
        BY <3>2, <4>1 DEF Entries, Entry
      <4> QED BY <3>1, <4>1, <4>2 DEF Ledger
    <3> QED BY <1>1, <1>2, <3>1, <3>2
  <2> QED BY <1>1, <1>4, <2>1, <2>2 DEF WorkLedger
<1>7. Ledger'
  BY <1>1, <1>6 DEF Ledger
<1>8. Entries'
  BY <1>1 DEF Entries, Entry
<1>9. ASSUME ~unsafe' PROVE \A w \in Works : deletes'[w] = deletes[w]
  <2>1. waiting = <<>> /\ \A t \in Workers : place[t] \notin {"execute", "clear"}
    BY <1>1, <1>9 DEF Destruction
  <2>2. \A t \in Workers : place[t] # "dead" \/ work[t] = NULL
    BY <1>1, <1>9 DEF Destruction, NoThreadKilledAtWork
  <2>3. \A t \in recorded : running[t] = NULL
    BY <2>1, <2>2 DEF Entries, Entry, TypeOK
  <2>4. \A w \in Works : ~IsWaiting(w) /\ w # NULL
    BY <2>1 DEF IsWaiting
  <2>5. \A w \in Works : DestroyDeletes(w) = 0
    BY <1>2, <2>3, <2>4
  <2> QED BY <1>1, <2>5 DEF TypeOK
<1>10. ASSUME ~unsafe' PROVE (\A t \in Workers : Held(t)') /\ \A w \in Works : deletes'[w] <= 1
  BY <1>1, <1>9, <1>10 DEF Destruction, Held, TypeOK
<1>11. Destruction'
  BY <1>1, <1>10 DEF Destruction, NoThreadKilledAtWork
<1> QED BY <1>5, <1>7, <1>8, <1>11

\* Every step keeps the invariant.
LEMMA NextPool ==
  ASSUME PoolInv, [Next]_vars
  PROVE  PoolInv'
<1>1. CASE UNCHANGED vars
  <2>1. \A w : IsWaiting(w)' <=> IsWaiting(w)
    BY <1>1 DEF vars, IsWaiting
  <2>2. Ledger'
    BY <1>1, LedgerFrame DEF PoolInv, vars
  <2> QED BY <1>1, <2>2 DEF vars, PoolInv, TypeOK, Entries, Entry, Destruction, Held,
                            NoThreadKilledAtWork
<1>2. ASSUME NEW t \in Workers, WorkerStep(t) \/ SpuriousWakeup(t) PROVE PoolInv'
  BY <1>2, MoveStep, FetchWorkStep, ClearWorkStep, DeleteWorkStep, DieStep DEF WorkerStep
<1> QED BY <1>1, <1>2, StartThreadStep, RecordThreadStep, AssignWorkStep, AssignSignalStep,
           CancelWorkStep, PollStep, DestroyLockedStep DEF Next

-----------------------------------------------------------------------------
(* The theorems.                                                           *)

\* Every variable keeps its type, DestroyPool cancels only recorded threads and gives
\* up after max_count polls (threadpool.cpp:83).
THEOREM PoolTypeCorrect == Spec => []TypeOK
<1>1. PoolInv => TypeOK
  BY DEF PoolInv
<1> QED BY <1>1, InitPool, NextPool, PTL DEF Spec

\* No work is started twice, and none that still waits or that CancelWork took out was
\* started, for any number of threads, works and wake-ups (FetchWork, CancelWork).
THEOREM StartedOnceCorrect == Spec => []StartedOnce
<1>1. PoolInv => StartedOnce
  BY DEF PoolInv, Ledger, WorkLedger, StartedOnce
<1> QED BY <1>1, InitPool, NextPool, PTL DEF Spec

\* FindWork finds every work that waits or runs, unless CreateThreads overwrote an entry
\* or DestroyPool was used unsafely (FindWork, FetchWork).
THEOREM FoundCorrect == Spec => []LiveWorkIsFound
<1>1. PoolInv => LiveWorkIsFound
  <2> SUFFICES ASSUME PoolInv, ~unsafe, NEW w \in Works,
                      \/ IsWaiting(w)
                      \/ \E t \in Workers : work[t] = w /\ place[t] \in {"execute", "clear"}
               PROVE  FindWork(Name[w])
    BY DEF LiveWorkIsFound
  <2>1. CASE IsWaiting(w)
    BY <2>1 DEF IsWaiting, FindWork
  <2>2. ASSUME NEW t \in Workers, work[t] = w, place[t] \in {"execute", "clear"}
        PROVE  FindWork(Name[w])
    BY <2>2 DEF PoolInv, Entries, Entry, FindWork
  <2> QED BY <2>1, <2>2
<1> QED BY <1>1, InitPool, NextPool, PTL DEF Spec

\* No entry of the map names a deleted work before DestroyPool deletes the rest, and a
\* DestroyPool that saw the pool empty deletes no work twice or in use and kills no thread
\* at work (DestroyPool, ExecuteEntry).
THEOREM DeletionCorrect == Spec => []DeletionIsSafe
<1>1. PoolInv => DeletionIsSafe
  <2> SUFFICES ASSUME PoolInv PROVE DeletionIsSafe
    OBVIOUS
  <2> USE DEF PoolInv
  <2>1. EntryNotDeleted
    BY DEF EntryNotDeleted, Entries, Entry, Destruction, Held, TypeOK
  <2>2. ASSUME ~unsafe PROVE DeletedOnce /\ NoThreadKilledAtWork
    BY <2>2 DEF DeletedOnce, Destruction, Held
  <2> QED BY <2>1, <2>2 DEF DeletionIsSafe
<1> QED BY <1>1, InitPool, NextPool, PTL DEF Spec

-----------------------------------------------------------------------------
(* The pool keeps the promise.                                             *)

Begun == {w \in Works : starts[w] > 0}
Gone == {w \in Works : deletes[w] > 0}
Closed == destroying = "done"

\* What the ledger sees of the variables.
seen == <<unassigned, waiting, Begun, Gone, Closed>>

\* The steps of the promise, of the pool's own variables.
AssignSeen(w) ==
  /\ ~Closed /\ w \in unassigned
  /\ unassigned' = unassigned \ {w}
  /\ waiting' = Append(waiting, w)
  /\ UNCHANGED <<Begun, Gone, Closed>>

BeginSeen ==
  /\ ~Closed /\ waiting # <<>> /\ Head(waiting) \notin Begun \cup Gone
  /\ Begun' = Begun \cup {Head(waiting)}
  /\ waiting' = Tail(waiting)
  /\ UNCHANGED <<unassigned, Gone, Closed>>

CancelSeen(i) ==
  /\ ~Closed
  /\ \A j \in DOMAIN waiting : j < i => Name[waiting[j]] # Name[waiting[i]]
  /\ waiting' = SubSeq(waiting, 1, i - 1) \o SubSeq(waiting, i + 1, Len(waiting))
  /\ UNCHANGED <<unassigned, Begun, Gone, Closed>>

DeleteSeen(w) ==
  /\ w \in Begun
  /\ Gone' = Gone \cup {w}
  /\ UNCHANGED <<unassigned, waiting, Begun, Closed>>

CloseSeen ==
  /\ ~Closed /\ Closed' = TRUE /\ waiting' = <<>>
  /\ \E abandoned \in SUBSET Begun :
       Gone' = Gone \cup abandoned \cup {waiting[i] : i \in DOMAIN waiting}
  /\ UNCHANGED <<unassigned, Begun>>

StepSeen ==
  \/ \E w \in Works : AssignSeen(w) \/ DeleteSeen(w)
  \/ BeginSeen
  \/ \E i \in DOMAIN waiting : CancelSeen(i)
  \/ CloseSeen
  \/ UNCHANGED seen

\* A step that starts and deletes no work leaves the two histories as they are.
LEMMA SeenUnchanged ==
  /\ UNCHANGED starts => Begun' = Begun
  /\ UNCHANGED deletes => Gone' = Gone
  /\ UNCHANGED destroying => Closed' = Closed
BY DEF Begun, Gone, Closed

\* No work waits once DestroyPool has emptied the list, used safely or not.
ClosedIsEmpty == Closed => waiting = <<>>

LEMMA ClosedStaysEmpty ==
  ASSUME TypeOK, ClosedIsEmpty, [Next]_vars
  PROVE  ClosedIsEmpty'
<1> USE DEF ClosedIsEmpty, Closed
<1>1. ASSUME UNCHANGED <<waiting, destroying>> PROVE ClosedIsEmpty'
  BY <1>1
<1>2. CASE AssignWork \/ CancelWork
  BY <1>2 DEF AssignWork, CancelWork
<1>3. CASE StartThread \/ RecordThread \/ AssignSignal \/ UNCHANGED vars
  BY <1>1, <1>3 DEF StartThread, RecordThread, AssignSignal, vars
<1>4. ASSUME NEW t \in Workers, FetchWork(t) PROVE ClosedIsEmpty'
  BY <1>4 DEF FetchWork
<1>5. ASSUME NEW t \in Workers,
             \/ FetchNone(t) \/ Executed(t) \/ ClearWork(t) \/ DeleteWork(t) \/ Die(t)
             \/ SpuriousWakeup(t)
      PROVE  ClosedIsEmpty'
  BY <1>1, <1>5 DEF FetchNone, Executed, ClearWork, DeleteWork, Die, SpuriousWakeup
<1>6. CASE Poll
  BY <1>6 DEF Poll
<1>7. CASE DestroyLocked
  BY <1>7 DEF DestroyLocked
<1> QED BY <1>2, <1>3, <1>4, <1>5, <1>6, <1>7 DEF Next, WorkerStep

\* FetchWork begins the work at the head of the list, which nobody has begun.
LEMMA FetchSeen ==
  ASSUME PoolInv, ClosedIsEmpty, NEW t \in Workers, FetchWork(t)
  PROVE  BeginSeen
<1> DEFINE w == Head(waiting)
<1>1. /\ waiting # <<>> /\ waiting' = Tail(waiting)
      /\ starts' = [starts EXCEPT ![w] = starts[w] + 1]
      /\ UNCHANGED <<unassigned, deletes, destroying>>
  BY DEF FetchWork, PopFront
<1>2. waiting \in Seq(Works) /\ starts \in [Works -> Nat] /\ deletes \in [Works -> Nat]
  BY DEF PoolInv, TypeOK
<1>3. w = waiting[1] /\ 1 \in DOMAIN waiting
  BY <1>1, <1>2, TailIsWithout
<1>4. w \in Works /\ IsWaiting(w)
  BY <1>2, <1>3 DEF IsWaiting
<1> HIDE DEF w
<1>5. starts[w] = 0 /\ deletes[w] = 0
  BY <1>4 DEF PoolInv, Ledger, WorkLedger
<1>6. \A x \in Works : starts'[x] = IF x = w THEN 1 ELSE starts[x]
  BY <1>1, <1>2, <1>4, <1>5
<1>7. Begun' = Begun \cup {w}
  BY <1>2, <1>4, <1>6 DEF Begun
<1>8. w \notin Begun \cup Gone
  BY <1>5 DEF Begun, Gone
<1>9. ~Closed
  BY <1>1 DEF ClosedIsEmpty
<1> QED BY <1>1, <1>7, <1>8, <1>9, SeenUnchanged DEF BeginSeen, w

\* CancelWork removes the first of its name, and nothing of what has begun or is gone.
LEMMA CancelWorkSeen ==
  ASSUME PoolInv, CancelWork
  PROVE  \E i \in DOMAIN waiting : CancelSeen(i)
<1>1. PICK n \in Names, i \in DOMAIN waiting :
             FirstNamed(n, i) /\ waiting' = Without(waiting, i)
  BY DEF CancelWork
<1>2. ~Closed /\ UNCHANGED <<unassigned, starts, deletes, destroying>>
  BY DEF CancelWork, Closed
<1>3. \A j \in DOMAIN waiting : j < i => Name[waiting[j]] # Name[waiting[i]]
  <2>1. DOMAIN waiting = 1..Len(waiting) /\ Len(waiting) \in Nat
    BY DEF PoolInv, TypeOK
  <2> QED BY <1>1, <2>1 DEF FirstNamed
<1> QED BY <1>1, <1>2, <1>3, SeenUnchanged DEF CancelSeen, Without

\* A pool thread deletes only the work it has started.
LEMMA DeleteWorkSeen ==
  ASSUME PoolInv, NEW t \in Workers, DeleteWork(t)
  PROVE  \E w \in Works : DeleteSeen(w)
<1> DEFINE w == work[t]
<1>1. /\ place[t] = "delete" /\ deletes' = [deletes EXCEPT ![w] = deletes[w] + 1]
      /\ UNCHANGED <<unassigned, waiting, starts, destroying>>
  BY DEF DeleteWork
<1>2. w \in Works /\ starts[w] = 1
  BY <1>1 DEF PoolInv, Entries, Entry, Ledger, TypeOK
<1> HIDE DEF w
<1>3. deletes \in [Works -> Nat]
  BY DEF PoolInv, TypeOK
<1>4. \A x \in Works : deletes'[x] > 0 <=> deletes[x] > 0 \/ x = w
  BY <1>1, <1>2, <1>3
<1>5. Gone' = Gone \cup {w} /\ w \in Begun
  BY <1>2, <1>4 DEF Gone, Begun
<1> QED BY <1>1, <1>2, <1>5, SeenUnchanged DEF DeleteSeen

\* DestroyPool deletes every work that waits and, of the others, only started ones: the
\* entries of the map that are not NULL name works their threads have fetched.
LEMMA DestroySeen ==
  ASSUME PoolInv, DestroyLocked
  PROVE  CloseSeen
<1>1. /\ destroying = "kill" /\ destroying' = "done" /\ waiting' = <<>>
      /\ deletes' = [w \in Works |-> deletes[w] + DestroyDeletes(w)]
      /\ UNCHANGED <<unassigned, starts>>
  BY DEF DestroyLocked
<1>2. waiting \in Seq(Works) /\ deletes \in [Works -> Nat]
  BY DEF PoolInv, TypeOK
<1> DEFINE named == {w \in Works : \E t \in recorded : running[t] = w}
           queued == {waiting[i] : i \in DOMAIN waiting}
<1>3. named \subseteq Begun
  <2> SUFFICES ASSUME NEW w \in Works, NEW t \in recorded, running[t] = w
               PROVE  starts[w] > 0
    BY DEF Begun
  <2>1. t \in Workers /\ w # NULL
    BY DEF PoolInv, TypeOK
  <2>2. work[t] = w
    BY <2>1 DEF PoolInv, Entries, Entry
  <2> QED BY <2>1, <2>2 DEF PoolInv, Ledger
<1>4. queued = {w \in Works : IsWaiting(w)}
  BY <1>2 DEF IsWaiting
<1>5. ASSUME NEW w \in Works
      PROVE  DestroyDeletes(w) \in Nat /\ (DestroyDeletes(w) > 0 <=> w \in named \cup queued)
  <2> DEFINE entries == {t \in recorded : running[t] = w}
  <2>1. IsFiniteSet(entries)
    BY FS_Subset DEF PoolInv, Destruction
  <2>2. Cardinality(entries) \in Nat /\ (Cardinality(entries) = 0 <=> entries = {})
    BY <2>1, FS_CardinalityType, FS_EmptySet
  <2>3. entries = {} <=> w \notin named
    OBVIOUS
  <2>4. DestroyDeletes(w) = Cardinality(entries) + (IF IsWaiting(w) THEN 1 ELSE 0)
    BY DEF DestroyDeletes
  <2>5. w \in queued <=> IsWaiting(w)
    BY <1>4
  <2> HIDE DEF entries, named, queued
  <2> QED BY <2>2, <2>3, <2>4, <2>5
<1> HIDE DEF named, queued
<1>6. \A w \in Works : deletes'[w] > 0 <=> deletes[w] > 0 \/ w \in named \cup queued
  BY <1>1, <1>2, <1>5
<1>7. named \subseteq Works /\ queued \subseteq Works
  BY <1>4 DEF named
<1>8. Gone' = Gone \cup named \cup queued
  BY <1>6, <1>7 DEF Gone
<1>9. ~Closed /\ Closed' = TRUE
  BY <1>1 DEF Closed
<1>10. \E abandoned \in SUBSET Begun : Gone' = Gone \cup abandoned \cup queued
  BY <1>3, <1>8
<1> QED BY <1>1, <1>9, <1>10, SeenUnchanged DEF CloseSeen, queued

\* Every step of the threads is a step of the promise or invisible to it.
LEMMA PoolStepSeen ==
  ASSUME PoolInv, ClosedIsEmpty, [Next]_vars
  PROVE  StepSeen
<1>1. ASSUME UNCHANGED <<unassigned, waiting, starts, deletes, destroying>> PROVE StepSeen
  BY <1>1, SeenUnchanged DEF StepSeen, seen
<1>2. CASE AssignWork
  <2>1. PICK w \in unassigned : unassigned' = unassigned \ {w} /\ waiting' = Append(waiting, w)
    BY <1>2 DEF AssignWork
  <2>2. w \in Works /\ ~Closed /\ UNCHANGED <<starts, deletes, destroying>>
    BY <1>2 DEF AssignWork, Closed, PoolInv, TypeOK
  <2>3. AssignSeen(w)
    BY <2>1, <2>2, SeenUnchanged DEF AssignSeen
  <2> QED BY <2>2, <2>3 DEF StepSeen
<1>3. CASE StartThread \/ RecordThread \/ AssignSignal \/ UNCHANGED vars
  BY <1>1, <1>3 DEF StartThread, RecordThread, AssignSignal, vars
<1>4. ASSUME NEW t \in Workers,
             FetchNone(t) \/ Executed(t) \/ ClearWork(t) \/ Die(t) \/ SpuriousWakeup(t)
      PROVE  StepSeen
  BY <1>1, <1>4 DEF FetchNone, Executed, ClearWork, Die, SpuriousWakeup
<1>5. CASE Poll
  <2>1. /\ UNCHANGED <<unassigned, waiting, starts, deletes>>
        /\ destroying # "done" /\ destroying' # "done"
    BY <1>5 DEF Poll
  <2> QED BY <2>1, SeenUnchanged DEF StepSeen, seen, Closed
<1>6. ASSUME NEW t \in Workers, WorkerStep(t) \/ SpuriousWakeup(t) PROVE StepSeen
  BY <1>4, <1>6, FetchSeen, DeleteWorkSeen DEF WorkerStep, StepSeen
<1> QED BY <1>2, <1>3, <1>5, <1>6, CancelWorkSeen, DestroySeen DEF Next, StepSeen

\* The thread pool keeps its promise, for any number of threads, works, names and polls,
\* and used unsafely too: works start in the order in which AssignWork pushed them, each
\* once, CancelWork takes out the first of its name for good, and only started works are
\* deleted before DestroyPool deletes the rest.
THEOREM PoolKeepsPromise == Spec => ImplementsPromise
<1>1. Init => Promise!Init
  <2> SUFFICES ASSUME Init PROVE Promise!Init
    OBVIOUS
  <2>1. \A w \in Works : ~(starts[w] > 0) /\ ~(deletes[w] > 0)
    BY DEF Init
  <2> QED BY <2>1 DEF Init, Promise!Init
<1>2. PoolInv /\ ClosedIsEmpty /\ [Next]_vars => [Promise!Next]_seen
  <2> SUFFICES ASSUME PoolInv, ClosedIsEmpty, [Next]_vars PROVE [Promise!Next]_seen
    OBVIOUS
  <2>1. StepSeen
    BY PoolStepSeen
  <2> QED BY <2>1 DEF StepSeen, AssignSeen, BeginSeen, CancelSeen, DeleteSeen, CloseSeen,
                      Begun, Gone, Closed, Promise!Next, Promise!Assign, Promise!Begin,
                      Promise!Cancel, Promise!Delete, Promise!Close
<1>3. Init => ClosedIsEmpty
  BY DEF Init, ClosedIsEmpty, Closed
<1>4. PoolInv /\ ClosedIsEmpty /\ [Next]_vars => ClosedIsEmpty'
  BY ClosedStaysEmpty DEF PoolInv
<1> QED BY <1>1, <1>2, <1>3, <1>4, InitPool, NextPool, PTL
        DEF Spec, ImplementsPromise, Promise!Spec, seen, Begun, Gone, Closed
=============================================================================
