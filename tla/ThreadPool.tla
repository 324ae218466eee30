----------------------------- MODULE ThreadPool -----------------------------
(***************************************************************************)
(* ThreadPool (threadpool.cpp): works wait in a list, pool threads fetch   *)
(* and execute them and record what they execute in _works_in_runing;      *)
(* other threads assign, cancel and look for works by name; DestroyPool    *)
(* polls until no work is left, or until it has polled often enough, and   *)
(* then deletes what remains and cancels the threads.                      *)
(*                                                                         *)
(* Every critical section of _mutex_sync is one step: no thread holds it   *)
(* while it waits for something else.  CreateThreads writes the entry of a *)
(* thread after it has started it and without the mutex.  Of that race the *)
(* model keeps the order of the two writes to the entry; the damage a      *)
(* concurrent insertion can do to the std::map itself is left out.         *)
(* DestroyPool ends with the destruction of the mutex and the condition    *)
(* variable; a thread that has not yet died may still use them, and what   *)
(* that does is left out too.                                              *)
(***************************************************************************)
EXTENDS Naturals, Sequences, FiniteSets

CONSTANTS
  Workers,    \* the threads CreateThreads starts
  Works,      \* Worktodo objects, each assigned at most once
  Names, Name,\* names of works, and the name of each
  NULL,
  MaxPolls    \* polls of DestroyPool (max_count)

ASSUME PoolAssumption ==
  /\ Name \in [Works -> Names]
  /\ NULL \notin Works
  /\ MaxPolls \in Nat \ {0}

VARIABLES
  waiting,      \* _works_of_waiting
  running,      \* values of _works_in_runing
  recorded,     \* its keys
  place,        \* where a pool thread is
  work,         \* its local variable `work'
  creating,     \* the thread CreateThreads has started and not yet recorded
  unassigned,   \* works nobody has assigned yet
  signals,      \* AssignWork calls that have pushed and not yet signalled
  destroying,   \* where DestroyPool is
  polls,        \* its polls so far
  doomed,       \* pool threads that were cancelled
  starts,       \* history: how often a work was started
  deletes,      \* history: how often a work was deleted
  erased,       \* history: works CancelWork took out of the list
  unsafe        \* history: a work was assigned after the last poll, or the
                \* polls ran out, or an entry was overwritten by CreateThreads

vars == <<waiting, running, recorded, place, work, creating, unassigned, signals,
          destroying, polls, doomed, starts, deletes, erased, unsafe>>

Places == {"unstarted", "fetch", "asleep", "execute", "clear", "delete", "dead"}

Init ==
  /\ waiting = <<>>
  /\ running = [t \in Workers |-> NULL]
  /\ recorded = {}
  /\ place = [t \in Workers |-> "unstarted"]
  /\ work = [t \in Workers |-> NULL]
  /\ creating = {}
  /\ unassigned = Works
  /\ signals = {}
  /\ destroying = "no"
  /\ polls = 0
  /\ doomed = {}
  /\ starts = [w \in Works |-> 0]
  /\ deletes = [w \in Works |-> 0]
  /\ erased = {}
  /\ unsafe = FALSE

IsWaiting(w) == \E i \in DOMAIN waiting : waiting[i] = w

Goto(t, p) == place' = [place EXCEPT ![t] = p]

-----------------------------------------------------------------------------
(* CreateThreads, one round of its loop *)

StartThread ==
  /\ creating = {}
  /\ destroying = "no"
  /\ \E t \in Workers :
       /\ place[t] = "unstarted"
       /\ Goto(t, "fetch")
       /\ creating' = {t}
  /\ UNCHANGED <<waiting, running, recorded, work, unassigned, signals, destroying,
                 polls, doomed, starts, deletes, erased, unsafe>>

\* _works_in_runing[tid] = NULL, without the mutex.
RecordThread ==
  /\ \E t \in creating :
       /\ running' = [running EXCEPT ![t] = NULL]
       /\ recorded' = recorded \cup {t}
       /\ unsafe' = (unsafe \/ running[t] # NULL)
  /\ creating' = {}
  /\ UNCHANGED <<waiting, place, work, unassigned, signals, destroying, polls,
                 doomed, starts, deletes, erased>>

-----------------------------------------------------------------------------
(* AssignWork, CancelWork: any thread *)

\* push_back under the mutex.
AssignWork ==
  /\ destroying # "done"
  /\ \E w \in unassigned :
       /\ unassigned' = unassigned \ {w}
       /\ waiting' = Append(waiting, w)
       /\ signals' = signals \cup {w}
  /\ unsafe' = (unsafe \/ destroying # "no")
  /\ UNCHANGED <<running, recorded, place, work, creating, destroying, polls, doomed,
                 starts, deletes, erased>>

\* A signal that wakes nobody.
WakeNobody == UNCHANGED place

\* pthread_cond_signal wakes one sleeping thread, if there is one.
WakeOne ==
  IF \E t \in Workers : place[t] = "asleep"
  THEN \E t \in Workers : place[t] = "asleep" /\ Goto(t, "fetch")
  ELSE UNCHANGED place

\* pthread_cond_signal, after the unlock.
AssignSignal ==
  /\ \E w \in signals : signals' = signals \ {w}
  /\ WakeOne
  /\ UNCHANGED <<waiting, running, recorded, work, creating, unassigned, destroying,
                 polls, doomed, starts, deletes, erased, unsafe>>

Without(s, i) == SubSeq(s, 1, i - 1) \o SubSeq(s, i + 1, Len(s))

\* A search from the back of the list.
LastNamed(n, i) ==
  /\ Name[waiting[i]] = n
  /\ \A j \in (i + 1)..Len(waiting) : Name[waiting[j]] # n

\* The first waiting work of that name.
FirstNamed(n, i) ==
  /\ Name[waiting[i]] = n
  /\ \A j \in 1..(i - 1) : Name[waiting[j]] # n

\* CancelWork of a waiting work: it leaves the list and is never deleted.  For a
\* running one Cancel() of the work is called, for an unknown one the result is
\* ERROR_OBJECT_NOT_EXIST; neither changes the pool.
CancelWork ==
  /\ destroying # "done"
  /\ \E n \in Names, i \in DOMAIN waiting :
       /\ FirstNamed(n, i)
       /\ waiting' = Without(waiting, i)
       /\ erased' = erased \cup {waiting[i]}
  /\ UNCHANGED <<running, recorded, place, work, creating, unassigned, signals,
                 destroying, polls, doomed, starts, deletes, unsafe>>

\* A search that looks at the waiting works only.
FindWaiting(n) == \E i \in DOMAIN waiting : Name[waiting[i]] = n

\* FindWork.
FindWork(n) ==
  \/ \E i \in DOMAIN waiting : Name[waiting[i]] = n
  \/ \E t \in recorded : running[t] # NULL /\ Name[running[t]] = n

-----------------------------------------------------------------------------
(* ExecuteEntry: a pool thread *)

\* FetchWork with an empty list sleeps; a wake-up, spurious ones included, only
\* makes the thread look again.
FetchNone(t) ==
  /\ place[t] = "fetch"
  /\ waiting = <<>>
  /\ Goto(t, "asleep")
  /\ UNCHANGED <<waiting, running, recorded, work, creating, unassigned, signals,
                 destroying, polls, doomed, starts, deletes, erased, unsafe>>

SpuriousWakeup(t) ==
  /\ place[t] = "asleep"
  /\ Goto(t, "fetch")
  /\ UNCHANGED <<waiting, running, recorded, work, creating, unassigned, signals,
                 destroying, polls, doomed, starts, deletes, erased, unsafe>>

\* pop_front.
PopFront == Tail(waiting)

FetchWork(t) ==
  /\ place[t] = "fetch"
  /\ waiting # <<>>
  /\ LET w == Head(waiting)
     IN  /\ work' = [work EXCEPT ![t] = w]
         /\ running' = [running EXCEPT ![t] = w]
         /\ starts' = [starts EXCEPT ![w] = @ + 1]
  /\ recorded' = recorded \cup {t}
  /\ waiting' = PopFront
  /\ Goto(t, "execute")
  /\ UNCHANGED <<creating, unassigned, signals, destroying, polls, doomed, deletes,
                 erased, unsafe>>

\* work->Execute() has returned.
Executed(t) ==
  /\ place[t] = "execute"
  /\ Goto(t, "clear")
  /\ UNCHANGED <<waiting, running, recorded, work, creating, unassigned, signals,
                 destroying, polls, doomed, starts, deletes, erased, unsafe>>

\* _works_in_runing[thread_id] = NULL.
ClearEntry(t) == [running EXCEPT ![t] = NULL]

ClearWork(t) ==
  /\ place[t] = "clear"
  /\ running' = ClearEntry(t)
  /\ Goto(t, "delete")
  /\ UNCHANGED <<waiting, recorded, work, creating, unassigned, signals, destroying,
                 polls, doomed, starts, deletes, erased, unsafe>>

DeleteWork(t) ==
  /\ place[t] = "delete"
  /\ deletes' = [deletes EXCEPT ![work[t]] = @ + 1]
  /\ work' = [work EXCEPT ![t] = NULL]
  /\ Goto(t, "fetch")
  /\ UNCHANGED <<waiting, running, recorded, creating, unassigned, signals, destroying,
                 polls, doomed, starts, erased, unsafe>>

\* A cancelled thread ends at its next cancellation point: in pthread_cond_wait,
\* or somewhere in Execute.  Taking a mutex is none, and the destructors of the
\* works are taken to have none.
Die(t) ==
  /\ t \in doomed
  /\ place[t] \in {"asleep", "execute"}
  /\ Goto(t, "dead")
  /\ UNCHANGED <<waiting, running, recorded, work, creating, unassigned, signals,
                 destroying, polls, doomed, starts, deletes, erased, unsafe>>

-----------------------------------------------------------------------------
(* DestroyPool *)

\* A count that forgets the works being executed.
CountWaiting == Len(waiting)

\* CountOfWorks.
CountOfWorks == Len(waiting) + Cardinality({t \in recorded : running[t] # NULL})

\* A limit that is tested before it is decremented.
OnePollMore(n) == n > MaxPolls

\* --max_count > 0 is false at poll n.
LastPoll(n) == n >= MaxPolls

\* One evaluation of the loop condition.
Poll ==
  /\ destroying \in {"no", "polling"}
  /\ creating = {}
  /\ polls' = polls + 1
  /\ destroying' = IF CountOfWorks = 0 \/ LastPoll(polls') THEN "kill" ELSE "polling"
  /\ unsafe' = (unsafe \/ (CountOfWorks > 0 /\ LastPoll(polls')))
  /\ UNCHANGED <<waiting, running, recorded, place, work, creating, unassigned,
                 signals, doomed, starts, deletes, erased>>

\* How often DestroyPool deletes w.
DestroyDeletes(w) ==
  Cardinality({t \in recorded : running[t] = w}) + (IF IsWaiting(w) THEN 1 ELSE 0)

\* Under the mutex: works and threads go.  The entries of the map are kept.
DestroyLocked ==
  /\ destroying = "kill"
  /\ destroying' = "done"
  /\ deletes' = [w \in Works |-> deletes[w] + DestroyDeletes(w)]
  /\ doomed' = recorded
  /\ waiting' = <<>>
  /\ UNCHANGED <<running, recorded, place, work, creating, unassigned, signals, polls,
                 starts, erased, unsafe>>

-----------------------------------------------------------------------------

WorkerStep(t) ==
  FetchNone(t) \/ FetchWork(t) \/ Executed(t) \/ ClearWork(t) \/ DeleteWork(t) \/ Die(t)

Next ==
  \/ StartThread \/ RecordThread
  \/ AssignWork \/ AssignSignal \/ CancelWork
  \/ \E t \in Workers : WorkerStep(t) \/ SpuriousWakeup(t)
  \/ Poll \/ DestroyLocked

\* Threads that can run do and Execute returns; CreateThreads finishes its loop.
\* Nothing obliges anybody to assign, cancel or destroy.
Spec ==
  /\ Init /\ [][Next]_vars
  /\ WF_vars(StartThread) /\ WF_vars(RecordThread) /\ WF_vars(AssignSignal)
  /\ \A t \in Workers : WF_vars(WorkerStep(t))

-----------------------------------------------------------------------------
(* Properties *)

\* Every variable has its type, DestroyPool cancels only threads the map names,
\* and it gives up after max_count polls (threadpool.cpp:83).
TypeOK ==
  /\ waiting \in Seq(Works)
  /\ running \in [Workers -> Works \cup {NULL}]
  /\ recorded \subseteq Workers /\ creating \subseteq Workers /\ doomed \subseteq recorded
  /\ place \in [Workers -> Places]
  /\ work \in [Workers -> Works \cup {NULL}]
  /\ unassigned \subseteq Works /\ signals \subseteq Works /\ erased \subseteq Works
  /\ destroying \in {"no", "polling", "kill", "done"}
  /\ polls \in 0..MaxPolls
  /\ starts \in [Works -> Nat] /\ deletes \in [Works -> Nat]
  /\ unsafe \in BOOLEAN

\* A work is started at most once, in spite of wake-ups, cancellation and several
\* threads, and one that CancelWork took out of the list (threadpool.cpp:174) or
\* that still waits has not been started.
StartedOnce ==
  \A w \in Works :
    /\ starts[w] <= 1
    /\ w \in erased \/ IsWaiting(w) => starts[w] = 0

\* No work named in _works_in_runing has been deleted, as long as DestroyPool has not
\* deleted it.
EntryNotDeleted ==
  destroying # "done" =>
    \A t \in recorded : running[t] # NULL => deletes[running[t]] = 0

\* No work is deleted twice (threadpool.cpp:96, 320) and none is deleted under a
\* thread that executes it.
DeletedOnce ==
  \A w \in Works :
    /\ deletes[w] <= 1
    /\ deletes[w] = 1 => \A t \in Workers : ~(work[t] = w /\ place[t] = "execute")

\* No thread is cancelled in the middle of a work.
NoThreadKilledAtWork == \A t \in Workers : ~(place[t] = "dead" /\ work[t] # NULL)

\* CancelWork, FindWork and ShowInfo never use a deleted work (threadpool.cpp:187, 221,
\* 257); and a DestroyPool that saw the pool empty (threadpool.cpp:83) deletes no work
\* twice or under the thread that executes it and kills no thread at work, provided that
\* no work was assigned after it began and CreateThreads overwrote no entry.
DeletionIsSafe == EntryNotDeleted /\ (~unsafe => DeletedOnce /\ NoThreadKilledAtWork)

\* An assigned work is started, unless it is cancelled or the pool is destroyed:
\* the signal AssignWork sends after the unlock (threadpool.cpp:123) is not lost.
AssignedIsStarted ==
  \A w \in Works :
    IsWaiting(w) ~> starts[w] > 0 \/ w \in erased \/ destroying # "no"

\* FindWork finds a work from its assignment until its execution has ended, so
\* that a caller who looks before he assigns (project_image.cpp:854) assigns no
\* work twice: there is no moment between the list and the map at which it is in
\* neither (threadpool.cpp:155-159), unless CreateThreads overwrote an entry.
LiveWorkIsFound ==
  ~unsafe => \A w \in Works :
    IsWaiting(w) \/ (\E t \in Workers : work[t] = w /\ place[t] \in {"execute", "clear"})
      => FindWork(Name[w])

\* What a caller of the pool relies on, in the abstract.  A work has begun once it was
\* started, and is gone once it was deleted, by its thread or by DestroyPool.
Promise == INSTANCE PoolPromise
  WITH fresh <- unassigned, queue <- waiting, begun <- {w \in Works : starts[w] > 0},
       gone <- {w \in Works : deletes[w] > 0}, closed <- destroying = "done"

\* The list, the map, the wake-ups, the polls and the unsynchronised write of
\* CreateThreads keep it: works start in the order of AssignWork
\* (threadpool.cpp:120, 155), CancelWork takes out the first of that name (:182) and
\* nothing else makes an assigned work disappear before it has started, except
\* DestroyPool.  It holds of unsafe uses of DestroyPool too.
ImplementsPromise == Promise!Spec
=============================================================================
