------------------------------ MODULE Workflow ------------------------------
(***************************************************************************)
(* The workflow engine of sky (workflow/engine.cpp) together with the part *)
(* of the action pool (workflow/action.cpp) that changes its tables.       *)
(*                                                                         *)
(* A workflow is a set of actions with an order.  The engine, one thread   *)
(* with a message queue, asks the receiver of every action whose           *)
(* predecessors are finished to do its work, asks again every five seconds *)
(* until the receiver has answered, and reports the outcome to the sender  *)
(* of the action, which ends the action with FinishAction.  A workflow may *)
(* have a second one prepared that undoes it.  The tables survive a crash  *)
(* of the process; the queue, the calls under way and the locks do not.    *)
(*                                                                         *)
(* Every workflow belongs to one engine and its rollback to the same one,  *)
(* and engines share nothing else, so that one engine is modelled.         *)
(* Progress is abstracted: an answer that is accepted has progress 100     *)
(* exactly when its state is SUCCESS (engine.cpp:517).                     *)
(***************************************************************************)
EXTENDS Integers, Sequences, FiniteSets

CONSTANTS
    Workflows,    \* identities of workflows, rollback workflows included
    Actions,      \* identities of actions
    None,         \* the empty identity
    FlowOf,       \* workflow_id of an action
    Before,       \* table action_sequences: pairs <<action_prev, action_next>>
    RollbackOf,   \* rollback_workflow_id of a workflow, or None
    UndoOf,       \* rollback_action_id of an action, or None
    Skipped,      \* actions created with skipped = true
    Async,        \* actions created with synchronous = false
    Retry,        \* actions whose request has retry = true
    Feedback,     \* pairs <<action, outcome>> that are reported to the sender
    Limit,        \* GetRepeatCount(timeout) of an action, 0 for no timeout
    Senders,      \* threads that send actions, get feedback and call the API
    SenderOf,     \* the message unit that gets the feedback of an action
    Replies,      \* Replies[outcome]: what a sender does about a feedback
    Calls,        \* calls <<kind, workflow>> a sender may make on its own
    Answers,      \* what receivers answer
    Lossy,        \* whether requests and answers can be lost
    MaxRepeat,    \* bound: a repeat count is not counted any further
    Copies,       \* bound: for every feedback, the copies that wait for its sender
    MaxInbox,     \* bound: messages the environment puts in the queue
    MaxCalls,     \* bound: calls the senders make on their own
    MaxCrashes    \* bound: crashes of the process

Engine == "engine"
Threads == Senders \cup {Engine}
Outcomes == {"success", "failed", "timeout"}
States == {"ready", "running"} \cup Outcomes
Requests == {"pause", "resume", "delete", "rollback"}

ASSUME GraphAssumption ==
    /\ FlowOf \in [Actions -> Workflows]
    /\ Before \subseteq Actions \X Actions
    /\ \A e \in Before : FlowOf[e[1]] = FlowOf[e[2]]

ASSUME FiniteActions == IsFiniteSet(Actions)

ASSUME RollbackAssumption ==
    /\ None \notin Workflows \cup Actions \cup Senders
    /\ RollbackOf \in [Workflows -> Workflows \cup {None}]
    /\ UndoOf \in [Actions -> Actions \cup {None}]
    /\ \A w \in Workflows : RollbackOf[w] # None =>
            /\ RollbackOf[w] # w
            /\ RollbackOf[RollbackOf[w]] = None
    /\ \A v, w \in Workflows : RollbackOf[v] = RollbackOf[w] => v = w \/ RollbackOf[v] = None
    /\ \A a \in Actions : UndoOf[a] # None => FlowOf[UndoOf[a]] = RollbackOf[FlowOf[a]]

ASSUME AttributeAssumption ==
    /\ Skipped \subseteq Actions /\ Async \subseteq Actions /\ Retry \subseteq Actions
    /\ Feedback \subseteq Actions \X Outcomes
    /\ \A a \in Retry : <<a, "failed">> \notin Feedback
    /\ MaxRepeat \in Nat \ {0}
    /\ Copies \in [Feedback -> Nat \ {0}]
    /\ Limit \in [Actions -> 0..MaxRepeat]

ASSUME EnvironmentAssumption ==
    /\ Engine \notin Senders
    /\ SenderOf \in [Actions -> Senders]
    /\ Replies \in [Outcomes -> SUBSET {"finish", "finishTx", "restart", "rollback", "delete"}]
    /\ Calls \subseteq (Requests \cup {"create", "lock", "unlock", "skip"}) \X Workflows
    /\ Answers \subseteq {"running", "success", "failed"}
    /\ Lossy \in BOOLEAN
    /\ MaxInbox \in Nat /\ MaxCalls \in Nat /\ MaxCrashes \in Nat

\* What callers owe: nobody resumes a rollback workflow on his own (RollbackWorkflow
\* does it) and nobody skips the actions of one.
ASSUME CallerAssumption ==
    \A w \in Workflows : (\E f \in Workflows : RollbackOf[f] = w) =>
        <<"resume", w>> \notin Calls /\ <<"skip", w>> \notin Calls

VARIABLES
    \* the tables: they survive a crash
    table,      \* rows of table workflow
    paused,     \* column paused
    state,      \* column state of an action
    repeat,     \* column history_repeat_count
    skipped,    \* column skipped
    finished,   \* column finished; kept when the row is deleted
    history,    \* rows of workflow_history with their state, "none" if absent
    \* the engine thread
    inbox,      \* its message queue
    pc,         \* where DoAction and the handlers are
    mode,       \* EngineRunMode of the current run
    todo,       \* actions the loop of Run has not come to yet
    cur,        \* the Action object: a copy of its row
    \* calls of FinishAction and of the request functions
    fin,        \* per thread, the call of FinishAction under way
    wait,       \* per sender, the request it waits for
    holder,     \* the sender that holds work_flow_mutex across a wait
    locks,      \* work_flow_locks as pairs <<sender, workflow>>
    \* messages outside the process
    requests,   \* requests the receivers have
    mailbox,    \* for every feedback, its copies the senders have not taken yet
    \* counters of the bounds, and history variables
    calls, crashes,
    asked,      \* actions that were requested
    restarted,  \* actions restarted and not requested since
    recalled,   \* actions restarted while feedback waits at which their sender ends them
    closed,     \* workflows removed because they were finished
    undone,     \* rollback workflows that were set going
    quiet,      \* workflows whose pause was confirmed and not withdrawn
    gaveup      \* whether a caller stopped waiting for the engine

tables == <<table, paused, state, repeat, skipped, finished, history>>
engine == <<pc, mode, todo, cur>>
callers == <<fin, wait, holder, locks>>
outside == <<requests, mailbox>>
ghosts == <<calls, crashes, asked, restarted, recalled, closed, undone, quiet, gaveup>>
vars == <<tables, inbox, engine, callers, outside, ghosts>>

-----------------------------------------------------------------------------
(* Messages of the engine's queue, and calls that are not under way.       *)

TimerMsg == [kind |-> "timer"]
PowerOnMsg == [kind |-> "poweron"]
WakeupMsg(w) == [kind |-> "wakeup", w |-> w]
AckMsg(a, st) == [kind |-> "ack", a |-> a, state |-> st]
RequestMsg(k, w, n) == [kind |-> k, w |-> w, id |-> n]

Messages ==
    [kind : {"timer", "poweron"}] \cup [kind : {"wakeup"}, w : Workflows]
      \cup [kind : {"ack"}, a : Actions, state : {"running", "success", "failed"}]
      \cup [kind : Requests, w : Workflows, id : 1..MaxCalls]

NoCall == [at |-> "none", a |-> None, count |-> 0, tx |-> FALSE, verdict |-> "none"]
NoWait == [kind |-> "none", w |-> None, id |-> 0]
EmptyMailbox == [f \in Feedback |-> 0]
NoCopy == [a |-> None, state |-> "ready", repeat |-> 0, skipped |-> FALSE]

Free(s) == fin[s] = NoCall /\ wait[s] = NoWait
Resting == pc = "run" /\ todo = {}

-----------------------------------------------------------------------------
(* The views of the action pool.                                           *)

ActionsOf(w) == {a \in Actions : FlowOf[a] = w}
InPool(a) == FlowOf[a] \in table
IsRollback(w) == \E f \in Workflows : RollbackOf[f] = w

\* View valid_action_sequences: no unfinished predecessor.
ReadyAction(a) == \A e \in Before : e[2] = a => e[1] \in finished

\* View running_actions: ready, not finished, and the workflow is not paused.
RunningActions(ws) ==
    {a \in Actions : /\ FlowOf[a] \in (table \cap ws) \ paused
                     /\ a \notin finished
                     /\ ReadyAction(a)}

Unfinished(w) == {a \in ActionsOf(w) : a \notin finished}

CountUnsuccessful(w) == Cardinality({a \in ActionsOf(w) : state[a] # "success"})
GetUnfinishedActionsCount(w) == Cardinality(Unfinished(w))

\* Verdicts that look at the states of the actions only.
VerdictOfState(w) ==
    IF Unfinished(w) = {} THEN "success" ELSE state[CHOOSE a \in Unfinished(w) : TRUE]

\* MakeWorkflowHistory outside a transaction.
Verdict(w) ==
    CASE Unfinished(w) = {} -> "success"
      [] \E a \in Unfinished(w) : state[a] \in {"failed", "timeout"} -> "failed"
      [] OTHER -> "cancelled"

\* MakeWorkflowHistory inside the transaction that finishes a, the last action.
VerdictTx(a) ==
    IF Unfinished(FlowOf[a]) = {} \/ state[a] = "success" THEN "success"
    ELSE Verdict(FlowOf[a])

WithRollback(ws) == ws \cup {RollbackOf[w] : w \in ws}

\* What the engine makes of an Action object that is neither paused nor finished.
GetActionState(c) ==
    IF c.state = "success" THEN "success"
    ELSE IF c.a \in Async /\ c.state # "ready" THEN IF c.state = "running" THEN "success"
                                                   ELSE "failed"
    ELSE IF c.state \in {"failed", "timeout"} THEN c.state
    ELSE IF Limit[c.a] > 0 /\ c.repeat >= Limit[c.a] THEN "timeout"
    ELSE c.state

CountUp(n) == IF n < MaxRepeat THEN n + 1 ELSE n

Row(a) == [a |-> a, state |-> state[a], repeat |-> repeat[a], skipped |-> a \in skipped]

-----------------------------------------------------------------------------
Init ==
    /\ table = {} /\ paused = {} /\ skipped = {} /\ finished = {}
    /\ state = [a \in Actions |-> "ready"]
    /\ repeat = [a \in Actions |-> 0]
    /\ history = [w \in Workflows |-> "none"]
    /\ inbox = <<PowerOnMsg>>
    /\ pc = "run" /\ mode = "cycle" /\ todo = {} /\ cur = NoCopy
    /\ fin = [t \in Threads |-> NoCall]
    /\ wait = [s \in Senders |-> NoWait]
    /\ holder = None /\ locks = {}
    /\ requests = {} /\ mailbox = EmptyMailbox
    /\ calls = 0 /\ crashes = 0 /\ gaveup = FALSE
    /\ asked = {} /\ restarted = {} /\ recalled = {} /\ closed = {} /\ undone = {} /\ quiet = {}

-----------------------------------------------------------------------------
(* FinishAction, called by the engine and by senders.  It counts the       *)
(* unfinished actions first.  Inside a transaction of the caller (tx) its  *)
(* writes happen when the caller commits, its reads and its wakeup do not. *)

FinishCall(a, tx) == [at |-> "count", a |-> a, count |-> 0, tx |-> tx, verdict |-> "none"]

FinishCount(t) ==
    /\ fin[t].at = "count"
    /\ LET a == fin[t].a
           w == FlowOf[a]
           n == GetUnfinishedActionsCount(w)
       IN  IF ~InPool(a) \/ n = 0
           THEN /\ fin' = [fin EXCEPT ![t] = NoCall]
                /\ UNCHANGED inbox
           ELSE /\ fin' = [fin EXCEPT ![t].at = IF fin[t].tx THEN "commit" ELSE "write",
                                      ![t].count = n,
                                      ![t].verdict = IF fin[t].tx THEN VerdictTx(a) ELSE "none"]
                /\ inbox' = IF fin[t].tx /\ n > 1 THEN Append(inbox, WakeupMsg(w)) ELSE inbox
    /\ UNCHANGED <<tables, engine, wait, holder, locks, outside, ghosts>>

FinishWrite(t) ==
    /\ fin[t].at = "write"
    /\ LET a == fin[t].a
       IN  /\ finished' = IF InPool(a) THEN finished \cup {a} ELSE finished
           /\ IF fin[t].count = 1
              THEN /\ fin' = [fin EXCEPT ![t].at = "delete"]
                   /\ UNCHANGED inbox
              ELSE /\ fin' = [fin EXCEPT ![t] = NoCall]
                   /\ inbox' = IF InPool(a) THEN Append(inbox, WakeupMsg(FlowOf[a])) ELSE inbox
    /\ UNCHANGED <<table, paused, state, repeat, skipped, history, engine,
                   wait, holder, locks, outside, ghosts>>

\* DeleteWorkflow(w, true) at the end of FinishAction.
FinishDelete(t) ==
    /\ fin[t].at = "delete"
    /\ LET w == FlowOf[fin[t].a]
       IN  IF w \in table
           THEN /\ table' = table \ WithRollback({w})
                /\ history' = [history EXCEPT ![w] = Verdict(w)]
                /\ closed' = closed \cup {w}
           ELSE UNCHANGED <<table, history, closed>>
    /\ fin' = [fin EXCEPT ![t] = NoCall]
    /\ UNCHANGED <<paused, state, repeat, skipped, finished, inbox, engine, wait, holder, locks,
                   outside, calls, crashes, asked, restarted, recalled, undone, quiet, gaveup>>

\* The caller commits.  A second history row of a workflow violates its primary key
\* and the whole transaction fails.
FinishCommit(t) ==
    /\ fin[t].at = "commit"
    /\ LET a == fin[t].a
           w == FlowOf[a]
           last == fin[t].count = 1
       IN  IF last /\ history[w] # "none"
           THEN UNCHANGED <<table, finished, history, closed>>
           ELSE /\ finished' = IF InPool(a) THEN finished \cup {a} ELSE finished
                /\ table' = IF last THEN table \ WithRollback({w}) ELSE table
                /\ history' = IF last THEN [history EXCEPT ![w] = fin[t].verdict] ELSE history
                /\ closed' = IF last THEN closed \cup {w} ELSE closed
    /\ fin' = [fin EXCEPT ![t] = NoCall]
    /\ UNCHANGED <<paused, state, repeat, skipped, inbox, engine, wait, holder, locks,
                   outside, calls, crashes, asked, restarted, recalled, undone, quiet, gaveup>>

-----------------------------------------------------------------------------
(* The engine: the loop of Run and DoAction, and the handling of an answer.*)

\* The mailbox with another copy of the feedback f.
OneMore(f) == [mailbox EXCEPT ![f] = IF @ < Copies[f] THEN @ + 1 ELSE @]

\* Tell the sender the outcome of a, again in every cycle until a is finished, or
\* finish a if nobody wants to know.
Report(a, outcome) ==
    IF <<a, outcome>> \in Feedback
    THEN /\ mailbox' = OneMore(<<a, outcome>>)
         /\ pc' = "run"
         /\ UNCHANGED fin
    ELSE /\ fin' = [fin EXCEPT ![Engine] = FinishCall(a, FALSE)]
         /\ pc' = "finish"
         /\ UNCHANGED mailbox

\* States that DoAction leaves alone in a run of mode m.
IgnoredUnlessCycle(st, m) == m # "cycle" /\ st \in {"ready", "running"}
Ignored(st, m) == \/ m = "wakeup" /\ st # "ready"
                  \/ m = "ack" /\ st \in {"ready", "running"}

\* DoAction up to its first write.
DoAction(c, m) ==
    LET st == GetActionState(c)
        ignored == Ignored(st, m)
    IN  /\ cur' = c
        /\ CASE ignored -> pc' = "run" /\ UNCHANGED <<mailbox, fin>>
             [] ~ignored /\ st \in {"ready", "running"} /\ c.skipped ->
                    /\ fin' = [fin EXCEPT ![Engine] = FinishCall(c.a, FALSE)]
                    /\ pc' = "finish"
                    /\ UNCHANGED mailbox
             [] ~ignored /\ st \in {"ready", "running"} /\ ~c.skipped ->
                    /\ pc' = IF st = "ready" /\ UndoOf[c.a] # None THEN "clear" ELSE "send"
                    /\ UNCHANGED <<mailbox, fin>>
             [] ~ignored /\ st = "timeout" /\ c.state # "timeout" ->
                    pc' = "time" /\ UNCHANGED <<mailbox, fin>>
             [] OTHER -> Report(c.a, st)

\* One turn of the loop of Run: read the row again, skip it if paused or finished.
EngineRead ==
    /\ pc = "run"
    /\ \E a \in todo :
        /\ todo' = todo \ {a}
        /\ IF InPool(a) /\ FlowOf[a] \notin paused /\ a \notin finished
           THEN DoAction(Row(a), mode)
           ELSE UNCHANGED <<pc, cur, mailbox, fin>>
    /\ UNCHANGED <<tables, inbox, mode, wait, holder, locks, requests, ghosts>>

ClearOwnSkip ==
    /\ pc = "clear"
    /\ skipped' = skipped \ {cur.a}
    /\ pc' = "send"
    /\ UNCHANGED <<table, paused, state, repeat, finished, history, inbox, mode, todo, cur,
                   callers, outside, ghosts>>

\* An action with real work to do: its rollback action may not be skipped any more.
EngineClearSkip ==
    /\ pc = "clear"
    /\ skipped' = skipped \ {UndoOf[cur.a]}
    /\ pc' = "send"
    /\ UNCHANGED <<table, paused, state, repeat, finished, history, inbox, mode, todo, cur,
                   callers, outside, ghosts>>

\* RepeatAction and the request.  A crash between the two is a lost request.  The
\* count is compared with Limit and with zero only, so that it may stop at MaxRepeat.
EngineSend ==
    /\ pc = "send"
    /\ repeat' = IF InPool(cur.a) THEN [repeat EXCEPT ![cur.a] = CountUp(cur.repeat)] ELSE repeat
    /\ requests' = requests \cup {cur.a}
    /\ asked' = asked \cup {cur.a}
    /\ restarted' = restarted \ {cur.a}
    /\ pc' = "run"
    /\ UNCHANGED <<table, paused, state, skipped, finished, history, inbox, mode, todo, cur,
                   callers, mailbox, calls, crashes, recalled, closed, undone, quiet, gaveup>>

\* The last request was not answered in time: record it, then report it.
EngineTimeOut ==
    /\ pc = "time"
    /\ state' = IF InPool(cur.a) THEN [state EXCEPT ![cur.a] = "timeout"] ELSE state
    /\ Report(cur.a, "timeout")
    /\ UNCHANGED <<table, paused, repeat, skipped, finished, history, inbox, mode, todo, cur,
                   wait, holder, locks, requests, ghosts>>

\* FinishAction has returned: wake the engine for the successors.
EngineFinished ==
    /\ pc = "finish" /\ fin[Engine] = NoCall
    /\ inbox' = Append(inbox, WakeupMsg(FlowOf[cur.a]))
    /\ pc' = "run"
    /\ UNCHANGED <<tables, mode, todo, cur, callers, outside, ghosts>>

ReceiveAnytime(kinds) == inbox # <<>> /\ Head(inbox).kind \in kinds
Receive(kinds) == Resting /\ inbox # <<>> /\ Head(inbox).kind \in kinds

\* EV_ENGINE_POWER_ON: remove the workflows that are finished, then run.
EnginePowerOn ==
    /\ Receive({"poweron"})
    /\ LET over == {w \in table : ActionsOf(w) # {} /\ Unfinished(w) = {}}
       IN  /\ table' = table \ WithRollback(over)
           /\ history' = [w \in Workflows |-> IF w \in over THEN "success" ELSE history[w]]
           /\ closed' = closed \cup over
           /\ todo' = RunningActions(Workflows \ WithRollback(over))
    /\ mode' = "cycle"
    /\ inbox' = Tail(inbox)
    /\ UNCHANGED <<paused, state, repeat, skipped, finished, pc, cur, callers, outside,
                   calls, crashes, asked, restarted, recalled, undone, quiet, gaveup>>

RunModeWakeup(m) == "wakeup"
RunMode(m) == IF m.kind = "timer" THEN "cycle" ELSE "wakeup"

\* EV_ACTION_TIMER and EV_ENGINE_WAKEUP: list the running actions first.
EngineRun ==
    /\ Receive({"timer", "wakeup"})
    /\ mode' = RunMode(Head(inbox))
    /\ todo' = RunningActions(IF Head(inbox).kind = "timer" THEN Workflows
                              ELSE {Head(inbox).w})
    /\ inbox' = Tail(inbox)
    /\ UNCHANGED <<tables, pc, cur, callers, outside, ghosts>>

\* Only the answer of a running action without an outcome is accepted.
AcceptedLate(a) == a \in RunningActions(Workflows)
Accepted(a) == /\ a \in RunningActions(Workflows)
               /\ GetActionState(Row(a)) \in {"ready", "running"}

\* An answer.
EngineAck ==
    /\ Receive({"ack"})
    /\ LET a == Head(inbox).a
           st == Head(inbox).state
       IN  IF Accepted(a)
           THEN /\ cur' = [Row(a) EXCEPT !.state =
                              IF st = "failed" /\ a \in Retry THEN "running" ELSE st]
                /\ pc' = "store"
                /\ mode' = "ack"
           ELSE UNCHANGED <<cur, pc, mode>>
    /\ inbox' = Tail(inbox)
    /\ UNCHANGED <<tables, todo, callers, outside, ghosts>>

\* UpdateActionState with the answer, then DoAction.
EngineStore ==
    /\ pc = "store"
    /\ state' = IF InPool(cur.a) THEN [state EXCEPT ![cur.a] = cur.state] ELSE state
    /\ DoAction(cur, "ack")
    /\ UNCHANGED <<table, paused, repeat, skipped, finished, history, inbox, mode, todo,
                   wait, holder, locks, requests, ghosts>>

-----------------------------------------------------------------------------
(* The engine: the requests of the API functions.                          *)

\* The answer ends the wait of the caller, if it is still waiting.
Answered(n) == {s \in Senders : wait[s].id = n}

ReplyTo(n) ==
    /\ wait' = [s \in Senders |-> IF s \in Answered(n) THEN NoWait ELSE wait[s]]
    /\ holder' = IF holder \in Answered(n) THEN None ELSE holder
    /\ UNCHANGED <<fin, locks>>

\* Some request under way will let workflow w run again.
Unpausing(m, w) ==
    \/ m.kind = "resume" /\ m.w = w
    \/ m.kind = "rollback" /\ RollbackOf[m.w] = w

EnginePause ==
    /\ Receive({"pause"})
    /\ LET m == Head(inbox)
           withdrawn == \E i \in 2..Len(inbox) : Unpausing(inbox[i], m.w)
       IN  /\ paused' = IF m.w \in table THEN paused \cup {m.w} ELSE paused
           /\ ReplyTo(m.id)
           /\ quiet' = IF Answered(m.id) # {} /\ ~withdrawn THEN quiet \cup {m.w} ELSE quiet
    /\ inbox' = Append(Tail(inbox), TimerMsg)
    /\ UNCHANGED <<table, state, repeat, skipped, finished, history, engine, outside,
                   calls, crashes, asked, restarted, recalled, closed, undone, gaveup>>

EngineResume ==
    /\ Receive({"resume"})
    /\ LET m == Head(inbox)
       IN  /\ paused' = paused \ {m.w}
           /\ ReplyTo(m.id)
           /\ inbox' = Append(Tail(inbox), WakeupMsg(m.w))
    /\ UNCHANGED <<table, state, repeat, skipped, finished, history, engine, outside, ghosts>>

EngineDelete ==
    /\ Receive({"delete"})
    /\ LET m == Head(inbox)
       IN  /\ IF m.w \in table
              THEN /\ table' = table \ WithRollback({m.w})
                   /\ history' = [history EXCEPT ![m.w] = Verdict(m.w)]
              ELSE UNCHANGED <<table, history>>
           /\ ReplyTo(m.id)
    /\ inbox' = Append(Tail(inbox), TimerMsg)
    /\ UNCHANGED <<paused, state, repeat, skipped, finished, engine, outside, ghosts>>

\* What DeleteWorkflow(w, false) removes.
DeletedBoth(w) == WithRollback({w})
DeletedByRollback(w) == {w}

\* One transaction deletes the workflow and lets its rollback run.  The column
\* rollback_workflow_id of a rollback workflow is not empty either: it names the
\* workflow it is for, and the update of that id finds no row.
EngineRollback ==
    /\ Receive({"rollback"})
    /\ LET m == Head(inbox)
           r == RollbackOf[m.w]
           works == m.w \in table /\ (r # None \/ IsRollback(m.w))
       IN  /\ IF works
              THEN /\ table' = table \ DeletedByRollback(m.w)
                   /\ history' = [history EXCEPT ![m.w] = Verdict(m.w)]
                   /\ paused' = paused \ {r}
                   /\ undone' = undone \cup ({r} \cap Workflows)
              ELSE UNCHANGED <<table, history, paused, undone>>
           /\ inbox' = IF works /\ r # None
                       THEN Tail(inbox) \o <<WakeupMsg(r), TimerMsg>>
                       ELSE Append(Tail(inbox), TimerMsg)
           /\ ReplyTo(m.id)
    /\ UNCHANGED <<state, repeat, skipped, finished, engine, outside,
                   calls, crashes, asked, restarted, recalled, closed, quiet, gaveup>>

-----------------------------------------------------------------------------
(* The senders.                                                            *)

Locked(w) == \E s \in Senders : <<s, w>> \in locks

\* DeleteWorkflow and RollbackWorkflow hold work_flow_mutex until they return.
Exclusive(k) == k \in {"delete", "rollback"}
HolderUnlocked(s, k) == holder
HolderAfter(s, k) == IF Exclusive(k) THEN s ELSE holder

\* PauseWorkflow, ResumeWorkflow, DeleteWorkflow, RollbackWorkflow up to the wait.
Ask(s, k, w) ==
    LET refused == \/ w \notin table
                   \/ Exclusive(k) /\ Locked(w)
                   \/ k = "rollback" /\ RollbackOf[w] = None /\ ~IsRollback(w)
    IN  /\ calls < MaxCalls /\ Len(inbox) < MaxInbox
        /\ Exclusive(k) => holder = None
        /\ calls' = calls + 1
        /\ IF refused
           THEN UNCHANGED <<inbox, wait, holder, quiet>>
           ELSE /\ inbox' = Append(inbox, RequestMsg(k, w, calls + 1))
                /\ wait' = [wait EXCEPT ![s] = [kind |-> k, w |-> w, id |-> calls + 1]]
                /\ holder' = HolderAfter(s, k)
                /\ quiet' = quiet \ (CASE k = "resume" -> {w}
                                       [] k = "rollback" -> {RollbackOf[w]}
                                       [] OTHER -> {})

\* Feedback that waits for its sender.
Waiting == {f \in Feedback : mailbox[f] > 0}

\* Outcomes at which a sender may end the action.
Ending == {o \in Outcomes : Replies[o] \cap {"finish", "finishTx"} # {}}

\* RestartAction, and the wakeup it ends with.
Restart(a) ==
    IF InPool(a) /\ a \notin finished
    THEN /\ state' = [state EXCEPT ![a] = "running"]
         /\ restarted' = restarted \cup {a}
         /\ recalled' = IF \E o \in Ending : <<a, o>> \in Waiting' THEN recalled \cup {a}
                                                                  ELSE recalled
         /\ inbox' = Append(inbox, WakeupMsg(FlowOf[a]))
    ELSE UNCHANGED <<state, restarted, recalled, inbox>>

\* A sender drops feedback of an action it has ended; the handler of
\* EV_ACTION_TIMEOUT only drops that of an action that is gone.
Stale(f) == \/ ~InPool(f[1])
            \/ f[2] # "timeout" /\ f[1] \in finished

\* A sender takes a feedback and does one of the things senders do about it.
TakeFeedback(s) ==
    /\ Free(s)
    /\ \E f \in Waiting :
        /\ SenderOf[f[1]] = s
        /\ mailbox' = [mailbox EXCEPT ![f] = @ - 1]
        /\ IF Stale(f)
           THEN UNCHANGED <<fin, state, restarted, recalled, inbox, wait, holder, quiet, calls>>
           ELSE \/ /\ "finish" \in Replies[f[2]]
                   /\ fin' = [fin EXCEPT ![s] = FinishCall(f[1], FALSE)]
                   /\ UNCHANGED <<state, restarted, recalled, inbox, wait, holder, quiet, calls>>
                \/ /\ "finishTx" \in Replies[f[2]]
                   /\ fin' = [fin EXCEPT ![s] = FinishCall(f[1], TRUE)]
                   /\ UNCHANGED <<state, restarted, recalled, inbox, wait, holder, quiet, calls>>
                \/ /\ "restart" \in Replies[f[2]]
                   /\ Restart(f[1])
                   /\ UNCHANGED <<fin, wait, holder, quiet, calls>>
                \/ /\ \E k \in {"rollback", "delete"} \cap Replies[f[2]] :
                        Ask(s, k, FlowOf[f[1]])
                   /\ UNCHANGED <<fin, state, restarted, recalled>>
    /\ UNCHANGED <<table, paused, repeat, skipped, finished, history, engine, locks, requests,
                   crashes, asked, closed, undone, gaveup>>

\* The workflows CreateWorkflow creates paused: the rollback workflow.
CreatedRunning(w) == {}
CreatedPaused(w) == {RollbackOf[w]} \ {None}

\* CreateWorkflow: both workflows in one transaction.
Create(s) ==
    /\ Free(s)
    /\ \E w \in Workflows :
        /\ <<"create", w>> \in Calls
        /\ w \notin table /\ history[w] = "none" /\ ~IsRollback(w)
        /\ LET new == WithRollback({w}) \cap Workflows
           IN  /\ table' = table \cup new
               /\ paused' = paused \cup CreatedPaused(w)
               /\ skipped' = skipped \cup {a \in Skipped : FlowOf[a] \in new}
        /\ inbox' = Append(inbox, WakeupMsg(w))
    /\ UNCHANGED <<state, repeat, finished, history, engine, callers, outside, ghosts>>

\* A call of PauseWorkflow, ResumeWorkflow, DeleteWorkflow or RollbackWorkflow.
Request(s) ==
    /\ Free(s)
    /\ \E k \in Requests, w \in Workflows : <<k, w>> \in Calls /\ Ask(s, k, w)
    /\ UNCHANGED <<tables, engine, fin, locks, outside,
                   crashes, asked, restarted, recalled, closed, undone, gaveup>>

\* The three seconds are over before the engine has answered.
GiveUp(s) ==
    /\ wait[s] # NoWait
    /\ wait' = [wait EXCEPT ![s] = NoWait]
    /\ holder' = IF holder = s THEN None ELSE holder
    /\ gaveup' = TRUE
    /\ UNCHANGED <<tables, inbox, engine, fin, locks, outside,
                   calls, crashes, asked, restarted, recalled, closed, undone, quiet>>

LockWorkflow(s) ==
    /\ Free(s) /\ holder = None
    /\ \E w \in Workflows : <<"lock", w>> \in Calls /\ locks' = locks \cup {<<s, w>>}
    /\ UNCHANGED <<tables, inbox, engine, fin, wait, holder, outside, ghosts>>

UnlockWorkflow(s) ==
    /\ Free(s) /\ holder = None
    /\ \E w \in Workflows : <<"unlock", w>> \in Calls /\ locks' = locks \ {<<s, w>>}
    /\ UNCHANGED <<tables, inbox, engine, fin, wait, holder, outside, ghosts>>

SkipAction(s) ==
    /\ Free(s)
    /\ \E a \in Actions : /\ <<"skip", FlowOf[a]>> \in Calls /\ InPool(a)
                          /\ skipped' = skipped \cup {a}
    /\ UNCHANGED <<table, paused, state, repeat, finished, history, inbox, engine,
                   callers, outside, ghosts>>

-----------------------------------------------------------------------------
(* The environment.                                                        *)

\* The loop timer of the engine.
Tick ==
    /\ Len(inbox) < MaxInbox
    /\ \A i \in 1..Len(inbox) : inbox[i] # TimerMsg
    /\ inbox' = Append(inbox, TimerMsg)
    /\ UNCHANGED <<tables, engine, callers, outside, ghosts>>

\* A receiver answers a request it has; it may answer again, and change its mind.
Answer(a, st) ==
    /\ a \in requests /\ st \in Answers
    /\ Len(inbox) < MaxInbox
    /\ \A i \in 1..Len(inbox) : inbox[i] # AckMsg(a, st)
    /\ inbox' = Append(inbox, AckMsg(a, st))
    /\ UNCHANGED <<tables, engine, callers, outside, ghosts>>

\* A request, and with it every answer to it, is lost.
Lose ==
    /\ Lossy
    /\ \E a \in requests : requests' = requests \ {a}
    /\ UNCHANGED <<tables, inbox, engine, callers, mailbox, ghosts>>

\* The process dies and starts again.
Crash ==
    /\ crashes < MaxCrashes
    /\ crashes' = crashes + 1
    /\ inbox' = <<PowerOnMsg>>
    /\ pc' = "run" /\ mode' = "cycle" /\ todo' = {} /\ cur' = NoCopy
    /\ fin' = [t \in Threads |-> NoCall]
    /\ wait' = [s \in Senders |-> NoWait]
    /\ holder' = None /\ locks' = {} /\ mailbox' = EmptyMailbox
    /\ UNCHANGED <<tables, requests, calls, asked, restarted, recalled, closed, undone, quiet,
                   gaveup>>

-----------------------------------------------------------------------------
EngineStep ==
    \/ EngineRead \/ EngineClearSkip \/ EngineSend \/ EngineTimeOut \/ EngineFinished
    \/ EnginePowerOn \/ EngineRun \/ EngineAck \/ EngineStore
    \/ EnginePause \/ EngineResume \/ EngineDelete \/ EngineRollback

FinishStep(t) == FinishCount(t) \/ FinishWrite(t) \/ FinishDelete(t) \/ FinishCommit(t)

SenderCall(s) ==
    \/ Create(s) \/ Request(s) \/ GiveUp(s)
    \/ LockWorkflow(s) \/ UnlockWorkflow(s) \/ SkipAction(s)

Next ==
    \/ EngineStep
    \/ \E t \in Threads : FinishStep(t)
    \/ \E s \in Senders : TakeFeedback(s) \/ SenderCall(s)
    \/ \E a \in Actions, st \in Answers : Answer(a, st)
    \/ Tick \/ Lose \/ Crash

Spec == Init /\ [][Next]_vars

\* Threads run, the timer fires (whether the queue is full is a bound of the model
\* only), senders read their mail, and a receiver that is asked again and again
\* answers with success in the end.
Fairness ==
    /\ WF_vars(EngineStep) /\ SF_vars(Tick)
    /\ \A t \in Threads : WF_vars(FinishStep(t))
    /\ \A s \in Senders : WF_vars(TakeFeedback(s))
    /\ \A a \in Actions : SF_vars(Answer(a, "success"))

FairSpec == Spec /\ Fairness

-----------------------------------------------------------------------------
(* Properties.                                                             *)

RowCopies == [a : Actions, state : States, repeat : 0..MaxRepeat, skipped : BOOLEAN]
FinCalls == [at : {"none", "count", "write", "delete", "commit"},
             a : Actions \cup {None}, count : Nat, tx : BOOLEAN,
             verdict : {"none", "success", "failed", "cancelled"}]
Waits == [kind : Requests \cup {"none"}, w : Workflows \cup {None}, id : 0..MaxCalls]

TablesType ==
    /\ table \subseteq Workflows /\ paused \subseteq Workflows
    /\ state \in [Actions -> States] /\ repeat \in [Actions -> 0..MaxRepeat]
    /\ skipped \subseteq Actions /\ finished \subseteq Actions
    /\ history \in [Workflows -> {"none", "success", "failed", "cancelled"}]

EngineType ==
    /\ pc \in {"run", "clear", "send", "time", "finish", "store"}
    /\ mode \in {"cycle", "wakeup", "ack"}
    /\ todo \subseteq Actions
    /\ cur \in RowCopies \cup {NoCopy}
    /\ pc # "run" => cur \in RowCopies

CallersType ==
    /\ fin \in [Threads -> FinCalls]
    /\ \A t \in Threads : fin[t].at # "none" => fin[t].a \in Actions
    /\ wait \in [Senders -> Waits]
    /\ holder \in Senders \cup {None} /\ locks \subseteq Senders \X Workflows

GhostsType ==
    /\ calls \in 0..MaxCalls /\ crashes \in 0..MaxCrashes /\ gaveup \in BOOLEAN
    /\ asked \subseteq Actions /\ restarted \subseteq Actions /\ recalled \subseteq Actions
    /\ closed \subseteq Workflows /\ undone \subseteq Workflows /\ quiet \subseteq Workflows

MailboxType == mailbox \in [Feedback -> Nat] /\ \A f \in Feedback : mailbox[f] <= Copies[f]

\* The tables, the queue, the program counters and the calls have their types, and
\* whoever works on an action works on one.
TypeOK ==
    /\ TablesType /\ EngineType /\ CallersType /\ GhostsType
    /\ inbox \in Seq(Messages)
    /\ requests \subseteq Actions
    /\ MailboxType

\* An action is requested only after every action before it has been finished
\* (view running_actions, Run), whatever was listed before a wait, a crash or a pause.
OrderKept == \A e \in Before : e[2] \in asked => e[1] \in finished

\* As long as a requested action can be undone, its rollback action will not be
\* skipped: DoAction clears the flag before it sends the first request, and a crash
\* between the two steps leaves the flag on the safe side.
UndoArmed ==
    \A a \in asked : UndoOf[a] # None => UndoOf[a] \notin skipped

\* When the first rollback action is requested the forward workflow is gone for good,
\* and the engine is not about to send one of its requests (Rollback is one
\* transaction, executed by the thread that sends the requests).
UndoAlone ==
    \A b \in asked, f \in Workflows : RollbackOf[f] = FlowOf[b] =>
        /\ f \notin table
        /\ pc \in {"clear", "send"} => FlowOf[cur.a] # f

\* A recorded outcome is final: late, repeated and contradicting answers and the
\* timeout leave it alone, and only RestartAction takes it back ("too late ack").
OutcomeStands ==
    [][\A a \in Actions : state[a] \in Outcomes /\ state'[a] # state[a]
            => state'[a] = "running" /\ a \in restarted']_vars

\* Once PauseWorkflow has returned successfully no request of the workflow is sent
\* until somebody resumes it, a restart of the process included.
PausedIsQuiet == pc \in {"clear", "send"} => FlowOf[cur.a] \notin quiet

\* The engine does not delete or roll back a workflow while a sender has it locked,
\* unless a caller of DeleteWorkflow or RollbackWorkflow has given up waiting: the
\* mutex is held until the engine has answered.
LockedKept ==
    [][\A w \in table \ table' :
            history'[w] # "none" /\ w \notin closed' /\ ~gaveup => ~Locked(w)]_vars

\* Work that was requested, and a rollback that was set going, is in the table or in
\* the history, and never in both (DeleteWorkflow writes the history and removes the
\* rows in one transaction, with or without the rollback workflow).
NothingVanishes ==
    /\ \A w \in {FlowOf[a] : a \in asked} \cup undone : w \in table \/ history[w] # "none"
    /\ \A w \in table : history[w] = "none"

\* An action that became ready is not left to the next cycle: until it has been
\* requested, a message that makes the engine look at it is in the queue, or the
\* engine has it on its list or in its hands, or its workflow is about to be removed.
ReadyIsWoken ==
    \A a \in RunningActions(Workflows) : state[a] = "ready" /\ repeat[a] = 0 =>
        \/ \E i \in 1..Len(inbox) : \/ inbox[i].kind \in {"poweron", "timer"}
                                    \/ inbox[i] = WakeupMsg(FlowOf[a])
        \/ a \in todo
        \/ pc # "run" /\ FlowOf[cur.a] = FlowOf[a]
        \/ \E t \in Threads : fin[t].at = "delete" /\ FlowOf[fin[t].a] = FlowOf[a]

\* FinishAction removes a workflow only when all its actions are finished, and the
\* history it writes says success (MakeWorkflowHistory), also when the last action
\* ended in a transaction.  The exception is an action restarted while feedback waits at
\* which its sender ends it: feedback is repeated in every cycle (engine.cpp:811), and
\* the copy of an earlier outcome may be taken after a later one was recorded.
ClosedIsFinished ==
    \A w \in closed : ActionsOf(w) \cap recalled = {} =>
        Unfinished(w) = {} /\ history[w] = "success"

\* When the last action of a workflow is finished and FinishAction has returned, the
\* workflow has been removed.
FinishedIsClosed ==
    \A w \in table : ActionsOf(w) # {} /\ Unfinished(w) = {} =>
        \E t \in Threads : fin[t].a \in ActionsOf(w)

\* Every workflow leaves the table in the end, although requests and answers get
\* lost and the process crashes: actions are requested again until they are answered.
EveryWorkflowEnds == \A w \in Workflows : w \in table \ paused ~> w \notin table

\* The life of a workflow as the two tables show it: a rollback workflow is prepared
\* while its forward workflow is in the table, and dropped if it left with it.
Phase(w) ==
    IF history[w] # "none" THEN "over"
    ELSE IF w \in table
    THEN IF \E f \in table : RollbackOf[f] = w THEN "prepared" ELSE "running"
    ELSE IF \E f \in Workflows : RollbackOf[f] = w /\ history[f] # "none" THEN "dropped"
    ELSE "absent"

Life == INSTANCE Saga WITH phase <- [w \in Workflows |-> Phase(w)], done <- finished

\* The queue, the copies of rows, the calls of FinishAction beside the engine, their
\* transactions, the requests of callers and the crashes implement the life Saga
\* describes: DeleteWorkflow (action.cpp:918) and Rollback (engine.cpp:888) each change
\* a workflow and its rollback in one step, and every request and every ending of an
\* action finds its predecessors finished and its workflow set going.
ImplementsSaga == Life!Spec

=============================================================================
