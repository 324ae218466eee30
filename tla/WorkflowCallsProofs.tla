------------------------- MODULE WorkflowCallsProofs -------------------------
(***************************************************************************)
(* What the callers of PauseWorkflow, DeleteWorkflow and RollbackWorkflow  *)
(* may rely on, that the engine is woken when an action becomes ready, and *)
(* that FinishAction removes what is finished, for every set of workflows, *)
(* senders and calls.                                                      *)
(***************************************************************************)
EXTENDS WorkflowProofs

USE GraphAssumption, RollbackAssumption, AttributeAssumption, EnvironmentAssumption

-----------------------------------------------------------------------------
(* The inductive invariant.                                                *)

\* Workflows that will not be created any more.
Settled == {w \in Workflows : IsRollback(w) \/ Known(w)}

\* A workflow of which running_actions lists nothing.
Stopped(w) == w \in table => w \in paused

IsRequest(m) == m.kind \in Requests

\* The requests in the queue are in the order of their numbers, and each is for a
\* workflow that was in the table.
QueueInv ==
  /\ \A i \in 1..Len(inbox) : IsRequest(inbox[i]) =>
        inbox[i].id <= calls /\ inbox[i].w \in Settled
  /\ \A i, j \in 1..Len(inbox) : i < j /\ IsRequest(inbox[i]) /\ IsRequest(inbox[j]) =>
        inbox[i].id < inbox[j].id

\* As long as nobody has given up, whoever asked for a deletion or a rollback waits
\* with the mutex in his hands, and the workflow is not locked.
Guarded(m) == m.kind \in {"delete", "rollback"} =>
    holder \in Senders /\ wait[holder].id = m.id /\ ~Locked(m.w)
LockInv == ~gaveup => \A i \in 1..Len(inbox) : Guarded(inbox[i])

\* A workflow whose pause was confirmed is paused, and no request that would let it
\* run again is on its way.
QuietInv ==
  \A w \in quiet : /\ w \in Settled /\ Stopped(w)
                   /\ \A i \in 1..Len(inbox) : ~Unpausing(inbox[i], w)

CallInv == CoreInv /\ QueueInv /\ LockInv /\ QuietInv /\ PausedIsQuiet

-----------------------------------------------------------------------------
(* How the queue moves.                                                    *)

\* Every request in the new queue was in the old one, d places further back.
Shifted(d) ==
  \A i \in 1..Len(inbox') : IsRequest(inbox'[i]) =>
      i + d \in 1..Len(inbox) /\ inbox'[i] = inbox[i + d]

\* A call of a request function, with what it leaves alone.
AskStep(s, k, w) ==
  /\ Free(s) /\ Ask(s, k, w)
  /\ UNCHANGED <<table, paused, history, pc, cur, locks, gaveup>>

\* A step that takes the first message, or adds messages that are no requests.
LEMMA ShiftedBy ==
  ASSUME TypeOK, NEW m, NEW n, ~IsRequest(m), ~IsRequest(n)
  PROVE  /\ inbox' = inbox \/ inbox' = Append(inbox, m) => Shifted(0)
         /\ /\ inbox # <<>>
            /\ \/ inbox' = Tail(inbox) \/ inbox' = Append(Tail(inbox), m)
               \/ inbox' = Tail(inbox) \o <<n, m>>
            => Shifted(1)
<1>1. inbox \in Seq(Messages)
  BY DEF TypeOK
<1>2. ASSUME inbox' = inbox \/ inbox' = Append(inbox, m) PROVE Shifted(0)
  <2>1. CASE inbox' = inbox
    BY <1>1, <2>1 DEF Shifted
  <2>2. CASE inbox' = Append(inbox, m)
    <3>1. \A i \in 1..Len(inbox') : inbox'[i] = m
                                     \/ (i \in 1..Len(inbox) /\ inbox'[i] = inbox[i])
      <4>1. /\ Len(inbox') = Len(inbox) + 1 /\ Len(inbox) \in Nat
            /\ \A i \in 1..Len(inbox) : inbox'[i] = inbox[i]
            /\ inbox'[Len(inbox) + 1] = m
        BY <1>1, <2>2
      <4> QED BY <4>1
    <3> QED BY <3>1 DEF Shifted
  <2> QED BY <1>2, <2>1, <2>2
<1>3. ASSUME inbox # <<>>, inbox' = Tail(inbox) \/ inbox' = Append(Tail(inbox), m)
      PROVE  Shifted(1)
  <2>1. CASE inbox' = Tail(inbox)
    BY <1>1, <1>3, <2>1 DEF Shifted
  <2>2. CASE inbox' = Append(Tail(inbox), m)
    <3>1. \A i \in 1..Len(inbox') : inbox'[i] = m
                                     \/ (i + 1 \in 1..Len(inbox) /\ inbox'[i] = inbox[i + 1])
      BY <1>1, <1>3, <2>2
    <3> QED BY <3>1 DEF Shifted
  <2> QED BY <1>3, <2>1, <2>2
<1>4. ASSUME inbox # <<>>, inbox' = Tail(inbox) \o <<n, m>>
      PROVE  Shifted(1)
  <2>1. \A i \in 1..Len(inbox') : inbox'[i] = n \/ inbox'[i] = m
                                   \/ (i + 1 \in 1..Len(inbox) /\ inbox'[i] = inbox[i + 1])
    BY <1>1, <1>4
  <2> QED BY <2>1 DEF Shifted
<1> QED BY <1>2, <1>3, <1>4

\* The messages the engine and the callers of FinishAction send are no requests.
LEMMA NoRequests ==
  /\ ~IsRequest(TimerMsg) /\ ~IsRequest(PowerOnMsg)
  /\ \A w : ~IsRequest(WakeupMsg(w))
  /\ \A a, st : ~IsRequest(AckMsg(a, st))
BY DEF IsRequest, Requests, TimerMsg, PowerOnMsg, WakeupMsg, AckMsg

\* A request of the queue.
LEMMA RequestFields ==
  ASSUME TypeOK, NEW i \in 1..Len(inbox)
  PROVE  /\ inbox[i] \in Messages
         /\ IsRequest(inbox[i]) => inbox[i].w \in Workflows /\ inbox[i].id \in 1..MaxCalls
<1>1. inbox[i] \in Messages
  BY DEF TypeOK
<1> QED BY <1>1, MessageFields DEF IsRequest

\* The engine takes at most the first message and sends no requests.
LEMMA EngineShifts ==
  ASSUME TypeOK, EngineStep
  PROVE  calls' = calls /\ (Shifted(0) \/ (inbox # <<>> /\ Shifted(1)))
<1>1. calls' = calls
  BY DEF EngineStep, EngineRead, EngineClearSkip, EngineSend, EngineTimeOut, EngineFinished,
         EnginePowerOn, EngineRun, EngineAck, EngineStore, EnginePause, EngineResume,
         EngineDelete, EngineRollback, ghosts
<1>2. CASE \/ EngineRead \/ EngineClearSkip \/ EngineSend \/ EngineTimeOut \/ EngineStore
           \/ EngineFinished
  <2>1. inbox' = inbox \/ inbox' = Append(inbox, WakeupMsg(FlowOf[cur.a]))
    BY <1>2 DEF EngineRead, EngineClearSkip, EngineSend, EngineTimeOut, EngineStore, EngineFinished
  <2> QED BY <1>1, <2>1, NoRequests, ShiftedBy
<1>3. CASE \/ EnginePowerOn \/ EngineRun \/ EngineAck
           \/ EnginePause \/ EngineResume \/ EngineDelete
  <2>1. /\ inbox # <<>>
        /\ \/ inbox' = Tail(inbox)
           \/ \E m \in {TimerMsg, WakeupMsg(Head(inbox).w)} : inbox' = Append(Tail(inbox), m)
    BY <1>3 DEF EnginePowerOn, EngineRun, EngineAck, EnginePause, EngineResume, EngineDelete, Receive
  <2> QED BY <1>1, <2>1, NoRequests, ShiftedBy
<1>4. CASE EngineRollback
  <2>1. /\ inbox # <<>>
        /\ \/ inbox' = Tail(inbox) \o <<WakeupMsg(RollbackOf[Head(inbox).w]), TimerMsg>>
           \/ inbox' = Append(Tail(inbox), TimerMsg)
    BY <1>4 DEF EngineRollback, Receive
  <2> QED BY <1>1, <2>1, NoRequests, ShiftedBy
<1> QED BY <1>2, <1>3, <1>4 DEF EngineStep

\* A sender takes feedback: it makes a request, or leaves the requests alone.
LEMMA FeedbackShifts ==
  ASSUME TypeOK, NEW s \in Senders, TakeFeedback(s)
  PROVE  \/ \E k \in Requests, w \in Workflows : k # "resume" /\ AskStep(s, k, w)
         \/ Shifted(0) /\ UNCHANGED <<calls, wait, holder, quiet>>
<1>1. PICK f \in Waiting : FeedbackEffect(s, f)
  BY FeedbackCases
<1>2. CASE \E k \in {"rollback", "delete"} : Ask(s, k, FlowOf[f[1]])
  <2>1. f[1] \in Actions
    BY DEF Waiting
  <2>2. Free(s) /\ UNCHANGED <<table, paused, history, pc, cur, locks, gaveup>>
    BY DEF TakeFeedback, engine
  <2> QED BY <1>2, <2>1, <2>2 DEF AskStep, Requests
<1>3. CASE ~\E k \in {"rollback", "delete"} : Ask(s, k, FlowOf[f[1]])
  <2>1. /\ UNCHANGED <<calls, wait, holder, quiet>>
        /\ inbox' = inbox \/ inbox' = Append(inbox, WakeupMsg(FlowOf[f[1]]))
    BY <1>1, <1>3 DEF FeedbackEffect, Restart
  <2> QED BY <2>1, NoRequests, ShiftedBy
<1> QED BY <1>2, <1>3

\* Everybody but the engine and the callers of the request functions.
Others ==
  \/ \E t \in Threads : FinishStep(t)
  \/ \E s \in Senders : SenderCall(s) /\ ~Request(s)
  \/ \E a \in Actions, st \in Answers : Answer(a, st)
  \/ Tick \/ Lose \/ Crash \/ UNCHANGED vars

LEMMA OthersShift ==
  ASSUME TypeOK, Others
  PROVE  Shifted(0) /\ UNCHANGED <<calls, quiet>>
<1>1. ASSUME NEW t \in Threads, FinishStep(t) PROVE Shifted(0) /\ UNCHANGED <<calls, quiet>>
  <2>1. /\ UNCHANGED <<calls, quiet>>
        /\ inbox' = inbox \/ inbox' = Append(inbox, WakeupMsg(FlowOf[fin[t].a]))
    BY <1>1 DEF FinishStep, FinishCount, FinishWrite, FinishDelete, FinishCommit, ghosts
  <2> QED BY <2>1, NoRequests, ShiftedBy
<1>2. ASSUME NEW s \in Senders, SenderCall(s), ~Request(s)
      PROVE  Shifted(0) /\ UNCHANGED <<calls, quiet>>
  <2>1. /\ UNCHANGED <<calls, quiet>>
        /\ inbox' = inbox \/ \E w : inbox' = Append(inbox, WakeupMsg(w))
    BY <1>2 DEF SenderCall, Create, GiveUp, LockWorkflow, UnlockWorkflow, SkipAction, ghosts
  <2> QED BY <2>1, NoRequests, ShiftedBy
<1>3. ASSUME NEW a \in Actions, NEW st \in Answers, Answer(a, st)
      PROVE  Shifted(0) /\ UNCHANGED <<calls, quiet>>
  BY <1>3, NoRequests, ShiftedBy DEF Answer, ghosts
<1>4. CASE Tick \/ Lose \/ UNCHANGED vars
  <2>1. /\ UNCHANGED <<calls, quiet>>
        /\ inbox' = inbox \/ inbox' = Append(inbox, TimerMsg)
    BY <1>4 DEF Tick, Lose, vars, ghosts
  <2> QED BY <2>1, NoRequests, ShiftedBy
<1>5. CASE Crash
  <2>1. UNCHANGED <<calls, quiet>> /\ inbox' = <<PowerOnMsg>>
    BY <1>5 DEF Crash
  <2> QED BY <2>1, NoRequests DEF Shifted
<1> QED BY <1>1, <1>2, <1>3, <1>4, <1>5 DEF Others

\* All the steps there are.
LEMMA StepCases ==
  ASSUME TypeOK, [Next]_vars
  PROVE  \/ EngineStep
         \/ \E s \in Senders, k \in Requests, w \in Workflows :
                AskStep(s, k, w) /\ (k # "resume" \/ ~IsRollback(w))
         \/ \E s \in Senders :
                TakeFeedback(s) /\ Shifted(0) /\ UNCHANGED <<calls, wait, holder, quiet>>
         \/ Others
<1>1. ASSUME NEW s \in Senders, Request(s)
      PROVE  \E k \in Requests, w \in Workflows :
                AskStep(s, k, w) /\ (k # "resume" \/ ~IsRollback(w))
  <2>1. PICK k \in Requests, w \in Workflows : <<k, w>> \in Calls /\ Ask(s, k, w)
    BY <1>1 DEF Request
  <2>2. k # "resume" \/ ~IsRollback(w)
    BY <2>1, CallerAssumption DEF IsRollback
  <2>3. Free(s) /\ UNCHANGED <<table, paused, history, pc, cur, locks, gaveup>>
    BY <1>1 DEF Request, tables, engine
  <2> QED BY <2>1, <2>2, <2>3 DEF AskStep
<1> QED BY <1>1, FeedbackShifts DEF Next, Others

-----------------------------------------------------------------------------
(* Workflows that were there stay settled, and stopped ones stay stopped.  *)

\* No workflow that was in the table comes back, and no rollback of one appears without it.
LEMMA SettledStep ==
  ASSUME CoreInv, [Next]_vars, NEW w \in Settled
  PROVE  w \in Settled'
<1>1. CASE IsRollback(w)
  BY <1>1 DEF Settled, IsRollback
<1>2. ASSUME ~IsRollback(w), \E W, D : Retires(W, D) PROVE Known(w)'
  <2>1. PICK W, D : Retires(W, D)
    BY <1>2
  <2>2. w \notin D \ W
    BY <1>2, <2>1 DEF Retires, WithRollback, IsRollback, CoreInv, TypeOK, TablesType
  <2> QED BY <1>2, <2>1, <2>2 DEF Settled, Known, Retires
<1>3. ASSUME ~IsRollback(w), table \subseteq table', history' = history PROVE Known(w)'
  BY <1>3 DEF Settled, Known
<1>4. CASE EngineStep \/ \E t \in Threads : FinishStep(t)
  BY <1>1, <1>2, <1>4, EngineRetires, FinishRetires DEF Settled
<1>5. CASE ~(EngineStep \/ \E t \in Threads : FinishStep(t))
  <2>1. table \subseteq table' /\ history' = history
    BY <1>5 DEF Next, TakeFeedback, SenderCall, Create, Request, GiveUp, LockWorkflow,
                UnlockWorkflow, SkipAction, Answer, Tick, Lose, Crash, vars, tables
  <2> QED BY <1>1, <1>3, <2>1 DEF Settled
<1> QED BY <1>4, <1>5

\* Only a request can let a workflow run that is settled and stopped.
LEMMA StoppedStep ==
  ASSUME CoreInv, [Next]_vars, NEW w \in Settled, Stopped(w),
         \A i \in 1..Len(inbox) : ~Unpausing(inbox[i], w)
  PROVE  Stopped(w)'
<1>1. TypeOK
  BY DEF CoreInv
<1>2. CASE table' \subseteq table /\ paused \subseteq paused'
  BY <1>2 DEF Stopped
<1>3. CASE EngineResume \/ EngineRollback
  <2>1. inbox # <<>> /\ Head(inbox) = inbox[1] /\ 1 \in 1..Len(inbox)
    BY <1>1, <1>3 DEF EngineResume, EngineRollback, Receive, TypeOK
  <2>2. ~Unpausing(Head(inbox), w)
    BY <2>1
  <2>3. CASE EngineResume
    <3>1. paused' = paused \ {Head(inbox).w} /\ Head(inbox).kind = "resume" /\ table' = table
      BY <2>3 DEF EngineResume, Receive
    <3> QED BY <2>2, <3>1 DEF Stopped, Unpausing
  <2>4. CASE EngineRollback
    <3>1. /\ paused' = paused \/ paused' = paused \ {RollbackOf[Head(inbox).w]}
          /\ Head(inbox).kind = "rollback" /\ table' \subseteq table
      BY <2>4 DEF EngineRollback, Receive
    <3> QED BY <2>2, <3>1 DEF Stopped, Unpausing
  <2> QED BY <1>3, <2>3, <2>4
<1>4. CASE EngineStep /\ ~EngineResume /\ ~EngineRollback
  <2>1. table' \subseteq table /\ paused \subseteq paused'
    BY <1>4 DEF EngineStep, EngineRead, EngineClearSkip, EngineSend, EngineTimeOut, EngineFinished,
                EnginePowerOn, EngineRun, EngineAck, EngineStore, EnginePause, EngineDelete, tables
  <2> QED BY <1>2, <2>1
<1>5. ASSUME NEW t \in Threads, FinishStep(t) PROVE Stopped(w)'
  <2>1. table' \subseteq table /\ paused' = paused
    BY <1>5 DEF FinishStep, FinishCount, FinishWrite, FinishDelete, FinishCommit, tables
  <2> QED BY <1>2, <2>1
<1>6. ASSUME NEW s \in Senders, Create(s) PROVE Stopped(w)'
  <2>1. PICK v \in Workflows :
          /\ v \notin table /\ history[v] = "none" /\ ~IsRollback(v)
          /\ table' = table \cup (WithRollback({v}) \cap Workflows)
          /\ paused' = paused \cup CreatedPaused(v)
    BY <1>6 DEF Create
  <2>2. w # v
    BY <2>1 DEF Settled, Known
  <2> QED BY <2>1, <2>2 DEF Stopped, WithRollback, CreatedPaused
<1>7. CASE /\ ~EngineStep /\ ~\E t \in Threads : FinishStep(t)
           /\ ~\E s \in Senders : Create(s)
  <2>1. UNCHANGED <<table, paused>>
    BY <1>7 DEF Next, TakeFeedback, SenderCall, Request, GiveUp, LockWorkflow,
                UnlockWorkflow, SkipAction, Answer, Tick, Lose, Crash, vars, tables
  <2> QED BY <1>2, <2>1
<1> QED BY <1>3, <1>4, <1>5, <1>6, <1>7

-----------------------------------------------------------------------------
(* The queue is in order.                                                  *)

LEMMA QueueStep ==
  ASSUME CoreInv, QueueInv, [Next]_vars
  PROVE  QueueInv'
<1>1. TypeOK /\ calls \in Nat /\ inbox \in Seq(Messages)
  BY DEF CoreInv, TypeOK, GhostsType
<1>2. /\ Settled \subseteq Settled'
      /\ \A i \in 1..Len(inbox) : IsRequest(inbox[i]) => inbox[i].id \in Nat
  <2>1. Settled \subseteq Settled'
    BY SettledStep
  <2>2. ASSUME NEW i \in 1..Len(inbox), IsRequest(inbox[i]) PROVE inbox[i].id \in Nat
    <3>1. inbox[i].id \in 1..MaxCalls
      BY <1>1, <2>2, RequestFields
    <3> QED BY <3>1
  <2> QED BY <2>1, <2>2
<1>3. ASSUME NEW d \in {0, 1}, Shifted(d), calls' = calls PROVE QueueInv'
  <2>1. ASSUME NEW i \in 1..Len(inbox'), IsRequest(inbox'[i])
        PROVE  inbox'[i].id <= calls' /\ inbox'[i].w \in Settled'
    BY <1>2, <1>3, <2>1 DEF Shifted, QueueInv
  <2>2. ASSUME NEW i \in 1..Len(inbox'), NEW j \in 1..Len(inbox'), i < j,
               IsRequest(inbox'[i]), IsRequest(inbox'[j])
        PROVE  inbox'[i].id < inbox'[j].id
    <3>1. /\ i + d \in 1..Len(inbox) /\ inbox'[i] = inbox[i + d]
          /\ j + d \in 1..Len(inbox) /\ inbox'[j] = inbox[j + d]
      BY <1>3, <2>2 DEF Shifted
    <3>2. i + d < j + d
      BY <2>2, <3>1
    <3> QED BY <2>2, <3>1, <3>2 DEF QueueInv, IsRequest
  <2> QED BY <2>1, <2>2 DEF QueueInv, IsRequest
<1>4. ASSUME NEW s \in Senders, NEW k \in Requests, NEW w \in Workflows, AskStep(s, k, w)
      PROVE  QueueInv'
  <2>1. calls' = calls + 1
    BY <1>4 DEF AskStep, Ask
  <2>2. CASE inbox' = inbox
    <3>1. \A n \in Nat : n <= calls => n <= calls'
      BY <1>1, <2>1
    <3> QED BY <1>2, <2>2, <3>1 DEF QueueInv, IsRequest
  <2>3. CASE inbox' # inbox
    <3> DEFINE m == RequestMsg(k, w, calls + 1)
    <3>1. inbox' = Append(inbox, m) /\ w \in table
      BY <1>4, <2>3 DEF AskStep, Ask
    <3>2. m.id = calls + 1 /\ m.w = w /\ w \in Settled'
      BY <1>2, <3>1 DEF RequestMsg, Settled, Known
    <3> HIDE DEF m
    <3>3. Len(inbox') = Len(inbox) + 1
      BY <1>1, <3>1
    <3>4. ASSUME NEW i \in 1..Len(inbox')
          PROVE  \/ i \in 1..Len(inbox) /\ inbox'[i] = inbox[i]
                 \/ i = Len(inbox) + 1 /\ inbox'[i] = m
      BY <1>1, <3>1
    <3>5. ASSUME NEW i \in 1..Len(inbox'), IsRequest(inbox'[i])
          PROVE  inbox'[i].id <= calls' /\ inbox'[i].w \in Settled'
      <4>1. CASE i \in 1..Len(inbox) /\ inbox'[i] = inbox[i]
        <5>1. inbox[i].id \in Nat /\ inbox[i].id <= calls /\ inbox[i].w \in Settled
          BY <1>2, <3>5, <4>1 DEF QueueInv, IsRequest
        <5> QED BY <1>1, <1>2, <2>1, <4>1, <5>1
      <4>2. CASE inbox'[i] = m
        BY <1>1, <2>1, <3>2, <4>2
      <4> QED BY <3>4, <4>1, <4>2
    <3>6. ASSUME NEW i \in 1..Len(inbox'), NEW j \in 1..Len(inbox'), i < j,
                 IsRequest(inbox'[i]), IsRequest(inbox'[j])
          PROVE  inbox'[i].id < inbox'[j].id
      <4>1. i \in 1..Len(inbox) /\ inbox'[i] = inbox[i]
        <5>1. Len(inbox) \in Nat
          BY <1>1
        <5>2. i # Len(inbox) + 1
          BY <3>3, <3>6, <5>1
        <5> QED BY <3>4, <5>2
      <4>2. inbox[i].id \in Nat /\ inbox[i].id <= calls
        BY <1>2, <3>6, <4>1 DEF QueueInv
      <4>3. CASE inbox'[j] = m
        BY <1>1, <3>2, <4>1, <4>2, <4>3
      <4>4. CASE j \in 1..Len(inbox) /\ inbox'[j] = inbox[j]
        BY <3>6, <4>1, <4>4 DEF QueueInv
      <4> QED BY <3>4, <4>3, <4>4
    <3> QED BY <3>5, <3>6 DEF QueueInv, IsRequest
  <2> QED BY <2>2, <2>3
<1>5. CASE EngineStep
  <2>1. calls' = calls /\ \E d \in {0, 1} : Shifted(d)
    BY <1>1, <1>5, EngineShifts
  <2> QED BY <1>3, <2>1
<1>6. CASE Shifted(0) /\ calls' = calls
  BY <1>3, <1>6
<1> QED BY <1>1, <1>4, <1>5, <1>6, StepCases, OthersShift

-----------------------------------------------------------------------------
(* Whoever asked for a deletion or a rollback holds the mutex.             *)

Excludes(m) == m.kind \in {"delete", "rollback"}

\* The message was there, and its caller is left alone.
CarriedOver(i) ==
  \E j \in 1..Len(inbox) :
      /\ inbox'[i] = inbox[j]
      /\ Guarded(inbox[j]) => holder' = holder /\ wait'[holder] = wait[holder] /\ locks' = locks

LEMMA LockKept ==
  ASSUME LockInv, gaveup' = gaveup,
         \A i \in 1..Len(inbox') : Excludes(inbox'[i]) => CarriedOver(i)
  PROVE  LockInv'
<1> SUFFICES ASSUME ~gaveup, NEW i \in 1..Len(inbox'), Excludes(inbox'[i])
             PROVE  /\ holder' \in Senders /\ wait'[holder'].id = inbox'[i].id
                    /\ \A s \in Senders : <<s, inbox'[i].w>> \notin locks'
  BY DEF LockInv, Guarded, Locked, Excludes
<1>1. PICK j \in 1..Len(inbox) :
        /\ inbox'[i] = inbox[j]
        /\ Guarded(inbox[j]) => holder' = holder /\ wait'[holder] = wait[holder] /\ locks' = locks
  BY DEF CarriedOver
<1>2. Guarded(inbox[j])
  BY DEF LockInv
<1> QED BY <1>1, <1>2 DEF Guarded, Locked, Excludes

\* Nothing happens to a request whose caller and whose locks stay as they are.
LEMMA LockUntouched ==
  ASSUME TypeOK, LockInv, NEW d \in {0, 1}, Shifted(d), UNCHANGED <<wait, holder, locks, gaveup>>
  PROVE  LockInv'
<1>1. \A i \in 1..Len(inbox') : Excludes(inbox'[i]) => CarriedOver(i)
  BY DEF Shifted, Excludes, IsRequest, Requests, CarriedOver
<1> QED BY <1>1, LockKept

\* The engine answers the request at the head of the queue: the caller of another one
\* waits on.
LEMMA LockReplied ==
  ASSUME TypeOK, QueueInv, LockInv, inbox # <<>>, IsRequest(Head(inbox)), Shifted(1),
         ReplyTo(Head(inbox).id), gaveup' = gaveup
  PROVE  LockInv'
<1>1. inbox \in Seq(Messages) /\ Head(inbox) = inbox[1] /\ 1 \in 1..Len(inbox)
  BY DEF TypeOK
<1> SUFFICES ASSUME NEW i \in 1..Len(inbox'), Excludes(inbox'[i]) PROVE CarriedOver(i)
  BY LockKept
<1>2. i + 1 \in 1..Len(inbox) /\ inbox'[i] = inbox[i + 1]
  BY DEF Shifted, Excludes, IsRequest, Requests
<1>3. IsRequest(inbox[i + 1])
  BY <1>2 DEF Excludes, IsRequest, Requests
<1>4. 1 < i + 1
  OBVIOUS
<1>5. inbox[1].id < inbox[i + 1].id /\ inbox[1].id \in Nat /\ inbox[i + 1].id \in Nat
  <2>1. \A j \in 1..Len(inbox) : IsRequest(inbox[j]) => inbox[j].id \in Nat
    BY RequestFields
  <2>2. \A j \in 1..Len(inbox) : 1 < j /\ IsRequest(inbox[1]) /\ IsRequest(inbox[j]) =>
            inbox[1].id < inbox[j].id
    BY <1>1 DEF QueueInv
  <2> QED BY <1>1, <1>2, <1>3, <1>4, <2>1, <2>2
<1>6. ASSUME Guarded(inbox[i + 1])
      PROVE  holder' = holder /\ wait'[holder] = wait[holder] /\ locks' = locks
  <2>1. holder \in Senders /\ wait[holder].id = inbox[i + 1].id
    BY <1>2, <1>6 DEF Guarded, Excludes
  <2>2. holder \notin Answered(Head(inbox).id)
    BY <1>1, <1>5, <2>1 DEF Answered
  <2> QED BY <2>1, <2>2 DEF ReplyTo
<1> QED BY <1>2, <1>6 DEF CarriedOver

\* A request function is called.
LEMMA LockAsked ==
  ASSUME CoreInv, LockInv, NEW s \in Senders, NEW k \in Requests, NEW w \in Workflows,
         AskStep(s, k, w)
  PROVE  LockInv'
<1>1. TypeOK /\ inbox \in Seq(Messages) /\ wait \in [Senders -> Waits]
  BY DEF CoreInv, TypeOK, CallersType
<1>2. locks' = locks /\ gaveup' = gaveup /\ wait[s] = NoWait
  BY DEF AskStep, Free
<1>3. CASE UNCHANGED <<inbox, wait, holder, quiet>>
  <2>1. Shifted(0)
    BY <1>1, <1>3, NoRequests, ShiftedBy
  <2> QED BY <1>1, <1>2, <1>3, <2>1, LockUntouched
<1>4. CASE ~UNCHANGED <<inbox, wait, holder, quiet>>
  <2> DEFINE m == RequestMsg(k, w, calls + 1)
  <2>1. /\ inbox' = Append(inbox, m)
        /\ wait' = [wait EXCEPT ![s] = [kind |-> k, w |-> w, id |-> calls + 1]]
        /\ holder' = HolderAfter(s, k)
        /\ Exclusive(k) => holder = None /\ ~Locked(w)
    BY <1>4 DEF AskStep, Ask
  <2>2. m.kind = k /\ m.w = w /\ m.id = calls + 1
    BY DEF RequestMsg
  <2> HIDE DEF m
  <2> SUFFICES ASSUME ~gaveup, NEW i \in 1..Len(inbox'), Excludes(inbox'[i])
               PROVE  /\ holder' \in Senders /\ wait'[holder'].id = inbox'[i].id
                      /\ \A t \in Senders : <<t, inbox'[i].w>> \notin locks'
    BY <1>2 DEF LockInv, Guarded, Locked, Excludes
  <2>3. CASE i \in 1..Len(inbox) /\ inbox'[i] = inbox[i]
    <3>1. Guarded(inbox[i]) /\ IsRequest(inbox[i])
      BY <2>3 DEF LockInv, Excludes, IsRequest, Requests
    <3>2. /\ holder \in Senders /\ wait[holder].id = inbox[i].id
          /\ ~Locked(inbox[i].w) /\ inbox[i].id \in 1..MaxCalls
      BY <1>1, <2>3, <3>1, RequestFields DEF Guarded, Excludes
    <3>3. holder # s
      BY <1>2, <3>2 DEF NoWait
    <3>4. ~Exclusive(k)
      BY <2>1, <3>2
    <3> QED BY <1>1, <1>2, <2>1, <2>3, <3>2, <3>3, <3>4 DEF HolderAfter, Locked
  <2>4. CASE inbox'[i] = m
    <3>1. Exclusive(k)
      BY <2>2, <2>4 DEF Excludes, Exclusive
    <3>2. holder' = s /\ wait'[s].id = calls + 1 /\ ~Locked(w)
      BY <1>1, <2>1, <3>1 DEF HolderAfter
    <3> QED BY <1>2, <2>2, <2>4, <3>2 DEF Locked
  <2>5. (i \in 1..Len(inbox) /\ inbox'[i] = inbox[i]) \/ inbox'[i] = m
    BY <1>1, <2>1
  <2> QED BY <2>3, <2>4, <2>5
<1> QED BY <1>3, <1>4

LEMMA LockStep ==
  ASSUME CoreInv, QueueInv, LockInv, [Next]_vars
  PROVE  LockInv'
<1>1. TypeOK
  BY DEF CoreInv
<1>2. CASE EngineStep
  <2>1. PICK d \in {0, 1} : Shifted(d)
    BY <1>1, <1>2, EngineShifts
  <2>2. gaveup' = gaveup
    BY <1>2 DEF EngineStep, EngineRead, EngineClearSkip, EngineSend, EngineTimeOut, EngineFinished,
         EnginePowerOn, EngineRun, EngineAck, EngineStore, EnginePause, EngineResume,
         EngineDelete, EngineRollback, ghosts
  <2>3. CASE EnginePause \/ EngineResume \/ EngineDelete \/ EngineRollback
    <3>1. inbox # <<>> /\ IsRequest(Head(inbox)) /\ ReplyTo(Head(inbox).id)
      BY <2>3 DEF EnginePause, EngineResume, EngineDelete, EngineRollback, Receive, IsRequest, Requests
    <3>2. Shifted(1)
      <4>1. \/ \E m \in {TimerMsg, WakeupMsg(Head(inbox).w)} : inbox' = Append(Tail(inbox), m)
            \/ inbox' = Tail(inbox) \o <<WakeupMsg(RollbackOf[Head(inbox).w]), TimerMsg>>
        BY <2>3 DEF EnginePause, EngineResume, EngineDelete, EngineRollback
      <4> QED BY <1>1, <3>1, <4>1, NoRequests, ShiftedBy
    <3> QED BY <1>1, <2>2, <3>1, <3>2, LockReplied
  <2>4. CASE ~(EnginePause \/ EngineResume \/ EngineDelete \/ EngineRollback)
    <3>1. UNCHANGED <<wait, holder, locks>>
      BY <1>2, <2>4 DEF EngineStep, EngineRead, EngineClearSkip, EngineSend, EngineTimeOut,
             EngineFinished, EnginePowerOn, EngineRun, EngineAck, EngineStore, callers
    <3> QED BY <1>1, <2>1, <2>2, <3>1, LockUntouched
  <2> QED BY <2>3, <2>4
<1>3. ASSUME NEW s \in Senders, NEW k \in Requests, NEW w \in Workflows, AskStep(s, k, w)
      PROVE  LockInv'
  BY <1>3, LockAsked
<1>4. ASSUME NEW s \in Senders, TakeFeedback(s), Shifted(0), UNCHANGED <<wait, holder>>
      PROVE  LockInv'
  <2>1. UNCHANGED <<locks, gaveup>>
    BY <1>4 DEF TakeFeedback
  <2> QED BY <1>1, <1>4, <2>1, LockUntouched
<1>5. CASE Others
  <2>1. Shifted(0)
    BY <1>1, <1>5, OthersShift
  <2>2. CASE UNCHANGED <<wait, holder, locks, gaveup>>
    BY <1>1, <2>1, <2>2, LockUntouched
  <2>3. CASE Crash
    <3>1. \A i \in 1..Len(inbox') : ~Excludes(inbox'[i])
      BY <2>3 DEF Crash, PowerOnMsg, Excludes
    <3> QED BY <3>1 DEF LockInv, Guarded, Excludes
  <2>4. ASSUME NEW s \in Senders, GiveUp(s) PROVE LockInv'
    BY <2>4 DEF GiveUp, LockInv
  <2>5. ASSUME NEW s \in Senders, LockWorkflow(s) \/ UnlockWorkflow(s) PROVE LockInv'
    <3>1. holder = None /\ inbox' = inbox /\ gaveup' = gaveup
      BY <2>5 DEF LockWorkflow, UnlockWorkflow, ghosts
    <3>2. ~gaveup => \A i \in 1..Len(inbox) : ~Excludes(inbox[i])
      BY <3>1 DEF LockInv, Guarded, Excludes
    <3> QED BY <3>1, <3>2 DEF LockInv, Guarded, Excludes
  <2>6. CASE /\ ~Crash
             /\ ~\E s \in Senders : GiveUp(s) \/ LockWorkflow(s) \/ UnlockWorkflow(s)
    <3>1. UNCHANGED <<wait, holder, locks, gaveup>>
      BY <1>5, <2>6 DEF Others, FinishStep, FinishCount, FinishWrite, FinishDelete, FinishCommit,
             SenderCall, Create, SkipAction, Answer, Tick, Lose, vars, callers, ghosts
    <3> QED BY <2>2, <3>1
  <2> QED BY <2>3, <2>4, <2>5, <2>6
<1> QED BY <1>1, <1>2, <1>3, <1>4, <1>5, StepCases

-----------------------------------------------------------------------------
(* A confirmed pause lasts.                                                *)

LEMMA QuietStep ==
  ASSUME CoreInv, QueueInv, QuietInv, [Next]_vars
  PROVE  QuietInv'
<1>1. TypeOK /\ inbox \in Seq(Messages) /\ quiet \subseteq Workflows
  BY DEF CoreInv, TypeOK, GhostsType
<1>2. \A w \in quiet : w \in Settled' /\ Stopped(w)'
  BY SettledStep, StoppedStep DEF QuietInv
<1>3. \A m, w : Unpausing(m, w) => IsRequest(m)
  BY DEF Unpausing, IsRequest, Requests
<1>4. ASSUME NEW d \in {0, 1}, Shifted(d), NEW w \in quiet, NEW i \in 1..Len(inbox')
      PROVE  ~Unpausing(inbox'[i], w)
  BY <1>3, <1>4 DEF Shifted, QuietInv
<1>5. ASSUME NEW d \in {0, 1}, Shifted(d), quiet' \subseteq quiet PROVE QuietInv'
  <2>1. \A w \in quiet' : \A i \in 1..Len(inbox') : ~Unpausing(inbox'[i], w)
    BY <1>4, <1>5
  <2> QED BY <1>2, <1>5, <2>1 DEF QuietInv, Unpausing
<1>6. CASE EnginePause
  <2> DEFINE m == Head(inbox)
  <2>1. /\ inbox # <<>> /\ m = inbox[1] /\ 1 \in 1..Len(inbox) /\ IsRequest(m)
        /\ inbox' = Append(Tail(inbox), TimerMsg)
    BY <1>1, <1>6 DEF EnginePause, Receive, IsRequest, Requests
  <2>2. Shifted(1)
    BY <1>1, <2>1, NoRequests, ShiftedBy
  <2>3. CASE quiet' = quiet
    BY <1>5, <2>2, <2>3
  <2>4. CASE quiet' = quiet \cup {m.w} /\ ~\E i \in 2..Len(inbox) : Unpausing(inbox[i], m.w)
    <3>1. m.w \in Settled
      BY <2>1 DEF QueueInv
    <3>2. m.w \in Settled'
      BY <3>1, SettledStep
    <3>3. (m.w \in table => m.w \in paused') /\ table' = table
      BY <1>6 DEF EnginePause
    <3>4. ASSUME NEW i \in 1..Len(inbox') PROVE ~Unpausing(inbox'[i], m.w)
      <4>1. SUFFICES ASSUME IsRequest(inbox'[i]) PROVE ~Unpausing(inbox'[i], m.w)
        BY <1>3
      <4>2. i + 1 \in 1..Len(inbox) /\ inbox'[i] = inbox[i + 1]
        BY <2>2, <4>1 DEF Shifted
      <4>3. i + 1 \in 2..Len(inbox)
        BY <1>1, <4>2
      <4> QED BY <2>4, <4>2, <4>3
    <3>5. \A w \in quiet : \A i \in 1..Len(inbox') : ~Unpausing(inbox'[i], w)
      BY <1>4, <2>2
    <3> HIDE DEF m
    <3> QED BY <1>2, <2>4, <3>2, <3>3, <3>4, <3>5 DEF QuietInv, Stopped, Unpausing
  <2> QED BY <1>6, <2>3, <2>4 DEF EnginePause
<1>7. CASE EngineStep /\ ~EnginePause
  <2>1. PICK d \in {0, 1} : Shifted(d)
    BY <1>1, <1>7, EngineShifts
  <2>2. quiet' = quiet
    BY <1>7 DEF EngineStep, EngineRead, EngineClearSkip, EngineSend, EngineTimeOut, EngineFinished,
         EnginePowerOn, EngineRun, EngineAck, EngineStore, EngineResume,
         EngineDelete, EngineRollback, ghosts
  <2> QED BY <1>5, <2>1, <2>2
<1>8. ASSUME NEW s \in Senders, NEW k \in Requests, NEW w \in Workflows, AskStep(s, k, w)
      PROVE  QuietInv'
  <2>1. CASE UNCHANGED <<inbox, wait, holder, quiet>>
    <3>1. Shifted(0)
      BY <1>1, <2>1, NoRequests, ShiftedBy
    <3> QED BY <1>5, <2>1, <3>1
  <2>2. CASE ~UNCHANGED <<inbox, wait, holder, quiet>>
    <3> DEFINE m == RequestMsg(k, w, calls + 1)
    <3>1. /\ inbox' = Append(inbox, m)
          /\ quiet' = quiet \ (CASE k = "resume" -> {w}
                                 [] k = "rollback" -> {RollbackOf[w]}
                                 [] OTHER -> {})
      BY <1>8, <2>2 DEF AskStep, Ask
    <3>2. m.kind = k /\ m.w = w
      BY DEF RequestMsg
    <3>3. quiet' \subseteq quiet /\ \A v \in quiet' : ~Unpausing(m, v)
      BY <3>1, <3>2 DEF Unpausing
    <3> HIDE DEF m
    <3>4. \A i \in 1..Len(inbox') : (i \in 1..Len(inbox) /\ inbox'[i] = inbox[i]) \/ inbox'[i] = m
      BY <1>1, <3>1
    <3>5. \A v \in quiet' : \A i \in 1..Len(inbox') : ~Unpausing(inbox'[i], v)
      BY <3>3, <3>4 DEF QuietInv
    <3> QED BY <1>2, <3>3, <3>5 DEF QuietInv, Unpausing
  <2> QED BY <2>1, <2>2
<1>9. CASE Shifted(0) /\ quiet' = quiet
  BY <1>5, <1>9
<1> QED BY <1>1, <1>6, <1>7, <1>8, <1>9, StepCases, OthersShift

\* No step lets the engine send a request of a workflow whose pause was confirmed.
LEMMA PausedStep ==
  ASSUME CoreInv, QuietInv, PausedIsQuiet, [Next]_vars
  PROVE  PausedIsQuiet'
<1>1. TypeOK
  BY DEF CoreInv
<1>2. CASE pc' \notin {"clear", "send"}
  BY <1>2 DEF PausedIsQuiet
<1>3. CASE UNCHANGED <<pc, cur>> /\ quiet' \subseteq quiet
  BY <1>3 DEF PausedIsQuiet
<1>4. CASE EngineRead
  <2>1. PICK a \in todo :
          IF InPool(a) /\ FlowOf[a] \notin paused /\ a \notin finished
          THEN DoAction(Row(a), mode)
          ELSE UNCHANGED <<pc, cur, mailbox, fin>>
    BY <1>4 DEF EngineRead
  <2>2. pc = "run" /\ quiet' = quiet /\ a \in Actions
    BY <1>1, <1>4 DEF EngineRead, ghosts, TypeOK, EngineType
  <2>3. CASE InPool(a) /\ FlowOf[a] \notin paused /\ a \notin finished
    <3>1. cur'.a = a
      BY <1>1, <2>1, <2>2, <2>3, RowType, DoActionCases
    <3>2. FlowOf[a] \notin quiet
      BY <2>3 DEF InPool, QuietInv, Stopped
    <3> QED BY <2>2, <3>1, <3>2 DEF PausedIsQuiet
  <2>4. CASE ~(InPool(a) /\ FlowOf[a] \notin paused /\ a \notin finished)
    BY <1>2, <2>1, <2>2, <2>4
  <2> QED BY <2>3, <2>4
<1>5. CASE EngineClearSkip
  <2>1. pc = "clear" /\ UNCHANGED <<cur, quiet>>
    BY <1>5 DEF EngineClearSkip, ghosts
  <2> QED BY <2>1 DEF PausedIsQuiet
<1>6. CASE EngineStore
  <2>1. cur \in RowCopies /\ DoAction(cur, "ack")
    BY <1>1, <1>6 DEF EngineStore, TypeOK, EngineType
  <2> QED BY <1>2, <2>1, DoActionCases DEF EngineFinishes, EngineReports
<1>7. CASE EngineSend \/ EngineTimeOut \/ EngineFinished \/ EngineAck
  BY <1>2, <1>7 DEF EngineSend, EngineTimeOut, Report, EngineFinished, EngineAck, Receive, Resting
<1>8. CASE EnginePowerOn \/ EngineRun \/ EnginePause \/ EngineResume \/ EngineDelete \/ EngineRollback
  BY <1>2, <1>8 DEF EnginePowerOn, EngineRun, EnginePause, EngineResume, EngineDelete,
                    EngineRollback, Receive, Resting, engine
<1>9. ASSUME NEW s \in Senders, NEW k \in Requests, NEW w \in Workflows, AskStep(s, k, w)
      PROVE  PausedIsQuiet'
  <2>1. UNCHANGED <<pc, cur>> /\ quiet' \subseteq quiet
    BY <1>9 DEF AskStep, Ask
  <2> QED BY <1>3, <2>1
<1>10. ASSUME NEW s \in Senders, TakeFeedback(s), quiet' = quiet PROVE PausedIsQuiet'
  BY <1>3, <1>10 DEF TakeFeedback, engine
<1>11. CASE Others
  <2>1. quiet' = quiet
    BY <1>1, <1>11, OthersShift
  <2>2. CASE Crash
    BY <1>2, <2>2 DEF Crash
  <2>3. CASE ~Crash
    <3>1. UNCHANGED <<pc, cur>>
      BY <1>11, <2>3 DEF Others, FinishStep, FinishCount, FinishWrite, FinishDelete, FinishCommit,
             SenderCall, Create, GiveUp, LockWorkflow, UnlockWorkflow, SkipAction, Answer, Tick,
             Lose, vars, engine
    <3> QED BY <1>3, <2>1, <3>1
  <2> QED BY <2>2, <2>3
<1> QED BY <1>1, <1>4, <1>5, <1>6, <1>7, <1>8, <1>9, <1>10, <1>11, StepCases DEF EngineStep

-----------------------------------------------------------------------------
(* The theorems.                                                           *)

\* The order of the requests, the mutex and the pauses, in every behaviour.
THEOREM CallInvariant == Spec => []CallInv
<1>1. Init => CallInv
  <2> SUFFICES ASSUME Init PROVE QueueInv /\ LockInv /\ QuietInv /\ PausedIsQuiet
    BY WorkflowInit DEF CallInv
  <2>1. inbox = <<PowerOnMsg>> /\ quiet = {} /\ pc = "run" /\ PowerOnMsg.kind = "poweron"
    BY DEF Init, PowerOnMsg
  <2> QED BY <2>1 DEF QueueInv, IsRequest, Requests, LockInv, Guarded, QuietInv, PausedIsQuiet
<1>2. CallInv /\ [Next]_vars => CallInv'
  BY WorkflowStep, QueueStep, LockStep, QuietStep, PausedStep DEF CallInv
<1> QED BY <1>1, <1>2, PTL DEF Spec

\* After PauseWorkflow has returned successfully no request of the workflow is sent
\* until somebody resumes it or rolls back what it undoes (PauseWorkflow, engine.cpp:1056).
THEOREM PausedCorrect == Spec => []PausedIsQuiet
<1>1. CallInv => PausedIsQuiet
  BY DEF CallInv
<1> QED BY <1>1, CallInvariant, PTL

\* The engine does not remove a locked workflow for a caller of DeleteWorkflow or
\* RollbackWorkflow unless a caller has given up waiting (IsLockWorkflow,
\* engine.cpp:1134).
THEOREM LockedCorrect == Spec => LockedKept
<1>1. CallInv /\ [Next]_vars => [\A w \in table \ table' :
            history'[w] # "none" /\ w \notin closed' /\ ~gaveup => ~Locked(w)]_vars
  <2> SUFFICES ASSUME CallInv, [Next]_vars, NEW w \in table \ table',
                      history'[w] # "none", w \notin closed', ~gaveup
               PROVE  ~Locked(w)
    OBVIOUS
  <2>1. TypeOK /\ w \in Workflows /\ history[w] = "none"
    BY DEF CallInv, CoreInv, TypeOK, TablesType, TablesInv
  <2>2. CASE EngineDelete \/ EngineRollback
    <3>1. /\ inbox # <<>> /\ Excludes(Head(inbox)) /\ w = Head(inbox).w
      BY <2>1, <2>2 DEF EngineDelete, EngineRollback, Receive, Excludes, TypeOK, TablesType
    <3>2. Head(inbox) = inbox[1] /\ 1 \in 1..Len(inbox)
      BY <2>1, <3>1 DEF TypeOK
    <3> QED BY <3>1, <3>2 DEF CallInv, LockInv, Guarded, Excludes
  <2>3. CASE EnginePowerOn
    BY <2>1, <2>3 DEF EnginePowerOn
  <2>4. ASSUME NEW t \in Threads, FinishStep(t) PROVE FALSE
    BY <2>1, <2>4 DEF FinishStep, FinishCount, FinishWrite, FinishDelete, FinishCommit, tables,
                      TypeOK, TablesType
  <2>5. CASE /\ ~EngineDelete /\ ~EngineRollback /\ ~EnginePowerOn
             /\ ~\E t \in Threads : FinishStep(t)
    <3>1. history' = history
      BY <2>5 DEF Next, EngineStep, EngineRead, EngineClearSkip, EngineSend, EngineTimeOut,
             EngineFinished, EngineRun, EngineAck, EngineStore, EnginePause, EngineResume,
             TakeFeedback, SenderCall, Create, Request, GiveUp, LockWorkflow,
             UnlockWorkflow, SkipAction, Answer, Tick, Lose, Crash, vars, tables
    <3> QED BY <2>1, <3>1
  <2> QED BY <2>2, <2>3, <2>4, <2>5
<1> QED BY <1>1, CallInvariant, PTL DEF Spec, LockedKept

-----------------------------------------------------------------------------
(* Actions that become ready are woken.                                    *)

\* No sender ends an action inside a transaction of its own: the wakeup of such a
\* FinishAction is sent before the caller commits, so that the engine may look too early.
NoTransactions == \A o \in Outcomes : "finishTx" \notin Replies[o]

\* The messages in the queue, and whether one of them makes the engine look at w.
InQueue == {inbox[i] : i \in 1..Len(inbox)}
Looked(w) == InQueue \cap {PowerOnMsg, TimerMsg, WakeupMsg(w)} # {}

\* The engine will come to a without a message: it is on its list or in its hands, or
\* the engine will wake itself for the workflow of a.
InWork(a) ==
  \/ a \in todo
  \/ pc = "finish" /\ FlowOf[cur.a] = FlowOf[a]
  \/ pc \in {"clear", "send"} /\ cur.a = a

Removing(w) == \E t \in Threads : fin[t].at = "delete" /\ FlowOf[fin[t].a] = w
Awaited(a) == Looked(FlowOf[a]) \/ InWork(a) \/ Removing(FlowOf[a])

\* The actions that are ready and were never requested.
Fresh == {a \in RunningActions(Workflows) : state[a] = "ready" /\ repeat[a] = 0}

\* The engine calls FinishAction only where it waits for it, and no call of it is
\* inside a transaction.
PlainCalls ==
  /\ fin[Engine] # NoCall => pc = "finish"
  /\ \A t \in Threads : fin[t].tx = FALSE /\ fin[t].at # "commit"

\* An answer never makes an action ready again.
StoredInv == pc = "store" => cur.state # "ready"

\* The inductive invariant: an answer is handled when the list of Run is empty, so that
\* no ready action on the list is passed over because of it.
WokenInv ==
  /\ \A a \in Fresh : Awaited(a)
  /\ mode = "ack" => todo = {}
  /\ PlainCalls
  /\ StoredInv

\* A running action, field by field.
LEMMA FreshFields ==
  ASSUME TypeOK
  PROVE  \A a : a \in Fresh <=>
           /\ a \in Actions /\ FlowOf[a] \in table /\ FlowOf[a] \notin paused
           /\ a \notin finished /\ ReadyAction(a) /\ state[a] = "ready" /\ repeat[a] = 0
BY DEF Fresh, RunningActions, TypeOK, TablesType

\* No action becomes ready unless one is finished or a workflow starts to run.
LEMMA NotFresher ==
  ASSUME TypeOK, TypeOK', table' \subseteq table, paused \subseteq paused', finished' = finished,
         NEW b \in Fresh', state'[b] = state[b] \/ state[b] = "ready",
         repeat'[b] = repeat[b] \/ repeat[b] = 0
  PROVE  b \in Fresh
<1>1. /\ b \in Actions /\ FlowOf[b] \in table' /\ FlowOf[b] \notin paused'
      /\ b \notin finished' /\ ReadyAction(b)' /\ state'[b] = "ready" /\ repeat'[b] = 0
  BY FreshFields DEF Fresh, RunningActions, TypeOK, TablesType
<1>2. ReadyAction(b)
  BY <1>1 DEF ReadyAction
<1> QED BY <1>1, <1>2, FreshFields

\* A witness that a step leaves alone is still one.
LEMMA AwaitedKept ==
  ASSUME NEW a \in Actions, Awaited(a),
         Looked(FlowOf[a]) => Looked(FlowOf[a])' \/ InWork(a)' \/ Removing(FlowOf[a])',
         InWork(a) => Looked(FlowOf[a])' \/ InWork(a)',
         Removing(FlowOf[a]) => Removing(FlowOf[a])'
  PROVE  Awaited(a)'
BY DEF Awaited

\* The queue after a message was added, or the first one taken.
LEMMA QueueMoves ==
  ASSUME TypeOK, NEW m, NEW n
  PROVE  /\ inbox' = inbox => InQueue' = InQueue
         /\ inbox' = Append(inbox, m) => InQueue' = InQueue \cup {m}
         /\ /\ inbox # <<>>
            /\ \/ inbox' = Tail(inbox)
               \/ inbox' = Append(Tail(inbox), m)
               \/ inbox' = Tail(inbox) \o <<n, m>>
            => InQueue \subseteq InQueue' \cup {Head(inbox)}
         /\ inbox # <<>> /\ inbox' = Append(Tail(inbox), m) => m \in InQueue'
         /\ inbox # <<>> /\ inbox' = Tail(inbox) \o <<n, m>> => n \in InQueue'
<1>0. inbox \in Seq(Messages)
  BY DEF TypeOK
<1>1. ASSUME inbox' = Append(inbox, m) PROVE InQueue' = InQueue \cup {m}
  <2>1. /\ Len(inbox') = Len(inbox) + 1 /\ Len(inbox) \in Nat
        /\ \A i \in 1..Len(inbox) : inbox'[i] = inbox[i]
        /\ inbox'[Len(inbox) + 1] = m
    BY <1>0, <1>1
  <2>2. 1..Len(inbox') = 1..Len(inbox) \cup {Len(inbox) + 1}
    BY <2>1
  <2>3. ASSUME NEW x \in InQueue' PROVE x \in InQueue \cup {m}
    <3>1. PICK i \in 1..Len(inbox') : x = inbox'[i]
      BY DEF InQueue
    <3>2. CASE i \in 1..Len(inbox)
      BY <2>1, <3>1, <3>2 DEF InQueue
    <3>3. CASE i = Len(inbox) + 1
      BY <2>1, <3>1, <3>3
    <3> QED BY <2>2, <3>2, <3>3
  <2>4. \A x \in InQueue \cup {m} : x \in InQueue'
    BY <2>1, <2>2 DEF InQueue
  <2> QED BY <2>3, <2>4
<1>2. ASSUME inbox # <<>>,
             \/ inbox' = Tail(inbox)
             \/ inbox' = Append(Tail(inbox), m)
             \/ inbox' = Tail(inbox) \o <<n, m>>
      PROVE  InQueue \subseteq InQueue' \cup {Head(inbox)}
  <2> SUFFICES ASSUME NEW x \in InQueue, x # Head(inbox)
               PROVE  x \in InQueue'
    OBVIOUS
  <2>0. PICK i \in 1..Len(inbox) : x = inbox[i]
    BY DEF InQueue
  <2>1. i - 1 \in 1..Len(Tail(inbox)) /\ Tail(inbox)[i - 1] = inbox[i]
    BY <1>0, <1>2, <2>0
  <2>2. i - 1 \in 1..Len(inbox') /\ inbox'[i - 1] = inbox[i]
    <3>1. Tail(inbox) \in Seq(Messages)
      BY <1>0, <1>2
    <3>2. CASE inbox' = Tail(inbox)
      BY <2>1, <3>2
    <3>3. CASE inbox' = Append(Tail(inbox), m)
      BY <2>1, <3>1, <3>3
    <3>4. CASE inbox' = Tail(inbox) \o <<n, m>>
      BY <2>1, <3>1, <3>4
    <3> QED BY <1>2, <3>2, <3>3, <3>4
  <2> QED BY <2>0, <2>2 DEF InQueue
<1>3. ASSUME inbox # <<>>, inbox' = Append(Tail(inbox), m) PROVE m \in InQueue'
  <2>1. Len(inbox') = Len(inbox) /\ inbox'[Len(inbox)] = m /\ Len(inbox) \in 1..Len(inbox)
    BY <1>0, <1>3
  <2> QED BY <2>1 DEF InQueue
<1>4. ASSUME inbox # <<>>, inbox' = Tail(inbox) \o <<n, m>> PROVE n \in InQueue'
  <2>1. Len(inbox') = Len(inbox) + 1 /\ inbox'[Len(inbox)] = n /\ Len(inbox) \in 1..Len(inbox')
    BY <1>0, <1>4
  <2> QED BY <2>1 DEF InQueue
<1>5. inbox' = inbox => InQueue' = InQueue
  BY DEF InQueue
<1> QED BY <1>1, <1>2, <1>3, <1>4, <1>5

LEMMA QueueGrows ==
  ASSUME TypeOK, \E m : inbox' = inbox \/ inbox' = Append(inbox, m)
  PROVE  InQueue \subseteq InQueue'
<1>1. PICK m : inbox' = inbox \/ inbox' = Append(inbox, m)
  OBVIOUS
<1>2. CASE inbox' = inbox
  BY <1>2 DEF InQueue
<1>3. CASE inbox' = Append(inbox, m)
  <2>1. InQueue' = InQueue \cup {m}
    BY <1>3, QueueMoves
  <2> QED BY <2>1
<1> QED BY <1>1, <1>2, <1>3

\* What makes the engine look at a workflow stays in the queue, unless it is taken.
LEMMA LookedKept ==
  ASSUME NEW w, Looked(w)
  PROVE  /\ InQueue \subseteq InQueue' => Looked(w)'
         /\ /\ InQueue \subseteq InQueue' \cup {Head(inbox)}
            /\ Head(inbox).kind \notin {"poweron", "timer", "wakeup"}
            => Looked(w)'
<1>1. PICK m \in InQueue : m \in {PowerOnMsg, TimerMsg, WakeupMsg(w)}
  BY DEF Looked
<1>2. m.kind \in {"poweron", "timer", "wakeup"}
  BY <1>1 DEF PowerOnMsg, TimerMsg, WakeupMsg
<1>3. m \in InQueue' => Looked(w)'
  BY <1>1 DEF Looked
<1> QED BY <1>2, <1>3

\* A removal under way goes on, whatever another thread does.
LEMMA RemovingKept ==
  ASSUME TypeOK, NEW t \in Threads, NEW r, fin' = [fin EXCEPT ![t] = r],
         NEW w, fin[t].at # "delete" \/ FlowOf[fin[t].a] # w
  PROVE  Removing(w) => Removing(w)'
<1>1. \A u \in Threads : u # t => fin'[u] = fin[u]
  BY DEF TypeOK, CallersType
<1> QED BY <1>1 DEF Removing

\* A call after it has counted, and after the writes of the last action.
Counted(t) ==
  [fin[t] EXCEPT !.at = IF fin[t].tx THEN "commit" ELSE "write",
                 !.count = GetUnfinishedActionsCount(FlowOf[fin[t].a]),
                 !.verdict = IF fin[t].tx THEN VerdictTx(fin[t].a) ELSE "none"]
Deleting(t) == [fin[t] EXCEPT !.at = "delete"]

\* The three ways a call of FinishAction goes on: it returns, it goes on to its writes,
\* or it goes on to remove the workflow.
FinishMove(t, c) ==
  /\ fin' = [fin EXCEPT ![t] = c]
  /\ \/ c = NoCall
     \/ FinishCount(t) /\ InPool(fin[t].a) /\ c = Counted(t)
     \/ FinishWrite(t) /\ fin[t].count = 1 /\ c = Deleting(t)

LEMMA CallFields ==
  ASSUME TypeOK, NEW t \in Threads
  PROVE  /\ Counted(t).a = fin[t].a /\ Counted(t).tx = fin[t].tx
         /\ fin[t].tx = TRUE => Counted(t).at = "commit"
         /\ fin[t].tx = FALSE => Counted(t).at = "write"
         /\ Counted(t).count = GetUnfinishedActionsCount(FlowOf[fin[t].a])
         /\ fin[t].tx = TRUE => Counted(t).verdict = VerdictTx(fin[t].a)
         /\ Deleting(t).a = fin[t].a /\ Deleting(t).tx = fin[t].tx
         /\ Deleting(t).at = "delete" /\ Deleting(t).count = fin[t].count
<1>1. fin[t] \in FinCalls
  BY DEF TypeOK, CallersType
<1> QED BY <1>1 DEF Counted, Deleting, FinCalls

\* A step of FinishAction changes the call of its own thread, in one of three ways.
LEMMA FinishMoves ==
  ASSUME TypeOK, NEW t \in Threads, FinishStep(t)
  PROVE  /\ fin[t].at # "none"
         /\ \E c : FinishMove(t, c)
<1> DEFINE a == fin[t].a
           n == GetUnfinishedActionsCount(FlowOf[a])
<1>0. fin \in [Threads -> FinCalls] /\ fin[t] \in FinCalls
  BY DEF TypeOK, CallersType
<1>1. fin[t].at # "none"
  BY DEF FinishStep, FinishCount, FinishWrite, FinishDelete, FinishCommit
<1>2. ASSUME fin' = [fin EXCEPT ![t] = NoCall] PROVE \E c : FinishMove(t, c)
  <2>1. FinishMove(t, NoCall)
    BY <1>2 DEF FinishMove
  <2> QED BY <2>1
<1>3. CASE FinishCount(t)
  <2>1. CASE ~InPool(a) \/ n = 0
    BY <1>2, <1>3, <2>1 DEF FinishCount
  <2>2. CASE ~(~InPool(a) \/ n = 0)
    <3>1. fin' = [fin EXCEPT ![t].at = IF fin[t].tx THEN "commit" ELSE "write",
                             ![t].count = n,
                             ![t].verdict = IF fin[t].tx THEN VerdictTx(a) ELSE "none"]
      BY <1>3, <2>2 DEF FinishCount
    <3>2. fin' = [fin EXCEPT ![t] = Counted(t)]
      BY <1>0, <3>1 DEF Counted
    <3>3. FinishMove(t, Counted(t))
      BY <1>3, <2>2, <3>2 DEF FinishMove
    <3> QED BY <1>1, <3>3
  <2> QED BY <2>1, <2>2
<1>4. CASE FinishWrite(t)
  <2>1. CASE fin[t].count = 1
    <3>1. fin' = [fin EXCEPT ![t].at = "delete"]
      BY <1>4, <2>1 DEF FinishWrite
    <3>2. fin' = [fin EXCEPT ![t] = Deleting(t)]
      BY <1>0, <3>1 DEF Deleting
    <3>3. FinishMove(t, Deleting(t))
      BY <1>4, <2>1, <3>2 DEF FinishMove
    <3> QED BY <1>1, <3>3
  <2>2. CASE fin[t].count # 1
    BY <1>2, <1>4, <2>2 DEF FinishWrite
  <2> QED BY <2>1, <2>2
<1>5. CASE FinishDelete(t) \/ FinishCommit(t)
  BY <1>2, <1>5 DEF FinishDelete, FinishCommit
<1>6. \E c : FinishMove(t, c)
  BY <1>3, <1>4, <1>5 DEF FinishStep
<1> QED BY <1>1, <1>6

\* DoAction lays its hands on an action that is ready, unless it handles an answer.
LEMMA FreshTaken ==
  ASSUME TypeOK, NEW a \in Fresh, mode # "ack", DoAction(Row(a), mode)
  PROVE  InWork(a)'
<1>1. a \in Actions /\ state[a] = "ready" /\ repeat[a] = 0
  BY FreshFields
<1>2. Row(a).a = a /\ Row(a).state = "ready" /\ Row(a).repeat = 0 /\ Row(a) \in RowCopies
  BY <1>1, RowType DEF Row
<1>3. GetActionState(Row(a)) = "ready"
  <2>1. Limit[a] \in Nat
    BY <1>1
  <2> QED BY <1>2, <2>1 DEF GetActionState
<1>4. ~Ignored("ready", mode)
  BY DEF Ignored
<1>5. cur' = Row(a) /\ pc' \in {"finish", "clear", "send"}
  BY <1>3, <1>4 DEF DoAction
<1> QED BY <1>2, <1>5 DEF InWork

\* What the engine does with the action in its hands.
LEMMA HandWoken ==
  ASSUME TypeOK, TypeOK', WokenInv,
         \/ EngineRead \/ EngineClearSkip \/ EngineSend \/ EngineTimeOut \/ EngineFinished
         \/ EngineStore
  PROVE  \A b \in Fresh' : Awaited(b)'
<1> SUFFICES ASSUME NEW b \in Fresh' PROVE Awaited(b)'
  OBVIOUS
<1> USE DEF WokenInv
<1>0. b \in Actions
  BY DEF Fresh, RunningActions
<1>1. UNCHANGED <<table, paused, finished>>
  BY DEF EngineRead, EngineClearSkip, EngineSend, EngineTimeOut, EngineFinished, EngineStore,
         tables
<1>2. ASSUME UNCHANGED <<state, repeat>> PROVE b \in Fresh /\ Awaited(b)
  <2>1. b \in Fresh
    BY <1>1, <1>2, NotFresher
  <2> QED BY <2>1
<1>3. CASE EngineRead
  <2>1. PICK a \in todo :
          /\ todo' = todo \ {a}
          /\ IF InPool(a) /\ FlowOf[a] \notin paused /\ a \notin finished
             THEN DoAction(Row(a), mode)
             ELSE UNCHANGED <<pc, cur, mailbox, fin>>
    BY <1>3 DEF EngineRead
  <2>2. UNCHANGED <<state, repeat, inbox, mode>> /\ pc = "run" /\ mode # "ack" /\ a \in Actions
    BY <1>3, <2>1 DEF EngineRead, tables, TypeOK, EngineType
  <2>3. b \in Fresh /\ Awaited(b) /\ InQueue' = InQueue
    BY <1>2, <2>2, QueueMoves
  <2>4. CASE b = a
    <3>1. InPool(a) /\ FlowOf[a] \notin paused /\ a \notin finished
      BY <2>3, <2>4, FreshFields DEF InPool
    <3>2. InWork(a)'
      BY <2>1, <2>2, <2>3, <2>4, <3>1, FreshTaken
    <3> QED BY <2>4, <3>2 DEF Awaited
  <2>5. CASE b # a
    <3>1. InWork(b) => InWork(b)'
      BY <2>1, <2>2, <2>5 DEF InWork
    <3>2. fin' = fin \/ fin' = [fin EXCEPT ![Engine] = FinishCall(a, FALSE)]
      <4>1. Row(a) \in RowCopies /\ Row(a).a = a
        BY <2>2, RowType
      <4> QED BY <2>1, <4>1, DoActionCases DEF EngineFinishes, EngineReports
    <3>3. fin[Engine].at # "delete"
      BY <2>2 DEF PlainCalls, NoCall
    <3>4. Removing(FlowOf[b]) => Removing(FlowOf[b])'
      <4>1. CASE fin' = fin
        BY <4>1 DEF Removing
      <4>2. CASE fin' = [fin EXCEPT ![Engine] = FinishCall(a, FALSE)]
        BY <3>3, <4>2, RemovingKept DEF Threads
      <4> QED BY <3>2, <4>1, <4>2
    <3> QED BY <1>0, <2>3, <3>1, <3>4, AwaitedKept, LookedKept
  <2> QED BY <2>4, <2>5
<1>4. CASE EngineClearSkip
  <2>1. /\ UNCHANGED <<state, repeat, inbox, todo, cur, fin>>
        /\ pc = "clear" /\ pc' = "send"
    BY <1>4 DEF EngineClearSkip, callers
  <2>2. Awaited(b) /\ InQueue' = InQueue
    BY <1>2, <2>1, QueueMoves
  <2>3. InWork(b) => InWork(b)'
    BY <2>1 DEF InWork
  <2>4. Removing(FlowOf[b]) => Removing(FlowOf[b])'
    BY <2>1 DEF Removing
  <2> QED BY <1>0, <2>2, <2>3, <2>4, AwaitedKept, LookedKept
<1>5. CASE EngineSend
  <2>1. /\ UNCHANGED <<state, inbox, todo, cur, fin>>
        /\ pc = "send" /\ pc' = "run" /\ cur \in RowCopies
        /\ repeat' = IF InPool(cur.a) THEN [repeat EXCEPT ![cur.a] = CountUp(cur.repeat)]
                     ELSE repeat
    BY <1>5 DEF EngineSend, callers, TypeOK, EngineType
  <2>2. CountUp(cur.repeat) # 0
    <3>1. cur.repeat \in Nat /\ cur.repeat <= MaxRepeat /\ MaxRepeat \in Nat /\ MaxRepeat # 0
      BY <2>1 DEF RowCopies
    <3> QED BY <3>1 DEF CountUp
  <2>3. repeat'[b] = 0 /\ FlowOf[b] \in table
    BY <1>1 DEF Fresh, RunningActions
  <2>4. b # cur.a
    <3> SUFFICES ASSUME b = cur.a PROVE FALSE
      OBVIOUS
    <3>1. repeat'[b] = CountUp(cur.repeat)
      BY <1>0, <2>1, <2>3 DEF InPool, TypeOK, TablesType
    <3> QED BY <2>2, <2>3, <3>1
  <2>5. repeat'[b] = repeat[b]
    BY <1>0, <2>1, <2>4 DEF TypeOK, TablesType
  <2>6. b \in Fresh /\ InQueue' = InQueue
    BY <1>1, <2>1, <2>5, NotFresher, QueueMoves
  <2>7. InWork(b) => InWork(b)'
    BY <2>1, <2>4 DEF InWork
  <2>8. Removing(FlowOf[b]) => Removing(FlowOf[b])'
    BY <2>1 DEF Removing
  <2> QED BY <1>0, <2>6, <2>7, <2>8, AwaitedKept, LookedKept
<1>6. CASE EngineTimeOut \/ EngineStore
  <2>1. /\ UNCHANGED <<repeat, inbox, todo>> /\ pc \in {"time", "store"} /\ cur \in RowCopies
        /\ \/ fin' = fin
           \/ fin' = [fin EXCEPT ![Engine] = FinishCall(cur.a, FALSE)]
    <3>1. UNCHANGED <<repeat, inbox, todo>> /\ pc \in {"time", "store"} /\ cur \in RowCopies
      BY <1>6 DEF EngineTimeOut, EngineStore, TypeOK, EngineType
    <3>2. CASE EngineTimeOut
      BY <3>1, <3>2 DEF EngineTimeOut, Report
    <3>3. CASE EngineStore
      BY <3>1, <3>3, DoActionCases DEF EngineStore, EngineFinishes, EngineReports
    <3> QED BY <1>6, <3>1, <3>2, <3>3
  <2>2. b \in Fresh /\ InQueue' = InQueue
    <3>1. \E st : state' = [state EXCEPT ![cur.a] = st] \/ state' = state
      BY <1>6 DEF EngineTimeOut, EngineStore
    <3>2. state'[b] = state[b] \/ b = cur.a
      BY <1>0, <3>1 DEF TypeOK, TablesType
    <3>3. state'[b] = "ready" /\ FlowOf[b] \in table
      BY <1>1 DEF Fresh, RunningActions
    <3>4. state[b] = "ready" \/ state'[b] = state[b]
      <4> SUFFICES ASSUME b = cur.a PROVE state[b] = "ready" \/ state'[b] = state[b]
        BY <3>2
      <4>1. CASE EngineTimeOut
        <5>1. state'[b] = "timeout"
          BY <1>0, <3>3, <4>1 DEF EngineTimeOut, InPool, TypeOK, TablesType
        <5> QED BY <3>3, <5>1
      <4>2. CASE EngineStore
        <5>1. state'[b] = cur.state
          BY <1>0, <3>3, <4>2 DEF EngineStore, InPool, TypeOK, TablesType
        <5>2. cur.state # "ready"
          BY <4>2 DEF EngineStore, StoredInv
        <5> QED BY <3>3, <5>1, <5>2
      <4> QED BY <1>6, <4>1, <4>2
    <3> QED BY <1>1, <2>1, <3>4, NotFresher, QueueMoves
  <2>3. InWork(b) => InWork(b)'
    BY <2>1 DEF InWork
  <2>4. fin[Engine].at # "delete"
    BY <2>1 DEF PlainCalls, NoCall
  <2>5. Removing(FlowOf[b]) => Removing(FlowOf[b])'
    <3>1. CASE fin' = fin
      BY <3>1 DEF Removing
    <3>2. CASE fin' = [fin EXCEPT ![Engine] = FinishCall(cur.a, FALSE)]
      BY <2>4, <3>2, RemovingKept DEF Threads
    <3> QED BY <2>1, <3>1, <3>2
  <2> QED BY <1>0, <2>2, <2>3, <2>5, AwaitedKept, LookedKept
<1>7. CASE EngineFinished
  <2>1. /\ UNCHANGED <<state, repeat, todo, cur, fin>> /\ pc = "finish"
        /\ inbox' = Append(inbox, WakeupMsg(FlowOf[cur.a]))
    BY <1>7 DEF EngineFinished, tables, callers
  <2>2. Awaited(b) /\ InQueue' = InQueue \cup {WakeupMsg(FlowOf[cur.a])}
    BY <1>2, <2>1, QueueMoves
  <2>3. InWork(b) => Looked(FlowOf[b])' \/ InWork(b)'
    <3>1. FlowOf[cur.a] = FlowOf[b] => Looked(FlowOf[b])'
      BY <2>2 DEF Looked
    <3> QED BY <2>1, <3>1 DEF InWork
  <2>4. Removing(FlowOf[b]) => Removing(FlowOf[b])'
    BY <2>1 DEF Removing
  <2> QED BY <1>0, <2>2, <2>3, <2>4, AwaitedKept, LookedKept
<1> QED BY <1>3, <1>4, <1>5, <1>6, <1>7

\* What the engine does with a message that makes it list the running actions.
LEMMA ListWoken ==
  ASSUME TypeOK, TypeOK', WokenInv, EnginePowerOn \/ EngineRun
  PROVE  \A b \in Fresh' : Awaited(b)'
<1> SUFFICES ASSUME NEW b \in Fresh' PROVE Awaited(b)'
  OBVIOUS
<1>0. b \in Actions /\ FlowOf[b] \in table'
  BY DEF Fresh, RunningActions
<1>1. /\ UNCHANGED <<paused, finished, state, repeat, pc, cur, fin>> /\ pc = "run" /\ todo = {}
      /\ inbox # <<>> /\ inbox' = Tail(inbox) /\ table' \subseteq table
  BY DEF EnginePowerOn, EngineRun, Receive, Resting, tables, callers
<1>2. b \in Fresh /\ Awaited(b)
  <2>1. b \in Fresh
    BY <1>1, NotFresher
  <2> QED BY <2>1 DEF WokenInv
<1>3. ~InWork(b)
  BY <1>1 DEF InWork
<1>4. Removing(FlowOf[b]) => Removing(FlowOf[b])'
  BY <1>1 DEF Removing
<1>5. InQueue \subseteq InQueue' \cup {Head(inbox)} /\ Head(inbox) \in Messages
  <2>1. Head(inbox) \in Messages
    BY <1>1 DEF TypeOK
  <2> QED BY <1>1, <2>1, QueueMoves
<1>6. b \in RunningActions(Workflows) /\ FlowOf[b] \in Workflows
  BY <1>0, <1>2 DEF Fresh
<1>7. CASE EnginePowerOn
  <2>1. PICK over : todo' = RunningActions(Workflows \ WithRollback(over))
                    /\ table' = table \ WithRollback(over)
    BY <1>7 DEF EnginePowerOn
  <2>2. b \in todo'
    BY <1>0, <1>6, <2>1 DEF RunningActions
  <2> QED BY <2>2 DEF Awaited, InWork
<1>8. CASE EngineRun
  <2>1. todo' = RunningActions(IF Head(inbox).kind = "timer" THEN Workflows
                               ELSE {Head(inbox).w})
        /\ Head(inbox).kind \in {"timer", "wakeup"}
    BY <1>8 DEF EngineRun, Receive
  <2>2. CASE Head(inbox).kind = "timer"
    <3>1. b \in todo'
      BY <1>6, <2>1, <2>2
    <3> QED BY <3>1 DEF Awaited, InWork
  <2>3. CASE Head(inbox) = WakeupMsg(FlowOf[b])
    <3>1. Head(inbox).kind = "wakeup" /\ Head(inbox).w = FlowOf[b]
      BY <2>3 DEF WakeupMsg
    <3>2. b \in todo'
      BY <1>6, <2>1, <3>1 DEF RunningActions
    <3> QED BY <3>2 DEF Awaited, InWork
  <2>4. CASE Head(inbox).kind # "timer" /\ Head(inbox) # WakeupMsg(FlowOf[b])
    <3>1. Head(inbox) \notin {PowerOnMsg, TimerMsg, WakeupMsg(FlowOf[b])}
      BY <2>1, <2>4 DEF PowerOnMsg, TimerMsg
    <3>2. Looked(FlowOf[b]) => Looked(FlowOf[b])'
      BY <1>5, <3>1 DEF Looked
    <3> QED BY <1>0, <1>2, <1>3, <1>4, <3>2, AwaitedKept
  <2> QED BY <2>2, <2>3, <2>4
<1> QED BY <1>7, <1>8

\* What the engine does with an answer or a request.
LEMMA RequestWoken ==
  ASSUME TypeOK, TypeOK', WokenInv,
         EngineAck \/ EnginePause \/ EngineResume \/ EngineDelete \/ EngineRollback
  PROVE  \A b \in Fresh' : Awaited(b)'
<1> SUFFICES ASSUME NEW b \in Fresh' PROVE Awaited(b)'
  OBVIOUS
<1>0. b \in Actions /\ FlowOf[b] \in table' /\ FlowOf[b] \notin paused' /\ FlowOf[b] \in Workflows
  BY DEF Fresh, RunningActions
<1>1. /\ UNCHANGED <<finished, state, repeat, fin, todo>> /\ pc = "run" /\ todo = {}
      /\ inbox # <<>> /\ Head(inbox).kind \in {"ack"} \cup Requests
      /\ table' \subseteq table
  BY DEF EngineAck, EnginePause, EngineResume, EngineDelete, EngineRollback, ReplyTo,
         Receive, Resting, tables, callers, engine, Requests
<1>2. PICK m, n : \/ inbox' = Tail(inbox)
                  \/ inbox' = Append(Tail(inbox), m)
                  \/ inbox' = Tail(inbox) \o <<n, m>>
  BY DEF EngineAck, EnginePause, EngineResume, EngineDelete, EngineRollback
<1>3. Looked(FlowOf[b]) => Looked(FlowOf[b])'
  <2>1. InQueue \subseteq InQueue' \cup {Head(inbox)}
    BY <1>1, <1>2, QueueMoves
  <2>2. Head(inbox).kind \notin {"poweron", "timer", "wakeup"}
    BY <1>1 DEF Requests
  <2> QED BY <2>1, <2>2, LookedKept
<1>4. ASSUME b \in Fresh PROVE Awaited(b)'
  <2>1. Awaited(b) /\ ~InWork(b)
    BY <1>1, <1>4 DEF WokenInv, InWork
  <2>2. Removing(FlowOf[b]) => Removing(FlowOf[b])'
    BY <1>1 DEF Removing
  <2> QED BY <1>0, <1>3, <2>1, <2>2, AwaitedKept
<1>5. ASSUME paused \subseteq paused' PROVE Awaited(b)'
  <2>1. b \in Fresh
    BY <1>1, <1>5, NotFresher
  <2> QED BY <1>4, <2>1
<1>6. CASE EngineAck \/ EnginePause \/ EngineDelete
  <2>1. paused \subseteq paused'
    BY <1>6 DEF EngineAck, EnginePause, EngineDelete, tables
  <2> QED BY <1>5, <2>1
<1>7. ASSUME NEW v, paused' = paused \ {v}, WakeupMsg(v) \in InQueue' PROVE Awaited(b)'
  <2>1. CASE FlowOf[b] = v
    BY <1>7, <2>1 DEF Awaited, Looked
  <2>2. CASE FlowOf[b] # v
    <3>1. FlowOf[b] \notin paused /\ FlowOf[b] \in table
      BY <1>0, <1>1, <1>7, <2>2
    <3>2. ReadyAction(b) /\ b \notin finished /\ state[b] = "ready" /\ repeat[b] = 0
      BY <1>1 DEF Fresh, RunningActions, ReadyAction
    <3> QED BY <1>0, <1>4, <3>1, <3>2, FreshFields
  <2> QED BY <2>1, <2>2
<1>8. CASE EngineResume
  <2>1. /\ paused' = paused \ {Head(inbox).w}
        /\ inbox' = Append(Tail(inbox), WakeupMsg(Head(inbox).w))
    BY <1>8 DEF EngineResume
  <2>2. WakeupMsg(Head(inbox).w) \in InQueue'
    BY <1>1, <2>1, QueueMoves
  <2> QED BY <1>7, <2>1, <2>2
<1>9. CASE EngineRollback
  <2> DEFINE r == RollbackOf[Head(inbox).w]
  <2>1. \/ UNCHANGED paused
        \/ paused' = paused \ {r} /\ r = None
        \/ paused' = paused \ {r} /\ inbox' = Tail(inbox) \o <<WakeupMsg(r), TimerMsg>>
    BY <1>9 DEF EngineRollback
  <2> HIDE DEF r
  <2>2. None \notin paused
    BY DEF TypeOK, TablesType
  <2>3. inbox' = Tail(inbox) \o <<WakeupMsg(r), TimerMsg>> => WakeupMsg(r) \in InQueue'
    BY <1>1, QueueMoves
  <2>4. CASE UNCHANGED paused
    BY <1>5, <2>4
  <2>5. CASE paused' = paused \ {r} /\ r = None
    <3>1. paused \subseteq paused'
      BY <2>2, <2>5
    <3> QED BY <1>5, <3>1
  <2>6. CASE paused' = paused \ {r} /\ inbox' = Tail(inbox) \o <<WakeupMsg(r), TimerMsg>>
    BY <1>7, <2>3, <2>6
  <2> QED BY <2>1, <2>4, <2>5, <2>6
<1> QED BY <1>6, <1>8, <1>9

\* A call of FinishAction that makes an action ready sends a wakeup for its workflow,
\* or is about to remove it (engine.cpp:903).
LEMMA FinishWoken ==
  ASSUME TypeOK, TypeOK', WokenInv, NEW t \in Threads, FinishStep(t)
  PROVE  \A b \in Fresh' : Awaited(b)'
<1> SUFFICES ASSUME NEW b \in Fresh' PROVE Awaited(b)'
  OBVIOUS
<1> DEFINE w == FlowOf[fin[t].a]
<1>0. b \in Actions /\ FlowOf[b] \in table' /\ FlowOf[b] \notin paused' /\ b \notin finished'
  BY DEF Fresh, RunningActions
<1>1. /\ UNCHANGED <<paused, state, repeat, pc, cur, todo>> /\ table' \subseteq table
      /\ fin[t].at \in {"count", "write", "delete"}
  BY DEF FinishStep, FinishCount, FinishWrite, FinishDelete, FinishCommit, tables, engine,
         WokenInv, PlainCalls
<1>2. InQueue \subseteq InQueue'
  <2>1. inbox' = inbox \/ inbox' = Append(inbox, WakeupMsg(w))
    <3>1. CASE FinishCount(t)
      BY <3>1, Zenon DEF FinishCount
    <3>2. CASE FinishWrite(t)
      BY <3>2, Zenon DEF FinishWrite
    <3>3. CASE FinishDelete(t) \/ FinishCommit(t)
      BY <3>3, Zenon DEF FinishDelete, FinishCommit
    <3> QED BY <3>1, <3>2, <3>3 DEF FinishStep
  <2>2. \E m : inbox' = inbox \/ inbox' = Append(inbox, m)
    BY <2>1
  <2> QED BY <2>2, QueueGrows
<1>3. InWork(b) => InWork(b)'
  BY <1>1 DEF InWork
<1>4. PICK r : fin' = [fin EXCEPT ![t] = r]
  BY FinishMoves DEF FinishMove
<1>5. ASSUME b \in Fresh, fin[t].at # "delete" \/ w # FlowOf[b] PROVE Awaited(b)'
  <2>1. Awaited(b)
    BY <1>5 DEF WokenInv
  <2>2. Removing(FlowOf[b]) => Removing(FlowOf[b])'
    BY <1>4, <1>5, RemovingKept
  <2> QED BY <1>0, <1>2, <1>3, <2>1, <2>2, AwaitedKept, LookedKept
<1>6. CASE finished' = finished
  <2>1. b \in Fresh
    BY <1>1, <1>6, NotFresher
  <2>2. fin[t].at # "delete" \/ w # FlowOf[b]
    <3> SUFFICES ASSUME fin[t].at = "delete", w = FlowOf[b] PROVE FALSE
      OBVIOUS
    <3>1. FinishDelete(t) /\ w \in table
      BY <1>0, <1>1 DEF FinishStep, FinishCount, FinishWrite, FinishCommit
    <3>2. w \notin table'
      BY <3>1 DEF FinishDelete, WithRollback
    <3> QED BY <1>0, <3>2
  <2> QED BY <1>5, <2>1, <2>2
<1>7. CASE finished' # finished
  <2>1. FinishWrite(t) /\ InPool(fin[t].a) /\ finished' = finished \cup {fin[t].a}
        /\ UNCHANGED <<table, paused>>
    BY <1>1, <1>7 DEF FinishStep, FinishCount, FinishWrite, FinishDelete, FinishCommit, tables
  <2>2. CASE b \in Fresh
    BY <1>5, <2>1, <2>2 DEF FinishWrite
  <2>3. CASE b \notin Fresh
    <3>1. ReadyAction(b)' /\ ~ReadyAction(b)
      <4>1. state[b] = "ready" /\ repeat[b] = 0 /\ ReadyAction(b)'
        BY <1>1 DEF Fresh, RunningActions
      <4>2. b \notin finished
        BY <1>0, <2>1
      <4> QED BY <1>0, <2>1, <2>3, <4>1, <4>2, FreshFields
    <3>2. PICK e \in Before : e[2] = b /\ e[1] \in finished' /\ e[1] \notin finished
      BY <3>1 DEF ReadyAction
    <3>3. w = FlowOf[b]
      BY <2>1, <3>2
    <3>4. CASE fin[t].count = 1
      <4>1. fin'[t].at = "delete" /\ fin'[t].a = fin[t].a
        BY <2>1, <3>4 DEF FinishWrite, TypeOK, CallersType, FinCalls
      <4> QED BY <3>3, <4>1 DEF Awaited, Removing
    <3>5. CASE fin[t].count # 1
      <4>1. inbox' = Append(inbox, WakeupMsg(w))
        BY <2>1, <3>5 DEF FinishWrite
      <4>2. WakeupMsg(w) \in InQueue'
        BY <4>1, QueueMoves
      <4> QED BY <3>3, <4>2 DEF Awaited, Looked
    <3> QED BY <3>4, <3>5
  <2> QED BY <2>2, <2>3
<1> QED BY <1>6, <1>7

\* The steps of the senders, the receivers, the timer and the process.
LEMMA OutsideWoken ==
  ASSUME TypeOK, TypeOK', WokenInv,
         \/ \E s \in Senders : TakeFeedback(s) \/ SenderCall(s)
         \/ \E a \in Actions, st \in Answers : Answer(a, st)
         \/ Tick \/ Lose \/ Crash \/ UNCHANGED vars
  PROVE  \A b \in Fresh' : Awaited(b)'
<1> SUFFICES ASSUME NEW b \in Fresh' PROVE Awaited(b)'
  OBVIOUS
<1>0. b \in Actions /\ FlowOf[b] \in table' /\ FlowOf[b] \notin paused' /\ state'[b] = "ready"
      /\ FlowOf[b] \in Workflows
  BY DEF Fresh, RunningActions
<1>1. ASSUME b \in Fresh, UNCHANGED <<pc, cur, todo>>, InQueue \subseteq InQueue',
             Removing(FlowOf[b]) => Removing(FlowOf[b])'
      PROVE  Awaited(b)'
  <2>1. Awaited(b)
    BY <1>1 DEF WokenInv
  <2>2. InWork(b) => InWork(b)'
    BY <1>1 DEF InWork
  <2> QED BY <1>0, <1>1, <2>1, <2>2, AwaitedKept, LookedKept
<1>2. ASSUME UNCHANGED <<table, paused, finished, state, repeat, pc, cur, todo, fin>>,
             InQueue \subseteq InQueue'
      PROVE  Awaited(b)'
  <2>1. b \in Fresh
    BY <1>2, NotFresher
  <2>2. Removing(FlowOf[b]) => Removing(FlowOf[b])'
    BY <1>2 DEF Removing
  <2> QED BY <1>1, <1>2, <2>1, <2>2
<1>3. ASSUME NEW s \in Senders, TakeFeedback(s) PROVE Awaited(b)'
  <2>1. PICK f \in Waiting : FeedbackEffect(s, f)
    BY <1>3, FeedbackCases
  <2>2. UNCHANGED <<table, paused, finished, repeat, pc, cur, todo>> /\ fin[s] = NoCall
    BY <1>3 DEF TakeFeedback, engine, Free
  <2>3. InQueue \subseteq InQueue'
    <3>1. \E m : inbox' = inbox \/ inbox' = Append(inbox, m)
      BY <2>1 DEF FeedbackEffect, Restart, Ask
    <3> QED BY <3>1, QueueGrows
  <2>4. state'[b] = state[b]
    <3>1. state' = state \/ state' = [state EXCEPT ![f[1]] = "running"]
      BY <2>1 DEF FeedbackEffect, Restart
    <3> QED BY <1>0, <3>1 DEF TypeOK, TablesType
  <2>5. b \in Fresh
    BY <2>2, <2>4, NotFresher
  <2>6. Removing(FlowOf[b]) => Removing(FlowOf[b])'
    <3>1. fin' = fin \/ \E tx : fin' = [fin EXCEPT ![s] = FinishCall(f[1], tx)]
      BY <2>1 DEF FeedbackEffect
    <3>2. fin[s].at # "delete" /\ s \in Threads
      BY <2>2 DEF NoCall, Threads
    <3>3. CASE fin' = fin
      BY <3>3 DEF Removing
    <3>4. CASE \E tx : fin' = [fin EXCEPT ![s] = FinishCall(f[1], tx)]
      BY <3>2, <3>4, RemovingKept
    <3> QED BY <3>1, <3>3, <3>4
  <2> QED BY <1>1, <2>2, <2>3, <2>5, <2>6
<1>4. ASSUME NEW s \in Senders, Create(s) PROVE Awaited(b)'
  <2>1. PICK w \in Workflows :
          /\ table' = table \cup (WithRollback({w}) \cap Workflows)
          /\ paused' = paused \cup CreatedPaused(w)
          /\ inbox' = Append(inbox, WakeupMsg(w))
    BY <1>4 DEF Create
  <2>2. UNCHANGED <<finished, state, repeat, pc, cur, todo, fin>>
    BY <1>4 DEF Create, engine, callers
  <2>3. InQueue' = InQueue \cup {WakeupMsg(w)}
    BY <2>1, QueueMoves
  <2>4. CASE FlowOf[b] = w
    BY <2>3, <2>4 DEF Awaited, Looked
  <2>5. CASE FlowOf[b] # w
    <3>1. FlowOf[b] # RollbackOf[w]
      <4>1. RollbackOf[w] \in paused' \/ RollbackOf[w] = None
        BY <2>1 DEF CreatedPaused
      <4> QED BY <1>0, <4>1
    <3>2. FlowOf[b] \in table /\ FlowOf[b] \notin paused
      BY <1>0, <2>1, <2>5, <3>1 DEF WithRollback
    <3>3. ReadyAction(b) /\ b \notin finished /\ state[b] = "ready" /\ repeat[b] = 0
      BY <2>2 DEF Fresh, RunningActions, ReadyAction
    <3>4. b \in Fresh
      BY <1>0, <3>2, <3>3, FreshFields
    <3>5. Removing(FlowOf[b]) => Removing(FlowOf[b])'
      BY <2>2 DEF Removing
    <3> QED BY <1>1, <2>2, <2>3, <3>4, <3>5
  <2> QED BY <2>4, <2>5
<1>5. ASSUME NEW s \in Senders, SenderCall(s), ~Create(s) PROVE Awaited(b)'
  <2>1. UNCHANGED <<table, paused, finished, state, repeat, pc, cur, todo, fin>>
    BY <1>5 DEF SenderCall, Request, GiveUp, LockWorkflow, UnlockWorkflow, SkipAction, tables,
                engine, callers
  <2>2. \E m : inbox' = inbox \/ inbox' = Append(inbox, m)
    BY <1>5 DEF SenderCall, Request, Ask, GiveUp, LockWorkflow, UnlockWorkflow, SkipAction
  <2>3. InQueue \subseteq InQueue'
    BY <2>2, QueueGrows
  <2> QED BY <1>2, <2>1, <2>3
<1>6. ASSUME \/ \E a \in Actions, st \in Answers : Answer(a, st)
             \/ Tick \/ Lose \/ UNCHANGED vars
      PROVE  Awaited(b)'
  <2>1. UNCHANGED <<table, paused, finished, state, repeat, pc, cur, todo, fin>>
    BY <1>6 DEF Answer, Tick, Lose, vars, tables, engine, callers
  <2>2. \E m : inbox' = inbox \/ inbox' = Append(inbox, m)
    BY <1>6 DEF Answer, Tick, Lose, vars
  <2>3. InQueue \subseteq InQueue'
    BY <2>2, QueueGrows
  <2> QED BY <1>2, <2>1, <2>3
<1>7. CASE Crash
  <2>1. inbox' = <<PowerOnMsg>>
    BY <1>7 DEF Crash
  <2>2. PowerOnMsg \in InQueue'
    BY <2>1 DEF InQueue
  <2> QED BY <2>2 DEF Awaited, Looked
<1> QED BY <1>3, <1>4, <1>5, <1>6, <1>7

\* Where calls of FinishAction begin, and that none is inside a transaction.
LEMMA PlainStep ==
  ASSUME NoTransactions, TypeOK, PlainCalls, [Next]_vars
  PROVE  PlainCalls'
<1>0. /\ fin \in [Threads -> FinCalls] /\ Engine \in Threads /\ Engine \notin Senders
      /\ NoCall.tx = FALSE /\ NoCall.at = "none"
      /\ \A a : FinishCall(a, FALSE).tx = FALSE /\ FinishCall(a, FALSE).at = "count"
  BY DEF TypeOK, CallersType, Threads, NoCall, FinishCall
<1>1. ASSUME fin' = fin, fin[Engine] # NoCall => pc' = pc PROVE PlainCalls'
  BY <1>1 DEF PlainCalls
<1>2. ASSUME fin[Engine] = NoCall, NEW a, fin' = fin \/ EngineFinishes(a) PROVE PlainCalls'
  <2>1. CASE fin' = fin
    BY <1>2, <2>1 DEF PlainCalls
  <2>2. CASE EngineFinishes(a)
    <3>1. pc' = "finish" /\ fin' = [fin EXCEPT ![Engine] = FinishCall(a, FALSE)]
      BY <2>2 DEF EngineFinishes
    <3>2. \A t \in Threads : fin'[t] = fin[t] \/ fin'[t] = FinishCall(a, FALSE)
      BY <1>0, <3>1
    <3> QED BY <1>0, <3>1, <3>2 DEF PlainCalls
  <2> QED BY <1>2, <2>1, <2>2
<1>3. CASE EngineRead \/ EngineTimeOut \/ EngineStore
  <2>1. fin[Engine] = NoCall
    BY <1>3 DEF PlainCalls, EngineRead, EngineTimeOut, EngineStore
  <2>2. ASSUME NEW c \in RowCopies, NEW m, DoAction(c, m) PROVE PlainCalls'
    BY <1>2, <2>1, <2>2, DoActionCases DEF EngineReports
  <2>3. CASE EngineRead
    <3>1. PICK a \in todo : \/ DoAction(Row(a), mode)
                            \/ UNCHANGED <<pc, cur, mailbox, fin>>
      BY <2>3 DEF EngineRead
    <3>2. Row(a) \in RowCopies
      BY RowType DEF TypeOK, EngineType
    <3> QED BY <1>2, <2>1, <2>2, <3>1, <3>2
  <2>4. CASE EngineTimeOut
    <3>1. fin' = fin \/ (pc' = "finish" /\ mailbox' = mailbox
                         /\ fin' = [fin EXCEPT ![Engine] = FinishCall(cur.a, FALSE)])
      BY <2>4 DEF EngineTimeOut, Report
    <3> QED BY <1>2, <2>1, <3>1 DEF EngineFinishes
  <2>5. CASE EngineStore
    <3>1. cur \in RowCopies
      BY <2>5 DEF EngineStore, TypeOK, EngineType
    <3> QED BY <2>2, <2>5, <3>1 DEF EngineStore
  <2> QED BY <1>3, <2>3, <2>4, <2>5
<1>4. CASE EngineClearSkip \/ EngineSend \/ EngineFinished \/ EnginePowerOn \/ EngineRun
           \/ EngineAck \/ EnginePause \/ EngineResume \/ EngineDelete \/ EngineRollback
  <2>1. fin' = fin
    BY <1>4 DEF EngineClearSkip, EngineSend, EngineFinished, EnginePowerOn, EngineRun, EngineAck,
         EnginePause, EngineResume, EngineDelete, EngineRollback, ReplyTo, callers
  <2>2. fin[Engine] = NoCall
    BY <1>4 DEF EngineClearSkip, EngineSend, EngineFinished, EnginePowerOn, EngineRun, EngineAck,
         EnginePause, EngineResume, EngineDelete, EngineRollback, Receive, Resting, PlainCalls
  <2> QED BY <2>1, <2>2 DEF PlainCalls
<1>5. ASSUME NEW t \in Threads, FinishStep(t) PROVE PlainCalls'
  <2>1. PICK c : FinishMove(t, c)
    BY <1>5, FinishMoves
  <2>2. fin[t].at # "none" /\ fin[t].tx = FALSE /\ fin[t] \in FinCalls
    BY <1>0, <1>5, FinishMoves DEF PlainCalls
  <2>3. c.at # "commit" /\ c.tx = FALSE
    <3>1. CASE c = NoCall
      BY <1>0, <3>1
    <3>2. CASE c = Counted(t) \/ c = Deleting(t)
      BY <2>2, <3>2, CallFields
    <3> QED BY <2>1, <3>1, <3>2 DEF FinishMove
  <2>4. fin[t] # NoCall /\ UNCHANGED pc
    <3>1. UNCHANGED pc
      BY <1>5 DEF FinishStep, FinishCount, FinishWrite, FinishDelete, FinishCommit, engine
    <3> QED BY <1>0, <2>2, <3>1
  <2>5. \A u \in Threads : fin'[u] = IF u = t THEN c ELSE fin[u]
    <3>1. fin' = [fin EXCEPT ![t] = c]
      BY <2>1 DEF FinishMove
    <3> QED BY <1>0, <3>1
  <2> QED BY <1>0, <2>3, <2>4, <2>5 DEF PlainCalls
<1>6. ASSUME NEW s \in Senders, TakeFeedback(s) PROVE PlainCalls'
  <2>1. PICK f \in Waiting : fin' = fin \/ fin' = [fin EXCEPT ![s] = FinishCall(f[1], FALSE)]
    <3>1. PICK f \in Waiting :
            \/ fin' = fin
            \/ fin' = [fin EXCEPT ![s] = FinishCall(f[1], FALSE)]
            \/ "finishTx" \in Replies[f[2]]
      BY <1>6 DEF TakeFeedback
    <3>2. f[2] \in Outcomes
      BY DEF Waiting
    <3> QED BY <3>1, <3>2 DEF NoTransactions
  <2>2. UNCHANGED pc /\ s \in Threads /\ s # Engine
    BY <1>0, <1>6 DEF TakeFeedback, engine, Threads
  <2>3. CASE fin' = fin
    BY <1>1, <2>2, <2>3
  <2>4. CASE fin' = [fin EXCEPT ![s] = FinishCall(f[1], FALSE)]
    <3>1. \A t \in Threads : fin'[t] = IF t = s THEN FinishCall(f[1], FALSE) ELSE fin[t]
      BY <1>0, <2>4
    <3>2. fin'[Engine] = fin[Engine] /\ pc' = pc
      BY <1>0, <2>2, <3>1
    <3>3. \A t \in Threads : fin'[t].tx = FALSE /\ fin'[t].at # "commit"
      <4> SUFFICES ASSUME NEW t \in Threads
                   PROVE  fin'[t].tx = FALSE /\ fin'[t].at # "commit"
        OBVIOUS
      <4>1. CASE t = s
        <5>1. fin'[t] = FinishCall(f[1], FALSE)
          BY <3>1, <4>1
        <5> QED BY <5>1 DEF FinishCall
      <4>2. CASE t # s
        BY <3>1, <4>2 DEF PlainCalls
      <4> QED BY <4>1, <4>2
    <3> QED BY <3>2, <3>3 DEF PlainCalls
  <2> QED BY <2>1, <2>3, <2>4
<1>7. ASSUME \/ \E s \in Senders : SenderCall(s)
             \/ \E a \in Actions, st \in Answers : Answer(a, st)
             \/ Tick \/ Lose \/ UNCHANGED vars
      PROVE  PlainCalls'
  BY <1>1, <1>7 DEF SenderCall, Create, Request, GiveUp, LockWorkflow, UnlockWorkflow, SkipAction,
                    Answer, Tick, Lose, vars, engine, callers
<1>8. CASE Crash
  BY <1>0, <1>8 DEF Crash, PlainCalls
<1> QED BY <1>3, <1>4, <1>5, <1>6, <1>7, <1>8 DEF Next, EngineStep

\* The list of Run is empty while an answer is handled, and no answer says "ready".
LEMMA AnswerStep ==
  ASSUME TypeOK, mode = "ack" => todo = {}, StoredInv, [Next]_vars
  PROVE  (mode' = "ack" => todo' = {}) /\ StoredInv'
<1>1. mode' = "ack" => todo' = {}
  <2>1. CASE EngineRead \/ EngineAck
    BY <2>1 DEF EngineRead, EngineAck, Receive, Resting
  <2>2. CASE EnginePowerOn \/ EngineRun \/ Crash
    BY <2>2 DEF EnginePowerOn, EngineRun, RunMode, Crash
  <2>3. CASE ~(EngineRead \/ EngineAck \/ EnginePowerOn \/ EngineRun \/ Crash)
    <3>1. UNCHANGED <<mode, todo>>
      BY <2>3 DEF Next, EngineStep, EngineClearSkip, EngineSend, EngineTimeOut, EngineFinished,
             EngineStore, EnginePause, EngineResume, EngineDelete, EngineRollback, FinishStep,
             FinishCount, FinishWrite, FinishDelete, FinishCommit, TakeFeedback, SenderCall,
             Create, Request, GiveUp, LockWorkflow, UnlockWorkflow, SkipAction, Answer, Tick,
             Lose, vars, engine
    <3> QED BY <3>1
  <2> QED BY <2>1, <2>2, <2>3
<1>2. StoredInv'
  <2>1. CASE UNCHANGED <<pc, cur>>
    BY <2>1 DEF StoredInv
  <2>2. CASE EngineAck
    <3>1. Head(inbox) \in Messages /\ Head(inbox).kind = "ack" /\ pc = "run"
      BY <2>2, HeadType DEF EngineAck, Receive
    <3>2. Head(inbox).state \in {"running", "success", "failed"}
      BY <3>1, MessageFields
    <3>3. CASE UNCHANGED <<cur, pc>>
      BY <2>1, <3>3
    <3>4. CASE ~UNCHANGED <<cur, pc>>
      <4> DEFINE a == Head(inbox).a
                 st == IF Head(inbox).state = "failed" /\ a \in Retry THEN "running"
                       ELSE Head(inbox).state
      <4>1. cur' = [Row(a) EXCEPT !.state = st]
        BY <2>2, <3>4, Zenon DEF EngineAck
      <4>2. st \in {"running", "success", "failed"}
        BY <3>2
      <4> HIDE DEF a, st
      <4> QED BY <4>1, <4>2 DEF StoredInv, Row
    <3> QED BY <3>3, <3>4
  <2>3. CASE ~EngineAck /\ ~UNCHANGED <<pc, cur>>
    <3>1. pc' # "store"
      <4>1. ASSUME NEW c \in RowCopies, NEW m, DoAction(c, m) PROVE pc' # "store"
        BY <4>1, DoActionCases DEF EngineFinishes, EngineReports
      <4>2. CASE EngineRead
        <5>1. PICK a \in todo : DoAction(Row(a), mode)
          BY <2>3, <4>2 DEF EngineRead
        <5> QED BY <4>1, <5>1, RowType DEF TypeOK, EngineType
      <4>3. CASE EngineStore
        <5>1. cur \in RowCopies
          BY <4>3 DEF EngineStore, TypeOK, EngineType
        <5> QED BY <4>1, <4>3, <5>1 DEF EngineStore
      <4>4. CASE EngineTimeOut \/ EngineClearSkip \/ EngineSend \/ EngineFinished \/ Crash
        BY <4>4 DEF EngineTimeOut, Report, EngineClearSkip, EngineSend, EngineFinished, Crash
      <4>5. CASE ~(EngineRead \/ EngineStore \/ EngineTimeOut \/ EngineClearSkip \/ EngineSend
                   \/ EngineFinished \/ Crash)
        BY <2>3, <4>5 DEF Next, EngineStep, EnginePowerOn, EngineRun, EnginePause, EngineResume,
             EngineDelete, EngineRollback, FinishStep, FinishCount, FinishWrite, FinishDelete,
             FinishCommit, TakeFeedback, SenderCall, Create, Request, GiveUp, LockWorkflow,
             UnlockWorkflow, SkipAction, Answer, Tick, Lose, vars, engine
      <4> QED BY <4>2, <4>3, <4>4, <4>5
    <3> QED BY <3>1 DEF StoredInv
  <2> QED BY <2>1, <2>2, <2>3
<1> QED BY <1>1, <1>2

\* When senders end actions outside of transactions, an action that became ready is not
\* left to the next cycle: until it has been requested, a message that makes the engine
\* look at its workflow is in the queue, or the engine has it in its hands, or its
\* workflow is about to be removed, whatever is paused, resumed, rolled back or restarted
\* in between (engine.cpp:903).
THEOREM WokenCorrect ==
  ASSUME NoTransactions
  PROVE  Spec => []ReadyIsWoken
<1>1. Init => WokenInv
  <2> SUFFICES ASSUME Init PROVE WokenInv
    OBVIOUS
  <2>1. Fresh = {} /\ mode = "cycle" /\ pc = "run" /\ \A t \in Threads : fin[t] = NoCall
    BY DEF Init, Fresh, RunningActions
  <2>2. NoCall.tx = FALSE /\ NoCall.at = "none" /\ Engine \in Threads
    BY DEF NoCall, Threads
  <2>3. PlainCalls
    BY <2>1, <2>2 DEF PlainCalls
  <2> QED BY <2>1, <2>3 DEF WokenInv, StoredInv
<1>2. TypeOK /\ TypeOK' /\ WokenInv /\ [Next]_vars => WokenInv'
  <2> SUFFICES ASSUME TypeOK, TypeOK', WokenInv, [Next]_vars PROVE WokenInv'
    OBVIOUS
  <2>1. \A b \in Fresh' : Awaited(b)'
    BY HandWoken, ListWoken, RequestWoken, FinishWoken, OutsideWoken DEF Next, EngineStep
  <2>2. PlainCalls' /\ (mode' = "ack" => todo' = {}) /\ StoredInv'
    BY PlainStep, AnswerStep DEF WokenInv
  <2> QED BY <2>1, <2>2 DEF WokenInv
<1>3. TypeOK /\ WokenInv => ReadyIsWoken
  <2> SUFFICES ASSUME TypeOK, WokenInv, NEW a \in RunningActions(Workflows),
                      state[a] = "ready", repeat[a] = 0,
                      ~(a \in todo), ~(pc # "run" /\ FlowOf[cur.a] = FlowOf[a]),
                      ~Removing(FlowOf[a])
               PROVE  \E i \in 1..Len(inbox) : \/ inbox[i].kind \in {"poweron", "timer"}
                                               \/ inbox[i] = WakeupMsg(FlowOf[a])
    BY DEF ReadyIsWoken, Removing
  <2>1. Awaited(a)
    BY DEF WokenInv, Fresh
  <2>2. ~InWork(a)
    BY DEF InWork
  <2>3. PICK m \in InQueue : m \in {PowerOnMsg, TimerMsg, WakeupMsg(FlowOf[a])}
    BY <2>1, <2>2 DEF Awaited, Looked
  <2>4. m.kind \in {"poweron", "timer"} \/ m = WakeupMsg(FlowOf[a])
    BY <2>3 DEF PowerOnMsg, TimerMsg
  <2> QED BY <2>4 DEF InQueue
<1> QED BY <1>1, <1>2, <1>3, WorkflowTypeCorrect, PTL DEF Spec

-----------------------------------------------------------------------------
(* What FinishAction removes is finished.                                  *)

\* Senders end no action because of a timeout, and in a transaction only after a
\* success that the row says, too.
OrderlySenders ==
  /\ "timeout" \notin Ending
  /\ \A o \in Outcomes : "finishTx" \in Replies[o] => o = "success"
  /\ \A a \in Async : <<a, "success">> \in Feedback => "finishTx" \notin Replies["success"]

\* The outcome in the row of an action, if it has one.
OutcomeIn(a, st) ==
  IF a \in Async /\ st = "running" THEN "success"
  ELSE IF a \in Async /\ st = "timeout" THEN "failed" ELSE st
Recorded(a) == OutcomeIn(a, state[a])

\* The actions of the table, except those with feedback of an outcome that was taken back.
Present == {a \in Actions \ recalled : InPool(a)}

\* Thread t is about to end a; a copy of feedback waits at which the sender may end a; the
\* engine is about to record an outcome of a, or to end a.
Ends(t, a) == fin[t].at \in {"count", "write", "commit"} /\ fin[t].a = a
EndingMail(a) == \E o \in Ending : <<a, o>> \in Waiting
InEngine(a) == (pc \in {"store", "time"} /\ cur.a = a) \/ Ends(Engine, a)

\* Feedback at which its sender may end an action says what is recorded, a sender ends an
\* action for an outcome that is recorded and reported, and the engine works on no action
\* that its sender ends or may end.
MailClaim(a) == a \notin finished => \A o \in Ending : <<a, o>> \in Waiting => Recorded(a) = o
CallClaim(a) ==
  \A s \in Senders : Ends(s, a) =>
      /\ SenderOf[a] = s /\ Recorded(a) \in Ending /\ <<a, Recorded(a)>> \in Feedback
      /\ a \notin finished
      /\ fin[s].tx = TRUE => state[a] = "success"
HandClaim(a) ==
  InEngine(a) => a \notin finished /\ ~EndingMail(a) /\ \A s \in Senders : ~Ends(s, a)
Claim(a) == MailClaim(a) /\ CallClaim(a) /\ HandClaim(a)

\* When a call of FinishAction has counted one, the action it ends is the only one left.
CountClaim(t) ==
  fin[t].a \in Present =>
      /\ fin[t].at \in {"write", "commit"} /\ fin[t].count = 1 =>
            Unfinished(FlowOf[fin[t].a]) \subseteq {fin[t].a}
      /\ fin[t].at = "commit" /\ fin[t].count = 1 => fin[t].verdict = "success"
      /\ fin[t].at = "delete" => Unfinished(FlowOf[fin[t].a]) = {}

\* A closed workflow does not come back, and is finished.
ClosedFor(w) ==
  /\ Gone(w)
  /\ ActionsOf(w) \cap recalled = {} => Unfinished(w) = {} /\ history[w] = "success"

EngineCalls == fin[Engine] # NoCall => pc = "finish" /\ fin[Engine].tx = FALSE

ClosingInv ==
  /\ EngineCalls
  /\ \A a \in Present : Claim(a)
  /\ \A t \in Threads : CountClaim(t)
  /\ \A w \in closed : ClosedFor(w)

\* What DoAction makes of a row, and what the row says.
LEMMA OutcomeOf ==
  ASSUME NEW c \in RowCopies
  PROVE  /\ OutcomeIn(c.a, c.state) \in Outcomes => GetActionState(c) = OutcomeIn(c.a, c.state)
         /\ GetActionState(c) \in {"success", "failed"} => OutcomeIn(c.a, c.state) = GetActionState(c)
BY DEF RowCopies, States, Outcomes, OutcomeIn, GetActionState

\* The engine leaves action a alone, is about to record a timeout, ends a because nobody
\* gets feedback of outcome st, or sends the feedback.
EngineWay(a, st) ==
  \/ pc' \notin {"store", "time"} /\ fin' = fin /\ mailbox' = mailbox
  \/ st = "timeout" /\ cur'.a = a /\ fin' = fin /\ mailbox' = mailbox
  \/ EngineFinishes(a) /\ <<a, st>> \notin Feedback
  \/ pc' = "run" /\ fin' = fin /\ <<a, st>> \in Feedback /\ mailbox' = OneMore(<<a, st>>)

LEMMA DoActionWays ==
  ASSUME NEW c \in RowCopies, NEW m, DoAction(c, m)
  PROVE  EngineWay(c.a, GetActionState(c)) /\ cur' = c
<1> DEFINE st == GetActionState(c)
<1>1. st \in {"ready", "running"} => <<c.a, st>> \notin Feedback
  BY DEF Outcomes
<1>2. cur' = c /\ c.skipped \in BOOLEAN
  BY DEF DoAction, RowCopies
<1> HIDE DEF st
<1>3. CASE Ignored(st, m)
  BY <1>2, <1>3 DEF DoAction, st, EngineWay
<1>4. CASE ~Ignored(st, m) /\ st \in {"ready", "running"} /\ c.skipped
  BY <1>1, <1>2, <1>4 DEF DoAction, st, EngineWay, EngineFinishes
<1>5. CASE ~Ignored(st, m) /\ st \in {"ready", "running"} /\ ~c.skipped
  BY <1>2, <1>5 DEF DoAction, st, EngineWay
<1>6. CASE ~Ignored(st, m) /\ st = "timeout" /\ c.state # "timeout"
  <2>1. pc' = "time" /\ UNCHANGED <<mailbox, fin>>
    BY <1>6 DEF DoAction, st
  <2> QED BY <1>2, <1>6, <2>1 DEF EngineWay, st
<1>7. CASE ~Ignored(st, m) /\ st \notin {"ready", "running"}
             /\ ~(st = "timeout" /\ c.state # "timeout")
  <2>1. Report(c.a, st)
    BY <1>7 DEF DoAction, st
  <2> QED BY <1>2, <2>1 DEF Report, EngineWay, EngineFinishes, st
<1> QED BY <1>2, <1>3, <1>4, <1>5, <1>6, <1>7

\* An action of which a step changes nothing.
LEMMA SameClaim ==
  ASSUME NEW a \in Actions, Claim(a), state'[a] = state[a], a \in finished' => a \in finished,
         \A o \in Ending : <<a, o>> \in Waiting' => <<a, o>> \in Waiting,
         \A t \in Threads : Ends(t, a)' => Ends(t, a) /\ fin'[t].tx = fin[t].tx,
         pc' \in {"store", "time"} /\ cur'.a = a => pc \in {"store", "time"} /\ cur.a = a,
         a \in finished => a \in finished'
  PROVE  Claim(a)'
<1>1. Recorded(a)' = Recorded(a) /\ (EndingMail(a)' => EndingMail(a)) /\ (InEngine(a)' => InEngine(a))
      /\ \A s \in Senders : Ends(s, a)' => Ends(s, a) /\ fin'[s].tx = fin[s].tx
  BY DEF Recorded, EndingMail, InEngine, Threads
<1>2. MailClaim(a)'
  BY <1>1 DEF Claim, MailClaim
<1>3. CallClaim(a)'
  BY <1>1 DEF Claim, CallClaim
<1>4. HandClaim(a)'
  BY <1>1 DEF Claim, HandClaim
<1> QED BY <1>2, <1>3, <1>4 DEF Claim

\* The engine works on an action that its sender neither ends nor may end.
LEMMA UnclaimedTaken ==
  ASSUME TypeOK, NEW a \in Actions, NEW st, EngineWay(a, st),
         a \notin finished, finished' = finished, ~EndingMail(a),
         \A s \in Senders : ~Ends(s, a), fin[Engine] = NoCall,
         st \in Ending => Recorded(a)' = st
  PROVE  Claim(a)'
<1>1. fin \in [Threads -> FinCalls] /\ Engine \in Threads /\ Engine \notin Senders
      /\ Senders \subseteq Threads /\ NoCall.at = "none"
  BY DEF TypeOK, CallersType, Threads, NoCall
<1>2. \A s \in Senders : fin'[s] = fin[s]
  BY <1>1 DEF EngineWay, EngineFinishes
<1>3. \A s \in Senders : ~Ends(s, a)'
  BY <1>2 DEF Ends
<1>4. CallClaim(a)'
  BY <1>3 DEF CallClaim
<1>5. CASE mailbox' = mailbox
  <2>1. ~EndingMail(a)'
    BY <1>5 DEF EndingMail, Waiting
  <2> QED BY <1>3, <1>4, <2>1 DEF Claim, MailClaim, HandClaim, EndingMail
<1>6. CASE pc' = "run" /\ fin' = fin /\ <<a, st>> \in Feedback /\ mailbox' = OneMore(<<a, st>>)
  <2>1. Waiting' \subseteq Waiting \cup {<<a, st>>}
    BY <1>6, OneMoreMail
  <2>2. \A o \in Ending : <<a, o>> \in Waiting' => o = st
    BY <2>1 DEF EndingMail
  <2>3. MailClaim(a)'
    BY <2>2 DEF MailClaim, Ending
  <2>4. ~Ends(Engine, a)'
    BY <1>1, <1>6 DEF Ends
  <2>5. HandClaim(a)'
    BY <1>6, <2>4 DEF HandClaim, InEngine
  <2> QED BY <1>4, <2>3, <2>5 DEF Claim
<1> QED BY <1>5, <1>6 DEF EngineWay, EngineFinishes

\* The loop of Run comes to an action that its sender ends or may end: it has an outcome,
\* and all the engine does is to report it once more.
LEMMA ClaimedRead ==
  ASSUME OrderlySenders, TypeOK, NEW a \in Present, Claim(a), EngineWay(a, GetActionState(Row(a))),
         a \notin finished, fin[Engine] = NoCall,
         UNCHANGED <<state, finished>>,
         EndingMail(a) \/ \E s \in Senders : Ends(s, a)
  PROVE  Claim(a)'
<1> DEFINE st == GetActionState(Row(a))
<1>1. a \in Actions /\ Row(a) \in RowCopies /\ Row(a).a = a /\ Row(a).state = state[a]
  BY RowType DEF Present, Row
<1>2. Recorded(a) \in Ending /\ <<a, Recorded(a)>> \in Feedback
  BY DEF Claim, MailClaim, CallClaim, EndingMail, Waiting
<1>3. st = Recorded(a) /\ st # "timeout"
  BY <1>1, <1>2, OutcomeOf DEF Recorded, Ending, OrderlySenders
<1> HIDE DEF st
<1>4. fin' = fin /\ pc' \notin {"store", "time"} /\ Waiting' \subseteq Waiting \cup {<<a, st>>}
  <2>1. \/ pc' \notin {"store", "time"} /\ fin' = fin /\ mailbox' = mailbox
        \/ pc' = "run" /\ fin' = fin /\ <<a, st>> \in Feedback /\ mailbox' = OneMore(<<a, st>>)
    BY <1>2, <1>3 DEF EngineWay, st
  <2> QED BY <2>1, OneMoreMail DEF Waiting
<1>5. Recorded(a)' = Recorded(a)
  BY DEF Recorded
<1>6. MailClaim(a)'
  BY <1>3, <1>4, <1>5 DEF Claim, MailClaim, Ending
<1>7. CallClaim(a)'
  BY <1>4, <1>5 DEF Claim, CallClaim, Ends, Ending
<1>8. ~InEngine(a)'
  BY <1>4 DEF InEngine, Ends, NoCall
<1> QED BY <1>6, <1>7, <1>8 DEF Claim, HandClaim

\* An action that the engine does not work on in this step.
LEMMA OtherHand ==
  ASSUME TypeOK, NEW a \in Actions, NEW b \in Actions, a # b, NEW st, EngineWay(b, st),
         Claim(a), state'[a] = state[a], finished' = finished, cur'.a = b
  PROVE  Claim(a)'
<1>1. fin \in [Threads -> FinCalls] /\ Engine \in Threads
  BY DEF TypeOK, CallersType, Threads
<1>2. \A o \in Ending : <<a, o>> \in Waiting' => <<a, o>> \in Waiting
  <2>1. CASE mailbox' = mailbox
    BY <2>1 DEF Waiting
  <2>2. CASE <<b, st>> \in Feedback /\ mailbox' = OneMore(<<b, st>>)
    <3>1. Waiting' \subseteq Waiting \cup {<<b, st>>}
      BY <2>2, OneMoreMail
    <3>2. \A o : <<a, o>> # <<b, st>>
      OBVIOUS
    <3> QED BY <3>1, <3>2
  <2> QED BY <2>1, <2>2 DEF EngineWay, EngineFinishes
<1>3. \A t \in Threads : fin'[t] = fin[t] \/ fin'[t] = FinishCall(b, FALSE)
  BY <1>1 DEF EngineWay, EngineFinishes
<1>4. FinishCall(b, FALSE).a = b
  BY DEF FinishCall
<1>5. \A t \in Threads : Ends(t, a)' => Ends(t, a) /\ fin'[t].tx = fin[t].tx
  BY <1>3, <1>4 DEF Ends
<1> QED BY <1>2, <1>5, SameClaim

\* The engine.
LEMMA EngineClaims ==
  ASSUME OrderlySenders, CoreInv, EngineCalls, NEW a \in Present, Claim(a), EngineStep
  PROVE  Claim(a)'
<1>0. TypeOK /\ a \in Actions /\ InPool(a) /\ FlowOf[a] \in table
  BY DEF CoreInv, Present, InPool
<1>1. CASE EngineRead
  <2>1. PICK b \in todo :
          IF InPool(b) /\ FlowOf[b] \notin paused /\ b \notin finished
          THEN DoAction(Row(b), mode)
          ELSE UNCHANGED <<pc, cur, mailbox, fin>>
    BY <1>1 DEF EngineRead
  <2>2. /\ UNCHANGED <<state, finished>> /\ b \in Actions /\ fin[Engine] = NoCall
        /\ Row(b) \in RowCopies /\ Row(b).a = b /\ Row(b).state = state[b]
    BY <1>0, <1>1, <2>1, RowType DEF EngineRead, tables, TypeOK, EngineType, EngineCalls, Row
  <2>3. CASE UNCHANGED <<pc, cur, mailbox, fin>>
    BY <1>0, <2>2, <2>3, SameClaim DEF Waiting, Ends
  <2>4. CASE b \notin finished /\ DoAction(Row(b), mode)
    <3>1. EngineWay(b, GetActionState(Row(b))) /\ cur'.a = b
      BY <2>2, <2>4, DoActionWays
    <3>2. CASE b # a
      BY <1>0, <2>2, <3>1, <3>2, OtherHand
    <3>3. CASE b = a /\ (EndingMail(a) \/ \E s \in Senders : Ends(s, a))
      BY <1>0, <2>2, <2>4, <3>1, <3>3, ClaimedRead
    <3>4. CASE b = a /\ ~(EndingMail(a) \/ \E s \in Senders : Ends(s, a))
      <4>1. GetActionState(Row(a)) \in Ending => Recorded(a)' = GetActionState(Row(a))
        BY <2>2, <3>4, OutcomeOf DEF Recorded, OrderlySenders, Ending, Outcomes
      <4> QED BY <1>0, <2>2, <2>4, <3>1, <3>4, <4>1, UnclaimedTaken
    <3> QED BY <3>2, <3>3, <3>4
  <2> QED BY <2>1, <2>3, <2>4
<1>2. CASE EngineStore
  <2>1. /\ cur \in RowCopies /\ cur.a \in Actions /\ fin[Engine] = NoCall /\ finished' = finished
        /\ pc = "store" /\ DoAction(cur, "ack")
        /\ state' = IF InPool(cur.a) THEN [state EXCEPT ![cur.a] = cur.state] ELSE state
    BY <1>0, <1>2 DEF EngineStore, TypeOK, EngineType, RowCopies, EngineCalls
  <2>2. EngineWay(cur.a, GetActionState(cur)) /\ cur' = cur
    BY <2>1, DoActionWays
  <2>3. state \in [Actions -> States]
    BY <1>0 DEF TypeOK, TablesType
  <2>4. CASE cur.a # a
    BY <1>0, <2>1, <2>2, <2>3, <2>4, OtherHand
  <2>5. CASE cur.a = a
    <3>1. a \notin finished /\ ~EndingMail(a) /\ \A s \in Senders : ~Ends(s, a)
      BY <2>1, <2>5 DEF Claim, HandClaim, InEngine
    <3>2. state'[a] = cur.state
      BY <1>0, <2>1, <2>3, <2>5
    <3>3. GetActionState(cur) \in Ending => Recorded(a)' = GetActionState(cur)
      BY <2>1, <2>5, <3>2, OutcomeOf DEF Recorded, OrderlySenders, Ending, Outcomes
    <3> QED BY <1>0, <2>1, <2>2, <2>5, <3>1, <3>3, UnclaimedTaken
  <2> QED BY <2>4, <2>5
<1>3. CASE EngineTimeOut
  <2>1. /\ cur.a \in Actions /\ fin[Engine] = NoCall /\ finished' = finished /\ cur' = cur
        /\ pc = "time" /\ Report(cur.a, "timeout")
        /\ state' = IF InPool(cur.a) THEN [state EXCEPT ![cur.a] = "timeout"] ELSE state
    BY <1>0, <1>3 DEF EngineTimeOut, TypeOK, EngineType, RowCopies, EngineCalls
  <2>2. EngineWay(cur.a, "timeout")
    BY <2>1 DEF Report, EngineWay, EngineFinishes
  <2>3. state \in [Actions -> States]
    BY <1>0 DEF TypeOK, TablesType
  <2>4. CASE cur.a # a
    BY <1>0, <2>1, <2>2, <2>3, <2>4, OtherHand
  <2>5. CASE cur.a = a
    <3>1. a \notin finished /\ ~EndingMail(a) /\ \A s \in Senders : ~Ends(s, a)
      BY <2>1, <2>5 DEF Claim, HandClaim, InEngine
    <3>2. "timeout" \notin Ending
      BY DEF OrderlySenders
    <3> QED BY <1>0, <2>1, <2>2, <2>5, <3>1, <3>2, UnclaimedTaken
  <2> QED BY <2>4, <2>5
<1>4. CASE EngineAck
  <2> DEFINE b == Head(inbox).a
  <2>1. UNCHANGED <<state, finished, mailbox, fin>>
    BY <1>4 DEF EngineAck, tables, callers, outside
  <2>2. CASE Accepted(b) /\ b = a
    <3>1. /\ a \notin finished /\ GetActionState(Row(a)) \in {"ready", "running"}
          /\ Row(a) \in RowCopies /\ Row(a).a = a /\ Row(a).state = state[a]
      BY <1>0, <2>2, RowType DEF Accepted, RunningActions, Row
    <3>2. Recorded(a) \notin Ending
      BY <3>1, OutcomeOf DEF Recorded, Ending, Outcomes
    <3>3. ~EndingMail(a) /\ \A s \in Senders : ~Ends(s, a)
      BY <3>1, <3>2 DEF Claim, MailClaim, CallClaim, EndingMail
    <3>4. ~EndingMail(a)' /\ (\A s \in Senders : ~Ends(s, a)') /\ a \notin finished'
      BY <2>1, <3>1, <3>3 DEF EndingMail, Waiting, Ends
    <3> QED BY <3>4 DEF Claim, MailClaim, CallClaim, HandClaim, EndingMail
  <2>3. CASE Accepted(b) /\ b # a
    <3>1. cur' = [Row(b) EXCEPT !.state =
                     IF Head(inbox).state = "failed" /\ b \in Retry THEN "running"
                     ELSE Head(inbox).state]
      BY <1>4, <2>3 DEF EngineAck
    <3>2. cur'.a # a
      BY <2>3, <3>1 DEF Row
    <3> QED BY <1>0, <2>1, <3>2, SameClaim DEF Waiting, Ends
  <2>4. CASE ~Accepted(b)
    <3>1. UNCHANGED <<cur, pc>>
      BY <1>4, <2>4 DEF EngineAck
    <3> QED BY <1>0, <2>1, <3>1, SameClaim DEF Waiting, Ends
  <2> QED BY <2>2, <2>3, <2>4
<1>5. CASE EngineClearSkip \/ EngineSend \/ EngineFinished
  <2>1. UNCHANGED <<state, finished, mailbox, fin>> /\ pc' \notin {"store", "time"}
    BY <1>5 DEF EngineClearSkip, EngineSend, EngineFinished, tables, callers, outside
  <2> QED BY <1>0, <2>1, SameClaim DEF Waiting, Ends
<1>6. CASE EnginePowerOn \/ EngineRun \/ EnginePause \/ EngineResume \/ EngineDelete \/ EngineRollback
  <2>1. UNCHANGED <<state, finished, mailbox, fin, pc, cur>>
    BY <1>6 DEF EnginePowerOn, EngineRun, EnginePause, EngineResume, EngineDelete, EngineRollback,
                tables, engine, callers, outside, ReplyTo
  <2> QED BY <1>0, <2>1, SameClaim DEF Waiting, Ends
<1> QED BY <1>1, <1>2, <1>3, <1>4, <1>5, <1>6 DEF EngineStep

\* FinishAction.
LEMMA FinishClaims ==
  ASSUME CoreInv, EngineCalls, NEW a \in Present, Claim(a), NEW t \in Threads, FinishStep(t)
  PROVE  Claim(a)'
<1>0. TypeOK /\ a \in Actions /\ fin \in [Threads -> FinCalls] /\ NoCall.at = "none"
  BY DEF CoreInv, Present, TypeOK, CallersType, NoCall
<1>1. PICK c : FinishMove(t, c)
  BY <1>0, FinishMoves
<1>2. c.at \notin {"count"} /\ (c.at # "none" => c.a = fin[t].a /\ c.tx = fin[t].tx)
  <2>1. fin[t].tx \in BOOLEAN
    BY <1>0 DEF FinCalls
  <2> QED BY <1>0, <1>1, <2>1, CallFields DEF FinishMove
<1>3. \A u \in Threads : fin'[u] = IF u = t THEN c ELSE fin[u]
  BY <1>0, <1>1 DEF FinishMove
<1>4. /\ UNCHANGED <<state, mailbox, pc, cur>> /\ finished \subseteq finished'
      /\ fin[t].at \in {"count", "write", "delete", "commit"}
  BY DEF FinishStep, FinishCount, FinishWrite, FinishDelete, FinishCommit, tables, engine, outside
<1>5. fin[t].at = "delete" => c.at = "none"
  BY <1>0, <1>1 DEF FinishMove, FinishCount, FinishWrite
<1>6. \A u \in Threads : Ends(u, a)' => Ends(u, a) /\ fin'[u].tx = fin[u].tx
  <2> SUFFICES ASSUME NEW u \in Threads, Ends(u, a)'
               PROVE  Ends(u, a) /\ fin'[u].tx = fin[u].tx
    OBVIOUS
  <2>1. CASE u # t
    BY <1>3, <2>1 DEF Ends
  <2>2. CASE u = t
    <3>1. c.at # "none" /\ c.a = a
      BY <1>3, <2>2 DEF Ends
    <3> QED BY <1>2, <1>3, <1>4, <1>5, <2>2, <3>1 DEF Ends
  <2> QED BY <2>1, <2>2
<1>7. CASE a \in finished' => a \in finished
  BY <1>0, <1>4, <1>6, <1>7, SameClaim DEF Waiting
<1>8. CASE a \in finished' /\ a \notin finished
  <2>1. Ends(t, a) /\ ~Ends(t, a)'
    <3>0. ~FinishCount(t) /\ ~FinishDelete(t)
      BY <1>8 DEF FinishCount, FinishDelete, tables
    <3>1. (FinishWrite(t) \/ FinishCommit(t)) /\ fin[t].a = a
      <4>1. CASE FinishWrite(t)
        BY <1>8, <4>1 DEF FinishWrite
      <4>2. CASE FinishCommit(t)
        <5>1. finished' = finished \/ finished' \subseteq finished \cup {fin[t].a}
          BY <4>2 DEF FinishCommit
        <5> QED BY <1>8, <4>2, <5>1
      <4> QED BY <3>0, <4>1, <4>2 DEF FinishStep
    <3>2. c.at \in {"none", "delete"}
      BY <1>0, <1>1, <3>1, CallFields DEF FinishMove, FinishCount, FinishWrite, FinishCommit
    <3> QED BY <1>3, <3>1, <3>2 DEF Ends, FinishWrite, FinishCommit
  <2>2. ASSUME NEW s \in Senders PROVE ~Ends(s, a)'
    <3>1. CASE s = t
      BY <2>1, <3>1
    <3>2. CASE s # t /\ t \in Senders
      BY <1>6, <2>1, <2>2, <3>2 DEF Claim, CallClaim, Threads
    <3>3. CASE t = Engine
      BY <1>6, <2>1, <2>2, <3>3 DEF Claim, HandClaim, InEngine, Threads
    <3> QED BY <3>1, <3>2, <3>3 DEF Threads
  <2>3. ~InEngine(a)'
    <3>1. CASE t \in Senders
      BY <1>4, <1>6, <2>1, <3>1 DEF Claim, HandClaim, InEngine, Threads
    <3>2. CASE t = Engine
      <4>1. pc = "finish"
        BY <1>0, <1>4, <3>2 DEF EngineCalls
      <4> QED BY <1>4, <2>1, <3>2, <4>1 DEF InEngine
    <3> QED BY <3>1, <3>2 DEF Threads
  <2> QED BY <1>8, <2>2, <2>3 DEF Claim, MailClaim, CallClaim, HandClaim
<1> QED BY <1>7, <1>8

\* A sender takes feedback: it begins to end an action, restarts it, or does neither.
LEMMA FeedbackWays ==
  ASSUME NEW s \in Senders, TakeFeedback(s)
  PROVE  \E f \in Waiting :
           /\ SenderOf[f[1]] = s /\ mailbox' = [mailbox EXCEPT ![f] = mailbox[f] - 1]
           /\ \/ UNCHANGED <<fin, state>>
              \/ /\ ~Stale(f) /\ state' = state
                 /\ \/ /\ "finish" \in Replies[f[2]]
                       /\ fin' = [fin EXCEPT ![s] = FinishCall(f[1], FALSE)]
                    \/ /\ "finishTx" \in Replies[f[2]]
                       /\ fin' = [fin EXCEPT ![s] = FinishCall(f[1], TRUE)]
              \/ Restart(f[1]) /\ fin' = fin
BY Zenon DEF TakeFeedback

LEMMA FeedbackClaims ==
  ASSUME OrderlySenders, CoreInv, NEW a \in Present, a \in Present', Claim(a),
         NEW s \in Senders, TakeFeedback(s)
  PROVE  Claim(a)'
<1>0. /\ TypeOK /\ a \in Actions /\ fin \in [Threads -> FinCalls] /\ state \in [Actions -> States]
      /\ s \in Threads /\ Engine \in Threads /\ s # Engine
  BY DEF CoreInv, Present, TypeOK, CallersType, TablesType, Threads
<1>1. UNCHANGED <<finished, pc, cur, table>> /\ Free(s)
  BY DEF TakeFeedback, engine
<1>2. PICK f \in Waiting :
           /\ SenderOf[f[1]] = s /\ mailbox' = [mailbox EXCEPT ![f] = mailbox[f] - 1]
           /\ \/ UNCHANGED <<fin, state>>
              \/ /\ ~Stale(f) /\ state' = state
                 /\ \/ /\ "finish" \in Replies[f[2]]
                       /\ fin' = [fin EXCEPT ![s] = FinishCall(f[1], FALSE)]
                    \/ /\ "finishTx" \in Replies[f[2]]
                       /\ fin' = [fin EXCEPT ![s] = FinishCall(f[1], TRUE)]
              \/ Restart(f[1]) /\ fin' = fin
  BY FeedbackWays
<1>3. Waiting' \subseteq Waiting /\ f \in Feedback /\ f[1] \in Actions /\ f[2] \in Outcomes
      /\ f = <<f[1], f[2]>>
  BY <1>0, <1>2, TakenMail DEF Waiting
<1>4. CASE UNCHANGED <<fin, state>>
  BY <1>0, <1>1, <1>3, <1>4, SameClaim DEF Ends
<1>5. ASSUME NEW tx \in BOOLEAN, ~Stale(f), state' = state,
             IF tx THEN "finishTx" \in Replies[f[2]] ELSE "finish" \in Replies[f[2]],
             fin' = [fin EXCEPT ![s] = FinishCall(f[1], tx)]
      PROVE  Claim(a)'
  <2>1. \A t \in Threads : fin'[t] = IF t = s THEN FinishCall(f[1], tx) ELSE fin[t]
    BY <1>0, <1>5
  <2>2. FinishCall(f[1], tx).a = f[1] /\ FinishCall(f[1], tx).tx = tx
    BY DEF FinishCall
  <2>3. CASE f[1] # a
    <3>1. \A t \in Threads : Ends(t, a)' => Ends(t, a) /\ fin'[t].tx = fin[t].tx
      BY <2>1, <2>2, <2>3 DEF Ends
    <3> QED BY <1>0, <1>1, <1>3, <1>5, <3>1, SameClaim
  <2>4. CASE f[1] = a
    <3>1. f[2] \in Ending
      BY <1>3, <1>5 DEF Ending
    <3>2. a \notin finished /\ Recorded(a) = f[2] /\ <<a, f[2]>> \in Feedback /\ <<a, f[2]>> \in Waiting
      BY <1>2, <1>3, <1>5, <2>4, <3>1 DEF Stale, OrderlySenders, Claim, MailClaim
    <3>3. tx = TRUE => state[a] = "success"
      BY <1>0, <1>3, <1>5, <3>2 DEF OrderlySenders, Recorded, OutcomeIn
    <3>4. Recorded(a)' = Recorded(a) /\ state'[a] = state[a]
      BY <1>5 DEF Recorded
    <3>5. MailClaim(a)'
      BY <1>3, <3>2, <3>4 DEF Claim, MailClaim
    <3>6. CallClaim(a)'
      <4> SUFFICES ASSUME NEW u \in Senders, Ends(u, a)'
                   PROVE  /\ SenderOf[a] = u /\ Recorded(a)' \in Ending
                          /\ <<a, Recorded(a)'>> \in Feedback /\ a \notin finished'
                          /\ fin'[u].tx = TRUE => state'[a] = "success"
        BY DEF CallClaim
      <4>1. CASE u = s
        BY <1>1, <1>2, <2>1, <2>2, <2>4, <3>1, <3>2, <3>3, <3>4, <4>1 DEF Threads
      <4>2. CASE u # s
        <5>1. fin'[u] = fin[u]
          BY <2>1, <4>2 DEF Threads
        <5>2. Ends(u, a)
          BY <5>1 DEF Ends
        <5> QED BY <1>1, <3>4, <5>1, <5>2 DEF Claim, CallClaim
      <4> QED BY <4>1, <4>2
    <3>7. ~InEngine(a)'
      <4>1. ~InEngine(a)
        BY <3>1, <3>2 DEF Claim, HandClaim, EndingMail
      <4>2. fin'[Engine] = fin[Engine]
        BY <1>0, <2>1
      <4> QED BY <1>1, <4>1, <4>2 DEF InEngine, Ends
    <3> QED BY <3>5, <3>6, <3>7 DEF Claim, HandClaim
  <2> QED BY <2>3, <2>4
<1>6. CASE Restart(f[1]) /\ fin' = fin
  <2>1. CASE f[1] # a \/ state' = state
    <3>1. state'[a] = state[a]
      BY <1>0, <1>6, <2>1 DEF Restart
    <3> QED BY <1>0, <1>1, <1>3, <1>6, <3>1, SameClaim DEF Ends
  <2>2. CASE f[1] = a /\ state' # state
    <3>1. a \notin finished /\ ~EndingMail(a)'
      BY <1>6, <2>2 DEF Restart, Present, EndingMail
    <3>2. \A u \in Senders : ~Ends(u, a)'
      <4>1. \A u \in Senders : Ends(u, a)' => Ends(u, a) /\ u = s
        BY <1>2, <1>6, <2>2 DEF Ends, Claim, CallClaim
      <4>2. ~Ends(s, a)
        BY <1>1 DEF Free, Ends, NoCall
      <4> QED BY <4>1, <4>2
    <3> QED BY <1>1, <3>1, <3>2 DEF Claim, MailClaim, CallClaim, HandClaim, EndingMail
  <2> QED BY <2>1, <2>2
<1> QED BY <1>2, <1>4, <1>5, <1>6

\* An action that is not due is in nobody's hands.
LEMMA UntouchedClaim ==
  ASSUME CoreInv, NEW a \in Actions, ~Due(a)
  PROVE  Claim(a)
<1>1. a \notin asked /\ a \notin InHand /\ a \notin BeingFinished
  BY DEF CoreInv, TouchedInv
<1>2. ~EndingMail(a)
  BY <1>1 DEF EndingMail, CoreInv, ReachedInv, MailInv
<1>3. \A t \in Threads : ~Ends(t, a)
  BY <1>1 DEF Ends, BeingFinished
<1>4. ~InEngine(a)
  BY <1>1, <1>3 DEF InEngine, InHand, Threads
<1> QED BY <1>2, <1>3, <1>4 DEF Claim, MailClaim, CallClaim, HandClaim, EndingMail, Threads

\* Nothing that is finished or recalled is taken back.
LEMMA NothingTakenBack ==
  ASSUME TypeOK, [Next]_vars
  PROVE  finished \subseteq finished' /\ recalled \subseteq recalled'
<1>1. ASSUME NEW s \in Senders, TakeFeedback(s)
      PROVE  finished' = finished /\ recalled \subseteq recalled'
  <2>1. finished' = finished
    BY <1>1 DEF TakeFeedback
  <2>2. recalled \subseteq recalled'
    BY <1>1, FeedbackCases DEF FeedbackEffect, Restart
  <2> QED BY <2>1, <2>2
<1>2. CASE EngineStep
  BY <1>2 DEF EngineStep, EngineRead, EngineClearSkip, EngineSend, EngineTimeOut,
     EngineFinished, EnginePowerOn, EngineRun, EngineAck, EngineStore, EnginePause, EngineResume,
     EngineDelete, EngineRollback, tables, ghosts
<1>3. ASSUME NEW t \in Threads, FinishStep(t)
      PROVE  finished \subseteq finished' /\ recalled \subseteq recalled'
  BY <1>3 DEF FinishStep, FinishCount, FinishWrite, FinishDelete, FinishCommit, tables, ghosts
<1>4. ASSUME \/ \E s \in Senders : SenderCall(s)
             \/ \E a \in Actions, st \in Answers : Answer(a, st)
             \/ Tick \/ Lose \/ Crash \/ UNCHANGED vars
      PROVE  finished' = finished /\ recalled' = recalled
  BY <1>4 DEF SenderCall, Create, Request, GiveUp, LockWorkflow, UnlockWorkflow, SkipAction, Answer,
     Tick, Lose, Crash, vars, tables, ghosts
<1> QED BY <1>1, <1>2, <1>3, <1>4 DEF Next

\* Only CreateWorkflow adds to the table, and what it adds is not due.
LEMMA PresentStep ==
  ASSUME CoreInv, [Next]_vars, ~\E s \in Senders : Create(s)
  PROVE  Present' \subseteq Present
<1>1. recalled \subseteq recalled'
  BY NothingTakenBack DEF CoreInv
<1>2. table' \subseteq table
  <2>1. CASE EngineStep \/ \E t \in Threads : FinishStep(t)
    BY <2>1, EngineRetires, FinishRetires DEF Retires
  <2>2. CASE ~(EngineStep \/ \E t \in Threads : FinishStep(t))
    BY <2>2 DEF Next, TakeFeedback, SenderCall, Request, GiveUp, LockWorkflow,
                UnlockWorkflow, SkipAction, Answer, Tick, Lose, Crash, vars, tables
  <2> QED BY <2>1, <2>2
<1> QED BY <1>1, <1>2 DEF Present, InPool

LEMMA CreatedPresent ==
  ASSUME CoreInv, NEW s \in Senders, Create(s), NEW a \in Present', a \notin Present
  PROVE  ~Due(a)
<1>1. PICK w \in Workflows :
        /\ w \notin table /\ history[w] = "none"
        /\ table' = table \cup (WithRollback({w}) \cap Workflows)
  BY DEF Create
<1>2. a \in Actions /\ FlowOf[a] \in table' /\ FlowOf[a] \notin table
  BY DEF Create, ghosts, Present, InPool
<1>3. FlowOf[a] \in {w, RollbackOf[w]} /\ FlowOf[a] \in Workflows
  BY <1>1, <1>2 DEF WithRollback
<1>4. ~Known(FlowOf[a])
  BY <1>1, <1>3 DEF CoreInv, TablesInv, Known
<1> QED BY <1>4 DEF Due, Started

\* The claims of all actions.
LEMMA ClaimStep ==
  ASSUME OrderlySenders, CoreInv, EngineCalls, \A b \in Present : Claim(b), [Next]_vars,
         NEW a \in Present'
  PROVE  Claim(a)'
<1>0. a \in Actions /\ NoCall.at = "none"
  BY DEF Present, NoCall
<1>1. ASSUME Claim(a), UNCHANGED <<state, finished, pc, cur, fin, mailbox>> PROVE Claim(a)'
  BY <1>0, <1>1, SameClaim DEF Waiting, Ends
<1>2. ASSUME NEW s \in Senders, Create(s) PROVE Claim(a)'
  <2>1. Claim(a)
    BY <1>0, <1>2, UntouchedClaim, CreatedPresent
  <2> QED BY <1>1, <1>2, <2>1 DEF Create, engine, callers, outside
<1>3. CASE ~\E s \in Senders : Create(s)
  <2>1. a \in Present
    BY <1>3, PresentStep
  <2>2. Claim(a)
    BY <2>1
  <2>3. CASE EngineStep
    BY <2>1, <2>2, <2>3, EngineClaims
  <2>4. ASSUME NEW t \in Threads, FinishStep(t) PROVE Claim(a)'
    BY <2>1, <2>2, <2>4, FinishClaims
  <2>5. ASSUME NEW s \in Senders, TakeFeedback(s) PROVE Claim(a)'
    BY <2>1, <2>2, <2>5, FeedbackClaims
  <2>6. CASE \/ \E s \in Senders : SenderCall(s)
             \/ \E b \in Actions, st \in Answers : Answer(b, st)
             \/ Tick \/ Lose \/ UNCHANGED vars
    <3>1. UNCHANGED <<state, finished, pc, cur, fin, mailbox>>
      BY <1>3, <2>6 DEF SenderCall, Request, GiveUp, LockWorkflow, UnlockWorkflow, SkipAction,
                        Answer, Tick, Lose, vars, tables, engine, callers, outside
    <3> QED BY <1>1, <2>2, <3>1
  <2>7. CASE Crash
    <3>1. UNCHANGED <<state, finished>> /\ pc' = "run"
      BY <2>7 DEF Crash, tables
    <3>2. Waiting' = {}
      BY <2>7 DEF Crash, Waiting, EmptyMailbox
    <3>3. \A t \in Threads : ~Ends(t, a)'
      BY <1>0, <2>7 DEF Crash, Ends
    <3> QED BY <1>0, <2>2, <3>1, <3>2, <3>3, SameClaim
  <2> QED BY <2>3, <2>4, <2>5, <2>6, <2>7 DEF Next
<1> QED BY <1>2, <1>3

\* The calls of FinishAction before and after a step: they stay, end, begin, or go on.
LEMMA CallSteps ==
  ASSUME TypeOK, EngineCalls, [Next]_vars
  PROVE  /\ EngineCalls'
         /\ \A t \in Threads : \/ fin'[t] = fin[t]
                               \/ fin'[t].at \in {"none", "count"}
                               \/ FinishStep(t) /\ FinishMove(t, fin'[t])
<1> DEFINE CallsGoOn == \A t \in Threads : \/ fin'[t] = fin[t]
                                           \/ fin'[t].at \in {"none", "count"}
                                           \/ FinishStep(t) /\ FinishMove(t, fin'[t])
<1>0. /\ fin \in [Threads -> FinCalls] /\ Engine \in Threads /\ Engine \notin Senders
      /\ NoCall.tx = FALSE /\ NoCall.at = "none"
      /\ \A a : FinishCall(a, FALSE).tx = FALSE /\ FinishCall(a, FALSE).at = "count"
      /\ \A a, tx : FinishCall(a, tx).at = "count"
  BY DEF TypeOK, CallersType, Threads, NoCall, FinishCall
<1>1. ASSUME fin' = fin, fin[Engine] # NoCall => pc' = pc PROVE EngineCalls' /\ CallsGoOn
  BY <1>1 DEF EngineCalls
<1>2. ASSUME fin[Engine] = NoCall, NEW a, fin' = fin \/ EngineFinishes(a)
      PROVE  EngineCalls' /\ CallsGoOn
  <2>1. CASE fin' = fin
    BY <1>2, <2>1 DEF EngineCalls
  <2>2. CASE EngineFinishes(a)
    <3>1. pc' = "finish" /\ fin' = [fin EXCEPT ![Engine] = FinishCall(a, FALSE)]
      BY <2>2 DEF EngineFinishes
    <3>2. \A t \in Threads : fin'[t] = IF t = Engine THEN FinishCall(a, FALSE) ELSE fin[t]
      BY <1>0, <3>1
    <3>3. fin'[Engine] = FinishCall(a, FALSE) /\ FinishCall(a, FALSE).tx = FALSE
      BY <1>0, <3>2
    <3>4. EngineCalls'
      BY <3>1, <3>3 DEF EngineCalls
    <3>5. ASSUME NEW t \in Threads PROVE fin'[t] = fin[t] \/ fin'[t].at = "count"
      <4>1. CASE t = Engine
        <5>1. fin'[t] = FinishCall(a, FALSE)
          BY <3>2, <4>1
        <5> QED BY <5>1 DEF FinishCall
      <4>2. CASE t # Engine
        BY <3>2, <4>2
      <4> QED BY <4>1, <4>2
    <3>6. CallsGoOn
      BY <3>5
    <3> QED BY <3>4, <3>6
  <2> QED BY <1>2, <2>1, <2>2
<1>3. CASE EngineRead \/ EngineTimeOut \/ EngineStore
  <2>1. fin[Engine] = NoCall
    BY <1>3 DEF EngineCalls, EngineRead, EngineTimeOut, EngineStore
  <2>2. ASSUME NEW c \in RowCopies, NEW m, DoAction(c, m) PROVE EngineCalls' /\ CallsGoOn
    <3>1. fin' = fin \/ EngineFinishes(c.a)
      BY <2>2, DoActionWays DEF EngineWay
    <3> QED BY <1>2, <2>1, <3>1
  <2>3. CASE EngineRead
    <3>1. PICK a \in todo : \/ DoAction(Row(a), mode)
                            \/ UNCHANGED <<pc, cur, mailbox, fin>>
      BY <2>3 DEF EngineRead
    <3>2. Row(a) \in RowCopies
      BY RowType DEF TypeOK, EngineType
    <3> QED BY <1>2, <2>1, <2>2, <3>1, <3>2
  <2>4. CASE EngineTimeOut
    <3>1. fin' = fin \/ EngineFinishes(cur.a)
      BY <2>4 DEF EngineTimeOut, Report, EngineFinishes
    <3> QED BY <1>2, <2>1, <3>1
  <2>5. CASE EngineStore
    <3>1. cur \in RowCopies
      BY <2>5 DEF EngineStore, TypeOK, EngineType
    <3> QED BY <2>2, <2>5, <3>1 DEF EngineStore
  <2> QED BY <1>3, <2>3, <2>4, <2>5
<1>4. CASE EngineClearSkip \/ EngineSend \/ EngineFinished \/ EnginePowerOn \/ EngineRun
           \/ EngineAck \/ EnginePause \/ EngineResume \/ EngineDelete \/ EngineRollback
  <2>1. fin' = fin
    BY <1>4 DEF EngineClearSkip, EngineSend, EngineFinished, EnginePowerOn, EngineRun, EngineAck,
         EnginePause, EngineResume, EngineDelete, EngineRollback, ReplyTo, callers
  <2>2. fin[Engine] = NoCall
    BY <1>4 DEF EngineClearSkip, EngineSend, EngineFinished, EnginePowerOn, EngineRun, EngineAck,
         EnginePause, EngineResume, EngineDelete, EngineRollback, Receive, Resting, EngineCalls
  <2> QED BY <1>1, <2>1, <2>2
<1>5. ASSUME NEW u \in Threads, FinishStep(u) PROVE EngineCalls' /\ CallsGoOn
  <2>1. PICK c : FinishMove(u, c)
    BY <1>5, FinishMoves
  <2>2. fin[u].at # "none" /\ fin[u] # NoCall /\ pc' = pc
    <3>1. pc' = pc
      BY <1>5 DEF FinishStep, FinishCount, FinishWrite, FinishDelete, FinishCommit, engine
    <3> QED BY <1>0, <1>5, <3>1, FinishMoves
  <2>3. c = NoCall \/ c.tx = fin[u].tx
    <3>1. CASE c = Counted(u) \/ c = Deleting(u)
      BY <3>1, CallFields
    <3> QED BY <2>1, <3>1 DEF FinishMove
  <2>4. \A t \in Threads : fin'[t] = IF t = u THEN c ELSE fin[t]
    <3>1. fin' = [fin EXCEPT ![u] = c]
      BY <2>1 DEF FinishMove
    <3> QED BY <1>0, <3>1
  <2>5. EngineCalls'
    BY <1>0, <2>2, <2>3, <2>4 DEF EngineCalls
  <2>6. CallsGoOn
    BY <1>5, <2>1, <2>4
  <2> QED BY <2>5, <2>6
<1>6. ASSUME NEW s \in Senders, TakeFeedback(s) PROVE EngineCalls' /\ CallsGoOn
  <2>1. fin' = fin \/ \E b, tx : fin' = [fin EXCEPT ![s] = FinishCall(b, tx)]
    BY <1>6, FeedbackCases DEF FeedbackEffect
  <2>2. UNCHANGED pc /\ s \in Threads /\ s # Engine
    BY <1>0, <1>6 DEF TakeFeedback, engine, Threads
  <2>3. ASSUME NEW b, NEW tx, fin' = [fin EXCEPT ![s] = FinishCall(b, tx)]
        PROVE  EngineCalls' /\ CallsGoOn
    <3>1. \A t \in Threads : fin'[t] = IF t = s THEN FinishCall(b, tx) ELSE fin[t]
      BY <1>0, <2>3
    <3> QED BY <1>0, <2>2, <3>1 DEF EngineCalls
  <2> QED BY <1>1, <2>1, <2>2, <2>3
<1>7. ASSUME \/ \E s \in Senders : SenderCall(s)
             \/ \E a \in Actions, st \in Answers : Answer(a, st)
             \/ Tick \/ Lose \/ UNCHANGED vars
      PROVE  EngineCalls' /\ CallsGoOn
  <2>1. fin' = fin /\ pc' = pc
    BY <1>7 DEF SenderCall, Create, Request, GiveUp, LockWorkflow, UnlockWorkflow, SkipAction,
                Answer, Tick, Lose, vars, engine, callers
  <2> QED BY <1>1, <2>1
<1>8. CASE Crash
  BY <1>0, <1>8 DEF Crash, EngineCalls
<1> QED BY <1>3, <1>4, <1>5, <1>6, <1>7, <1>8 DEF Next, EngineStep

\* What a call has counted stays true.
LEMMA CountStep ==
  ASSUME CoreInv, EngineCalls, \A b \in Present : Claim(b), [Next]_vars,
         finished \subseteq finished', NEW t \in Threads, CountClaim(t)
  PROVE  CountClaim(t)'
<1>0. PICK a : a = fin[t].a
  OBVIOUS
<1>1. /\ TypeOK /\ fin[t] \in FinCalls
      /\ fin[t].at # "none" => a \in Actions /\ Due(a)
  BY <1>0 DEF CoreInv, TypeOK, CallersType, TouchedInv, BeingFinished
<1>2. CASE fin'[t].at \in {"none", "count"}
  BY <1>2 DEF CountClaim
<1>3. CASE fin'[t] = fin[t] /\ fin[t].at # "none"
  <2>1. a \in Present' => a \in Present
    BY <1>1, <1>3, PresentStep, CreatedPresent
  <2>2. Unfinished(FlowOf[a])' \subseteq Unfinished(FlowOf[a])
    BY DEF Unfinished, ActionsOf
  <2> QED BY <1>0, <1>3, <2>1, <2>2 DEF CountClaim
<1>4. CASE FinishStep(t) /\ FinishMove(t, fin'[t]) /\ fin'[t].at # "none"
  <2>1. ~\E s \in Senders : Create(s)
    <3>1. fin' # fin
      <4>1. \/ FinishCount(t) /\ fin'[t] = Counted(t)
            \/ FinishWrite(t) /\ fin'[t] = Deleting(t)
        BY <1>4 DEF FinishMove, NoCall
      <4>2. fin[t].tx = TRUE \/ fin[t].tx = FALSE
        BY <1>1 DEF FinCalls
      <4>3. CASE FinishCount(t) /\ fin'[t] = Counted(t)
        BY <1>1, <4>2, <4>3, CallFields DEF FinishCount
      <4>4. CASE FinishWrite(t) /\ fin'[t] = Deleting(t)
        BY <1>1, <4>4, CallFields DEF FinishWrite
      <4> QED BY <4>1, <4>3, <4>4
    <3> QED BY <3>1 DEF Create, callers
  <2>2. a \in Present' => a \in Present
    BY <2>1, PresentStep
  <2>3. CASE FinishCount(t) /\ InPool(a) /\ fin'[t] = Counted(t)
    <3>1. fin'[t].a = a /\ fin'[t].count = Cardinality(Unfinished(FlowOf[a]))
      BY <1>1, <2>3, CallFields, <1>0 DEF GetUnfinishedActionsCount
    <3>2. UNCHANGED <<finished, state>> /\ fin[t].at = "count" /\ a \in Actions
      BY <1>1, <2>3 DEF FinishCount, tables
    <3>3. ASSUME a \in Present PROVE a \notin finished /\ (fin[t].tx = TRUE => state[a] = "success")
      <4>1. Ends(t, a) /\ Claim(a)
        BY <1>0, <3>2, <3>3 DEF Ends
      <4>2. CASE t = Engine
        <5>1. fin[t].tx = FALSE
          BY <3>2, <4>2 DEF EngineCalls, NoCall
        <5> QED BY <4>1, <4>2, <5>1 DEF Claim, HandClaim, InEngine
      <4>3. CASE t \in Senders
        BY <4>1, <4>3 DEF Claim, CallClaim
      <4> QED BY <4>2, <4>3 DEF Threads
    <3>4. ASSUME a \in Present, fin'[t].count = 1 PROVE Unfinished(FlowOf[a]) \subseteq {a}
      <4>1. a \in Unfinished(FlowOf[a])
        BY <3>2, <3>3, <3>4 DEF Unfinished, ActionsOf
      <4>2. IsFiniteSet(Unfinished(FlowOf[a]))
        BY FiniteActions, FS_Subset DEF Unfinished, ActionsOf
      <4>3. PICK x : Unfinished(FlowOf[a]) = {x}
        BY <3>1, <3>4, <4>2, FS_Singleton
      <4> QED BY <4>1, <4>3
    <3>5. Unfinished(FlowOf[a])' = Unfinished(FlowOf[a])
      BY <3>2 DEF Unfinished, ActionsOf
    <3>6. fin'[t].at # "delete" /\ (fin'[t].at = "commit" => fin[t].tx = TRUE)
      <4>1. fin[t].tx \in BOOLEAN
        BY <1>1 DEF FinCalls
      <4> QED BY <1>1, <2>3, <4>1, CallFields
    <3>7. a \in Present /\ fin[t].tx = TRUE => fin'[t].verdict = "success"
      <4>1. fin[t].tx = TRUE => fin'[t].verdict = VerdictTx(a)
        BY <1>0, <1>1, <2>3, CallFields
      <4> QED BY <3>3, <4>1 DEF VerdictTx
    <3> QED BY <2>2, <3>1, <3>4, <3>5, <3>6, <3>7 DEF CountClaim
  <2>4. CASE FinishWrite(t) /\ fin[t].count = 1 /\ fin'[t] = Deleting(t)
    <3>1. fin'[t].a = a /\ fin'[t].at = "delete"
      BY <1>0, <1>1, <2>4, CallFields
    <3>2. ASSUME a \in Present PROVE Unfinished(FlowOf[a])' = {}
      <4>1. Unfinished(FlowOf[a]) \subseteq {a}
        BY <1>0, <2>4, <3>2 DEF CountClaim, FinishWrite
      <4>2. finished' = finished \cup {a}
        BY <1>0, <2>4, <3>2 DEF FinishWrite, Present
      <4> QED BY <4>1, <4>2 DEF Unfinished, ActionsOf
    <3> QED BY <2>2, <3>1, <3>2 DEF CountClaim
  <2>5. fin'[t] # NoCall
    BY <1>4 DEF NoCall
  <2> QED BY <1>0, <1>4, <2>3, <2>4, <2>5 DEF FinishMove
<1> QED BY <1>1, <1>2, <1>3, <1>4, CallSteps

\* The rows of a workflow that is gone stay as they are.
LEMMA GoneStep ==
  ASSUME CoreInv, [Next]_vars, NEW w \in Workflows, Gone(w)
  PROVE  w \notin table' /\ history'[w] = history[w]
<1>0. history \in [Workflows -> {"none", "success", "failed", "cancelled"}] /\ w \notin table
      /\ history[w] # "none"
  BY DEF CoreInv, TypeOK, TablesType, Gone
<1>1. ASSUME table' \subseteq table, history' = history PROVE w \notin table' /\ history'[w] = history[w]
  BY <1>0, <1>1
<1>2. ASSUME NEW v \in table, NEW h, table' \subseteq table, history' = [history EXCEPT ![v] = h]
      PROVE  w \notin table' /\ history'[w] = history[w]
  BY <1>0, <1>2
<1>3. ASSUME NEW t \in Threads, FinishStep(t) PROVE w \notin table' /\ history'[w] = history[w]
  <2>1. CASE FinishCount(t) \/ FinishWrite(t)
    BY <1>1, <2>1 DEF FinishCount, FinishWrite, tables
  <2>2. CASE FinishDelete(t)
    <3>1. CASE FlowOf[fin[t].a] \in table
      BY <1>2, <2>2, <3>1 DEF FinishDelete
    <3>2. CASE FlowOf[fin[t].a] \notin table
      BY <1>1, <2>2, <3>2 DEF FinishDelete
    <3> QED BY <3>1, <3>2
  <2>3. CASE FinishCommit(t)
    <3> DEFINE v == FlowOf[fin[t].a]
    <3>1. CASE fin[t].count = 1 /\ history[v] = "none"
      <4>1. table' \subseteq table /\ history' = [history EXCEPT ![v] = fin[t].verdict]
        BY <2>3, <3>1 DEF FinishCommit
      <4> QED BY <1>0, <3>1, <4>1
    <3>2. CASE ~(fin[t].count = 1 /\ history[v] = "none")
      BY <1>1, <2>3, <3>2 DEF FinishCommit
    <3> QED BY <3>1, <3>2
  <2> QED BY <1>3, <2>1, <2>2, <2>3 DEF FinishStep
<1>4. CASE EngineStep
  <2>1. CASE EnginePowerOn
    <3>1. PICK over \in SUBSET table :
            /\ table' = table \ WithRollback(over)
            /\ history' = [v \in Workflows |-> IF v \in over THEN "success" ELSE history[v]]
      BY <2>1 DEF EnginePowerOn
    <3> QED BY <1>0, <3>1
  <2>2. CASE EngineDelete
    <3>1. CASE Head(inbox).w \in table
      BY <1>2, <2>2, <3>1 DEF EngineDelete
    <3>2. CASE Head(inbox).w \notin table
      BY <1>1, <2>2, <3>2 DEF EngineDelete
    <3> QED BY <3>1, <3>2
  <2>3. CASE EngineRollback
    <3> DEFINE works == Head(inbox).w \in table
                        /\ (RollbackOf[Head(inbox).w] # None \/ IsRollback(Head(inbox).w))
    <3>1. CASE works
      <4>1. table' = table \ {Head(inbox).w}
            /\ history' = [history EXCEPT ![Head(inbox).w] = Verdict(Head(inbox).w)]
        BY <2>3, <3>1 DEF EngineRollback, DeletedByRollback
      <4> QED BY <1>2, <3>1, <4>1
    <3>2. CASE ~works
      BY <1>1, <2>3, <3>2 DEF EngineRollback
    <3> QED BY <3>1, <3>2
  <2>4. CASE ~(EnginePowerOn \/ EngineDelete \/ EngineRollback)
    <3>1. UNCHANGED <<table, history>>
      BY <1>4, <2>4 DEF EngineStep, EngineRead, EngineClearSkip, EngineSend, EngineTimeOut,
         EngineFinished, EngineRun, EngineAck, EngineStore, EnginePause, EngineResume, tables
    <3> QED BY <1>1, <3>1
  <2> QED BY <2>1, <2>2, <2>3, <2>4
<1>5. ASSUME NEW s \in Senders, Create(s) PROVE w \notin table' /\ history'[w] = history[w]
  <2>1. PICK v \in Workflows :
          /\ v \notin table /\ history[v] = "none"
          /\ table' = table \cup (WithRollback({v}) \cap Workflows)
    BY <1>5 DEF Create
  <2>2. w # v /\ w # RollbackOf[v]
    BY <1>0, <2>1 DEF CoreInv, TablesInv, Known
  <2>3. w \notin table'
    BY <1>0, <2>1, <2>2 DEF WithRollback
  <2> QED BY <1>5, <2>3 DEF Create
<1>6. CASE \/ \E s \in Senders : TakeFeedback(s) \/ (SenderCall(s) /\ ~Create(s))
           \/ \E a \in Actions, st \in Answers : Answer(a, st)
           \/ Tick \/ Lose \/ Crash \/ UNCHANGED vars
  <2>1. UNCHANGED <<table, history>>
    BY <1>6 DEF TakeFeedback, SenderCall, Request, GiveUp, LockWorkflow, UnlockWorkflow,
                SkipAction, Answer, Tick, Lose, Crash, vars, tables
  <2> QED BY <1>1, <2>1
<1> QED BY <1>3, <1>4, <1>5, <1>6 DEF Next

\* A workflow that a step closes is finished.
LEMMA ClosingStep ==
  ASSUME CoreInv, \A t \in Threads : CountClaim(t), [Next]_vars,
         NEW w \in closed', w \notin closed
  PROVE  w \in Workflows /\ ClosedFor(w)'
<1>0. /\ TypeOK /\ table \subseteq Workflows
      /\ history \in [Workflows -> {"none", "success", "failed", "cancelled"}]
  BY DEF CoreInv, TypeOK, TablesType
<1>1. CASE EnginePowerOn
  <2>1. /\ w \in table /\ Unfinished(w) = {} /\ w \notin table' /\ history'[w] = "success"
        /\ UNCHANGED <<finished, recalled>>
    BY <1>0, <1>1 DEF EnginePowerOn, WithRollback
  <2>2. Unfinished(w)' = {}
    BY <2>1 DEF Unfinished, ActionsOf
  <2> QED BY <1>0, <2>1, <2>2 DEF ClosedFor, Gone
<1>2. ASSUME NEW t \in Threads, FinishStep(t) PROVE w \in Workflows /\ ClosedFor(w)'
  <2>0. PICK a : a = fin[t].a
    OBVIOUS
  <2>1. a \in Actions /\ Due(a)
    BY <1>2, <2>0 DEF CoreInv, TypeOK, CallersType, TouchedInv, BeingFinished, FinishStep,
                      FinishCount, FinishWrite, FinishDelete, FinishCommit
  <2>2. recalled' = recalled
    BY <1>2 DEF FinishStep, FinishCount, FinishWrite, FinishDelete, FinishCommit, ghosts
  <2>3. FlowOf[a] \in table /\ ActionsOf(FlowOf[a]) \cap recalled = {} => a \in Present
    BY <2>1 DEF ActionsOf, Present, InPool
  <2>4. CASE FinishDelete(t)
    <3>1. /\ w = FlowOf[a] /\ w \in table /\ w \notin table' /\ finished' = finished
          /\ history' = [history EXCEPT ![w] = Verdict(w)]
      BY <2>0, <2>4 DEF FinishDelete, WithRollback
    <3>2. w \in Workflows /\ history'[w] = Verdict(w) /\ history'[w] # "none"
      BY <1>0, <3>1, VerdictType
    <3>3. ASSUME ActionsOf(w) \cap recalled = {} PROVE Unfinished(w) = {} /\ Verdict(w) = "success"
      <4>1. Unfinished(w) = {}
        BY <2>0, <2>3, <2>4, <3>1, <3>3 DEF CountClaim, FinishDelete
      <4> QED BY <4>1 DEF Verdict
    <3>4. Unfinished(w)' = Unfinished(w) /\ ActionsOf(w)' = ActionsOf(w)
      BY <3>1 DEF Unfinished, ActionsOf
    <3> QED BY <2>2, <3>1, <3>2, <3>3, <3>4 DEF ClosedFor, Gone
  <2>5. CASE FinishCommit(t)
    <3>1. /\ w = FlowOf[a] /\ history[w] = "none" /\ fin[t].count = 1 /\ fin[t].at = "commit"
          /\ w \notin table'
          /\ finished' = IF InPool(a) THEN finished \cup {a} ELSE finished
          /\ history' = [history EXCEPT ![w] = fin[t].verdict]
      BY <2>0, <2>5 DEF FinishCommit, WithRollback
    <3>2. w \in Workflows /\ w \in table /\ InPool(a)
      BY <1>0, <2>1, <3>1 DEF Due, Started, Known, InPool
    <3>3. fin[t].verdict # "none" /\ history'[w] = fin[t].verdict
      BY <1>0, <3>1, <3>2 DEF CoreInv, ReachedInv, CommitInv
    <3>4. ASSUME ActionsOf(w) \cap recalled = {}
          PROVE  Unfinished(w) \subseteq {a} /\ fin[t].verdict = "success"
      BY <2>0, <2>3, <3>1, <3>2, <3>4 DEF CountClaim
    <3>5. Unfinished(w)' \subseteq Unfinished(w) \ {a} /\ ActionsOf(w)' = ActionsOf(w)
      BY <3>1, <3>2 DEF Unfinished, ActionsOf
    <3> QED BY <2>2, <3>1, <3>2, <3>3, <3>4, <3>5 DEF ClosedFor, Gone
  <2>6. ~FinishCount(t) /\ ~FinishWrite(t)
    BY DEF FinishCount, FinishWrite, ghosts
  <2> QED BY <1>2, <2>4, <2>5, <2>6 DEF FinishStep
<1>3. CASE ~EnginePowerOn /\ ~\E t \in Threads : FinishStep(t)
  BY <1>3 DEF Next, EngineStep, EngineRead, EngineClearSkip, EngineSend, EngineTimeOut,
     EngineFinished, EngineRun, EngineAck, EngineStore, EnginePause, EngineResume, EngineDelete,
     EngineRollback, TakeFeedback, SenderCall, Create, Request, GiveUp, LockWorkflow,
     UnlockWorkflow, SkipAction, Answer, Tick, Lose, Crash, vars, ghosts
<1> QED BY <1>1, <1>2, <1>3

\* When senders end actions for a recorded success or failure only, FinishAction removes
\* a workflow only when all its actions are finished, and the history it writes says
\* success (action.cpp:2808, MakeWorkflowHistory), however often feedback is repeated, in
\* whatever order the engine and the senders end the actions, and through crashes; unless
\* an action was restarted while feedback waited at which its sender ends it.
THEOREM ClosedCorrect ==
  ASSUME OrderlySenders
  PROVE  Spec => []ClosedIsFinished
<1>1. Init => ClosingInv
  <2> SUFFICES ASSUME Init PROVE ClosingInv
    OBVIOUS
  <2>1. table = {} /\ closed = {} /\ \A t \in Threads : fin[t] = NoCall
    BY DEF Init
  <2>2. Present = {} /\ Engine \in Threads
    BY <2>1 DEF Present, InPool, Threads
  <2> QED BY <2>1, <2>2 DEF ClosingInv, EngineCalls, CountClaim
<1>2. CoreInv /\ ClosingInv /\ [Next]_vars => ClosingInv'
  <2> SUFFICES ASSUME CoreInv, ClosingInv, [Next]_vars PROVE ClosingInv'
    OBVIOUS
  <2>1. TypeOK /\ EngineCalls /\ (\A b \in Present : Claim(b)) /\ (\A t \in Threads : CountClaim(t))
    BY DEF ClosingInv, CoreInv
  <2>2. finished \subseteq finished' /\ recalled \subseteq recalled'
    BY <2>1, NothingTakenBack
  <2>3. EngineCalls' /\ \A a \in Present' : Claim(a)'
    BY <2>1, CallSteps, ClaimStep
  <2>4. \A t \in Threads : CountClaim(t)'
    BY <2>1, <2>2, CountStep
  <2>5. ASSUME NEW w \in closed' PROVE ClosedFor(w)'
    <3>1. CASE w \notin closed
      BY <2>1, <3>1, ClosingStep
    <3>2. CASE w \in closed
      <4>1. w \in Workflows /\ ClosedFor(w)
        BY <2>1, <3>2 DEF ClosingInv, TypeOK, GhostsType
      <4>2. w \notin table' /\ history'[w] = history[w]
        BY <4>1, GoneStep DEF ClosedFor
      <4>3. Unfinished(w)' \subseteq Unfinished(w)
        BY <2>2 DEF Unfinished, ActionsOf
      <4> QED BY <2>2, <4>1, <4>2, <4>3 DEF ClosedFor, Gone, ActionsOf
    <3> QED BY <3>1, <3>2
  <2> QED BY <2>3, <2>4, <2>5 DEF ClosingInv
<1>3. ClosingInv => ClosedIsFinished
  BY DEF ClosingInv, ClosedFor, ClosedIsFinished
<1> QED BY <1>1, <1>2, <1>3, WorkflowInvariant, PTL DEF Spec

=============================================================================
