--------------------------- MODULE WorkflowProofs ---------------------------
(***************************************************************************)
(* Type correctness of Workflow, what DoAction and TakeFeedback can do at  *)
(* all, and the safety of the engine, for every set of workflows and       *)
(* actions, every order between the actions, every behaviour of senders    *)
(* and receivers and every bound.                                          *)
(***************************************************************************)
EXTENDS Workflow, FiniteSetTheorems, TLAPS

USE GraphAssumption, RollbackAssumption, AttributeAssumption, EnvironmentAssumption

\* The fields of a message of the engine's queue.
LEMMA MessageFields ==
  ASSUME NEW m \in Messages
  PROVE  /\ m.kind \in {"timer", "poweron", "wakeup", "ack"} \cup Requests
         /\ m.kind = "wakeup" => m.w \in Workflows
         /\ m.kind = "ack" => m.a \in Actions /\ m.state \in {"running", "success", "failed"}
         /\ m.kind \in Requests => m.w \in Workflows /\ m.id \in 1..MaxCalls
BY DEF Messages, Requests

\* What the senders of messages put in the queue.
LEMMA MessageTypes ==
  /\ TimerMsg \in Messages /\ PowerOnMsg \in Messages
  /\ \A w \in Workflows : WakeupMsg(w) \in Messages
  /\ \A a \in Actions, st \in {"running", "success", "failed"} : AckMsg(a, st) \in Messages
  /\ \A k \in Requests, w \in Workflows, n \in 1..MaxCalls : RequestMsg(k, w, n) \in Messages
BY DEF Messages, TimerMsg, PowerOnMsg, WakeupMsg, AckMsg, RequestMsg

\* The message at the head of the queue (Receive).
LEMMA HeadType ==
  ASSUME TypeOK, NEW kinds, Receive(kinds)
  PROVE  /\ Head(inbox) \in Messages /\ Head(inbox).kind \in kinds
         /\ Tail(inbox) \in Seq(Messages) /\ pc = "run" /\ todo = {}
         /\ inbox # <<>>
BY DEF TypeOK, EngineType, Receive, Resting

\* A copy of a row has the type of the engine's Action object.
LEMMA RowType ==
  ASSUME TypeOK, NEW a \in Actions
  PROVE  Row(a) \in RowCopies /\ Row(a).a = a
BY DEF TypeOK, TablesType, Row, RowCopies

\* What GetActionState returns, and what it takes for an outcome.
LEMMA ActionStateOf ==
  ASSUME NEW c \in RowCopies
  PROVE  /\ GetActionState(c) \in States
         /\ GetActionState(c) = "ready" => c.state = "ready"
         /\ GetActionState(c) = "running" => c.state = "running"
         /\ GetActionState(c) \in Outcomes => c.state # "ready" \/ c.repeat # 0
         /\ GetActionState(c) \in {"ready", "running"} => c.state \notin Outcomes
         /\ GetActionState(c) = "timeout" /\ c.state # "timeout" => c.state \notin Outcomes
<1>1. Limit[c.a] > 0 /\ c.repeat >= Limit[c.a] => c.repeat # 0
  BY DEF RowCopies
<1> QED BY <1>1 DEF GetActionState, RowCopies, States, Outcomes

\* The verdicts of MakeWorkflowHistory.
LEMMA VerdictType ==
  /\ \A w \in Workflows : Verdict(w) \in {"success", "failed", "cancelled"}
  /\ \A a \in Actions : VerdictTx(a) \in {"success", "failed", "cancelled"}
BY DEF Verdict, VerdictTx

\* The engine starts FinishAction for the action in its hands.
EngineFinishes(a) ==
  /\ pc' = "finish" /\ mailbox' = mailbox
  /\ fin' = [fin EXCEPT ![Engine] = FinishCall(a, FALSE)]

\* The engine reports some outcome of the action in its hands.
EngineReports(a) ==
  /\ pc' = "run" /\ fin' = fin
  /\ \E st \in Outcomes : <<a, st>> \in Feedback /\ mailbox' = OneMore(<<a, st>>)

\* The four ways out of DoAction (engine.cpp:706): nothing, a call of FinishAction,
\* a feedback, or one of the steps that write to the table first.
LEMMA DoActionCases ==
  ASSUME NEW c \in RowCopies, NEW m, DoAction(c, m)
  PROVE  /\ cur' = c
         /\ \/ pc' = "run" /\ UNCHANGED <<mailbox, fin>>
            \/ EngineFinishes(c.a)
            \/ EngineReports(c.a) /\ (c.state # "ready" \/ c.repeat # 0)
            \/ pc' = "clear" /\ UNCHANGED <<mailbox, fin>> /\ m # "ack"
            \/ pc' = "send" /\ UNCHANGED <<mailbox, fin>> /\ m # "ack"
                 /\ (c.state = "running" \/ UndoOf[c.a] = None)
            \/ pc' = "time" /\ UNCHANGED <<mailbox, fin>> /\ c.state \notin Outcomes
                 /\ (c.state # "ready" \/ c.repeat # 0)
<1> DEFINE st == GetActionState(c)
<1>1. /\ st \in States
      /\ st = "running" => c.state = "running"
      /\ st \in Outcomes => c.state # "ready" \/ c.repeat # 0
      /\ st = "timeout" /\ c.state # "timeout" => c.state \notin Outcomes
  BY ActionStateOf
<1> HIDE DEF st
<1>2. ASSUME st \in Outcomes, Report(c.a, st)
      PROVE  EngineFinishes(c.a) \/ EngineReports(c.a)
  BY <1>2 DEF Report, EngineFinishes, EngineReports
<1>3. cur' = c
  BY DEF DoAction
<1>4. CASE Ignored(st, m)
  BY <1>3, <1>4 DEF DoAction, st
<1>5. CASE ~Ignored(st, m) /\ st \in {"ready", "running"} /\ c.skipped
  BY <1>3, <1>5 DEF DoAction, st, EngineFinishes
<1>6. CASE ~Ignored(st, m) /\ st \in {"ready", "running"} /\ ~c.skipped
  BY <1>1, <1>3, <1>6 DEF DoAction, st, Ignored
<1>7. CASE ~Ignored(st, m) /\ st = "timeout" /\ c.state # "timeout"
  <2>1. pc' = "time" /\ UNCHANGED <<mailbox, fin>>
    BY <1>7 DEF DoAction, st
  <2> QED BY <1>1, <1>3, <1>7, <2>1 DEF Outcomes
<1>8. CASE ~Ignored(st, m) /\ st \notin {"ready", "running"}
             /\ ~(st = "timeout" /\ c.state # "timeout")
  <2>1. Report(c.a, st)
    BY <1>8 DEF DoAction, st
  <2>2. st \in Outcomes
    BY <1>1, <1>8 DEF States, Outcomes
  <2> QED BY <1>1, <1>2, <1>3, <2>1, <2>2
<1>9. c.skipped \in BOOLEAN
  BY DEF RowCopies
<1> QED BY <1>4, <1>5, <1>6, <1>7, <1>8, <1>9

\* A call of FinishAction that starts is well typed.
LEMMA FinishCallType ==
  ASSUME TypeOK, NEW a \in Actions, NEW t \in Threads, NEW tx \in BOOLEAN,
         fin' = [fin EXCEPT ![t] = FinishCall(a, tx)]
  PROVE  /\ fin' \in [Threads -> FinCalls]
         /\ \A u \in Threads : fin'[u].at # "none" => fin'[u].a \in Actions
         /\ \A u \in Threads : fin'[u] = IF u = t THEN FinishCall(a, tx) ELSE fin[u]
<1>1. FinishCall(a, tx) \in FinCalls /\ FinishCall(a, tx).a = a
  BY DEF FinishCall, FinCalls
<1>2. fin \in [Threads -> FinCalls] /\ \A u \in Threads : fin[u].at # "none" => fin[u].a \in Actions
  BY DEF TypeOK, CallersType
<1> QED BY <1>1, <1>2

\* A row added to workflow_history has its type.
LEMMA HistoryRowType ==
  ASSUME TypeOK, NEW w \in Workflows, NEW v \in {"none", "success", "failed", "cancelled"},
         history' = [history EXCEPT ![w] = v]
  PROVE  history' \in [Workflows -> {"none", "success", "failed", "cancelled"}]
BY DEF TypeOK, TablesType

\* The row DeleteWorkflow adds to workflow_history has its type.
LEMMA HistoryType ==
  ASSUME TypeOK, NEW w \in Workflows, history' = [history EXCEPT ![w] = Verdict(w)]
  PROVE  history' \in [Workflows -> {"none", "success", "failed", "cancelled"}]
BY VerdictType, HistoryRowType

\* A queue to which a message may have been added.
LEMMA InboxType ==
  ASSUME TypeOK, NEW m \in Messages, inbox' = inbox \/ inbox' = Append(inbox, m)
  PROVE  inbox' \in Seq(Messages)
<1>1. inbox \in Seq(Messages)
  BY DEF TypeOK
<1>2. Append(inbox, m) \in Seq(Messages)
  BY <1>1
<1> QED BY <1>1, <1>2

\* What a step leaves alone keeps its type.
LEMMA TypeUnchanged ==
  ASSUME TypeOK
  PROVE  /\ UNCHANGED tables => TablesType'
         /\ UNCHANGED engine => EngineType'
         /\ UNCHANGED callers => CallersType'
         /\ UNCHANGED ghosts => GhostsType'
         /\ UNCHANGED mailbox => MailboxType'
BY DEF TypeOK, tables, engine, callers, ghosts, TablesType, EngineType, CallersType, GhostsType,
       MailboxType

\* Another copy of a feedback in the mailbox.
LEMMA OneMoreMail ==
  ASSUME TypeOK, NEW f \in Feedback, mailbox' = OneMore(f)
  PROVE  MailboxType' /\ Waiting' \subseteq Waiting \cup {f}
<1>1. mailbox \in [Feedback -> Nat] /\ Copies \in [Feedback -> Nat \ {0}]
      /\ \A g \in Feedback : mailbox[g] <= Copies[g]
  BY DEF TypeOK, MailboxType
<1>2. mailbox' = [mailbox EXCEPT ![f] = IF mailbox[f] < Copies[f] THEN mailbox[f] + 1 ELSE mailbox[f]]
  BY DEF OneMore
<1>3. MailboxType'
  BY <1>1, <1>2 DEF MailboxType
<1>4. \A g \in Feedback : g # f => mailbox'[g] = mailbox[g]
  BY <1>1, <1>2
<1> QED BY <1>3, <1>4 DEF Waiting

\* A copy of a feedback is taken out of the mailbox.
LEMMA TakenMail ==
  ASSUME TypeOK, NEW f \in Waiting, mailbox' = [mailbox EXCEPT ![f] = mailbox[f] - 1]
  PROVE  MailboxType' /\ Waiting' \subseteq Waiting
<1>1. mailbox \in [Feedback -> Nat] /\ Copies \in [Feedback -> Nat \ {0}]
      /\ \A g \in Feedback : mailbox[g] <= Copies[g]
  BY DEF TypeOK, MailboxType
<1>2. f \in Feedback /\ mailbox[f] > 0
  BY DEF Waiting
<1>3. MailboxType'
  BY <1>1, <1>2 DEF MailboxType
<1> QED BY <1>1, <1>2, <1>3 DEF Waiting

\* The engine puts feedback of the right type into the mailbox.
LEMMA ReportedMail ==
  ASSUME TypeOK, NEW a \in Actions, EngineFinishes(a) \/ EngineReports(a) \/ UNCHANGED mailbox
  PROVE  MailboxType' /\ \A f \in Waiting' : f \in Waiting \/ f[1] = a
<1>1. CASE EngineReports(a)
  <2>1. PICK st \in Outcomes : <<a, st>> \in Feedback /\ mailbox' = OneMore(<<a, st>>)
    BY <1>1 DEF EngineReports
  <2> QED BY <2>1, OneMoreMail
<1>2. CASE mailbox' = mailbox
  BY <1>2 DEF TypeOK, MailboxType, Waiting
<1> QED BY <1>1, <1>2 DEF EngineFinishes

\* DoAction keeps the types of what it writes.
LEMMA DoActionType ==
  ASSUME TypeOK, NEW c \in RowCopies, NEW m, DoAction(c, m),
         mode' \in {"cycle", "wakeup", "ack"}, todo' \subseteq Actions,
         UNCHANGED <<wait, holder, locks>>
  PROVE  EngineType' /\ CallersType' /\ MailboxType'
<1>1. c.a \in Actions
  BY DEF RowCopies
<1>2. cur' = c /\ pc' \in {"run", "clear", "send", "time", "finish"}
  BY DoActionCases DEF EngineFinishes, EngineReports
<1>3. EngineType'
  BY <1>2 DEF EngineType
<1>4. MailboxType'
  BY <1>1, DoActionCases, ReportedMail
<1>5. fin' = fin \/ fin' = [fin EXCEPT ![Engine] = FinishCall(c.a, FALSE)]
  BY DoActionCases DEF EngineFinishes, EngineReports
<1>6. /\ fin' \in [Threads -> FinCalls]
      /\ \A t \in Threads : fin'[t].at # "none" => fin'[t].a \in Actions
  BY <1>1, <1>5, FinishCallType DEF TypeOK, CallersType, Threads
<1>7. CallersType'
  BY <1>6 DEF TypeOK, CallersType
<1> QED BY <1>3, <1>4, <1>7

\* The answer to a request keeps the types of the callers.
LEMMA ReplyType ==
  ASSUME TypeOK, NEW n, ReplyTo(n)
  PROVE  CallersType'
<1>1. NoWait \in Waits
  BY DEF NoWait, Waits
<1>2. wait' \in [Senders -> Waits]
  BY <1>1 DEF ReplyTo, TypeOK, CallersType
<1> QED BY <1>2 DEF ReplyTo, TypeOK, CallersType

\* A request at the head of the queue is for a workflow.
LEMMA RequestType ==
  ASSUME TypeOK, NEW k \in Requests, Receive({k})
  PROVE  /\ Head(inbox).w \in Workflows /\ Tail(inbox) \in Seq(Messages)
         /\ Head(inbox).kind = k
         /\ UNCHANGED engine => EngineType'
BY HeadType, MessageFields, TypeUnchanged

\* Every step of the loop of Run and of DoAction keeps the types.
LEMMA RunTypeStep ==
  ASSUME TypeOK, EngineRead \/ EngineClearSkip \/ EngineSend \/ EngineTimeOut \/ EngineFinished
  PROVE  TypeOK'
<1>1. CASE EngineRead
  <2>1. PICK a \in todo :
          /\ todo' = todo \ {a}
          /\ IF InPool(a) /\ FlowOf[a] \notin paused /\ a \notin finished
             THEN DoAction(Row(a), mode)
             ELSE UNCHANGED <<pc, cur, mailbox, fin>>
    BY <1>1 DEF EngineRead
  <2>2. a \in Actions /\ Row(a) \in RowCopies
    BY <2>1, RowType DEF TypeOK, EngineType
  <2>3. /\ mode' \in {"cycle", "wakeup", "ack"} /\ todo' \subseteq Actions
        /\ UNCHANGED <<tables, inbox, mode, wait, holder, locks, requests, ghosts>>
    BY <1>1, <2>1 DEF EngineRead, TypeOK, EngineType
  <2>4. EngineType' /\ CallersType' /\ MailboxType'
    <3>1. CASE UNCHANGED <<pc, cur, mailbox, fin>>
      BY <2>3, <3>1, TypeUnchanged DEF TypeOK, EngineType, CallersType
    <3>2. CASE DoAction(Row(a), mode)
      BY <2>2, <2>3, <3>2, DoActionType
    <3> QED BY <2>1, <3>1, <3>2
  <2>5. TablesType' /\ GhostsType' /\ inbox' \in Seq(Messages) /\ requests' \subseteq Actions
    BY <2>3, TypeUnchanged DEF TypeOK
  <2> QED BY <2>4, <2>5 DEF TypeOK
<1>2. CASE EngineClearSkip
  <2>1. TablesType' /\ EngineType'
    BY <1>2 DEF EngineClearSkip, TypeOK, TablesType, EngineType
  <2> QED BY <1>2, <2>1, TypeUnchanged DEF EngineClearSkip, TypeOK, outside
<1>3. CASE EngineSend
  <2>1. cur \in RowCopies /\ cur.a \in Actions /\ cur.repeat \in 0..MaxRepeat
    BY <1>3 DEF EngineSend, TypeOK, EngineType, RowCopies
  <2>2. CountUp(cur.repeat) \in 0..MaxRepeat
    BY <2>1 DEF CountUp
  <2>3. TablesType' /\ EngineType' /\ GhostsType' /\ requests' \subseteq Actions
    BY <1>3, <2>1, <2>2 DEF EngineSend, TypeOK, TablesType, EngineType, GhostsType
  <2> QED BY <1>3, <2>3, TypeUnchanged DEF EngineSend, TypeOK
<1>4. CASE EngineTimeOut
  <2>1. cur \in RowCopies /\ cur.a \in Actions
    BY <1>4 DEF EngineTimeOut, TypeOK, EngineType, RowCopies
  <2>2. TablesType'
    BY <1>4, <2>1 DEF EngineTimeOut, TypeOK, TablesType, States, Outcomes
  <2>3. EngineFinishes(cur.a) \/ EngineReports(cur.a)
    BY <1>4 DEF EngineTimeOut, Report, EngineFinishes, EngineReports, Outcomes
  <2>4. EngineType' /\ MailboxType'
    <3>1. EngineType'
      BY <1>4, <2>1, <2>3 DEF EngineTimeOut, TypeOK, EngineType, EngineFinishes, EngineReports
    <3> QED BY <2>1, <2>3, <3>1, ReportedMail
  <2>5. /\ fin' \in [Threads -> FinCalls]
        /\ \A t \in Threads : fin'[t].at # "none" => fin'[t].a \in Actions
    BY <2>1, <2>3, FinishCallType DEF EngineFinishes, EngineReports, TypeOK, CallersType, Threads
  <2>6. CallersType'
    BY <1>4, <2>5 DEF EngineTimeOut, TypeOK, CallersType
  <2> QED BY <1>4, <2>2, <2>4, <2>6, TypeUnchanged DEF EngineTimeOut, TypeOK
<1>5. CASE EngineFinished
  <2>1. WakeupMsg(FlowOf[cur.a]) \in Messages
    BY <1>5, MessageTypes DEF EngineFinished, TypeOK, EngineType, RowCopies
  <2>2. EngineType' /\ inbox' \in Seq(Messages)
    BY <1>5, <2>1 DEF EngineFinished, TypeOK, EngineType
  <2> QED BY <1>5, <2>2, TypeUnchanged DEF EngineFinished, TypeOK, outside
<1> QED BY <1>1, <1>2, <1>3, <1>4, <1>5

\* Every handler of a message of the engine keeps the types.
LEMMA HandlerTypeStep ==
  ASSUME TypeOK, EnginePowerOn \/ EngineRun \/ EngineAck \/ EngineStore
  PROVE  TypeOK'
<1>1. CASE EnginePowerOn
  <2>1. GhostsType' /\ EngineType'
    <3>1. closed' \subseteq Workflows /\ todo' \subseteq Actions
      BY <1>1 DEF EnginePowerOn, TypeOK, TablesType, GhostsType, RunningActions
    <3>2. GhostsType'
      BY <1>1, <3>1 DEF EnginePowerOn, TypeOK, GhostsType
    <3> QED BY <1>1, <3>1, <3>2 DEF EnginePowerOn, TypeOK, EngineType
  <2>2. TablesType'
    BY <1>1 DEF EnginePowerOn, TypeOK, TablesType
  <2>3. inbox' \in Seq(Messages)
    BY <1>1, HeadType DEF EnginePowerOn
  <2> QED BY <1>1, <2>1, <2>2, <2>3, TypeUnchanged DEF EnginePowerOn, TypeOK, outside
<1>2. CASE EngineRun
  <2>1. EngineType'
    BY <1>2 DEF EngineRun, TypeOK, EngineType, RunMode, RunningActions
  <2>2. inbox' \in Seq(Messages)
    BY <1>2, HeadType DEF EngineRun
  <2> QED BY <1>2, <2>1, <2>2, TypeUnchanged DEF EngineRun, TypeOK, outside
<1>3. CASE EngineAck
  <2>1. Head(inbox) \in Messages /\ Head(inbox).kind = "ack" /\ inbox' \in Seq(Messages)
    BY <1>3, HeadType DEF EngineAck
  <2>2. Head(inbox).a \in Actions /\ Head(inbox).state \in States
    BY <2>1, MessageFields DEF States, Outcomes
  <2>3. Row(Head(inbox).a) \in RowCopies
    BY <2>2, RowType
  <2> DEFINE new == [Row(Head(inbox).a) EXCEPT !.state =
            IF Head(inbox).state = "failed" /\ Head(inbox).a \in Retry THEN "running"
            ELSE Head(inbox).state]
  <2>4. new \in RowCopies
    BY <2>2, <2>3 DEF RowCopies, States
  <2>5. EngineType'
    <3>1. CASE Accepted(Head(inbox).a)
      <4>1. cur' = new /\ pc' = "store" /\ mode' = "ack" /\ todo' = todo
        BY <1>3, <3>1 DEF EngineAck
      <4> QED BY <2>4, <4>1 DEF TypeOK, EngineType
    <3>2. CASE ~Accepted(Head(inbox).a)
      BY <1>3, <3>2 DEF EngineAck, TypeOK, EngineType
    <3> QED BY <3>1, <3>2
  <2> QED BY <1>3, <2>1, <2>5, TypeUnchanged DEF EngineAck, TypeOK, outside
<1>4. CASE EngineStore
  <2>1. cur \in RowCopies /\ cur.a \in Actions /\ cur.state \in States
    BY <1>4 DEF EngineStore, TypeOK, EngineType, RowCopies
  <2>2. TablesType'
    BY <1>4, <2>1 DEF EngineStore, TypeOK, TablesType
  <2>3. EngineType' /\ CallersType' /\ MailboxType'
    <3>1. DoAction(cur, "ack") /\ UNCHANGED <<wait, holder, locks>>
      BY <1>4 DEF EngineStore
    <3>2. mode' \in {"cycle", "wakeup", "ack"} /\ todo' \subseteq Actions
      BY <1>4 DEF EngineStore, TypeOK, EngineType
    <3> QED BY <2>1, <3>1, <3>2, DoActionType
  <2> QED BY <1>4, <2>2, <2>3, TypeUnchanged DEF EngineStore, TypeOK
<1> QED BY <1>1, <1>2, <1>3, <1>4

\* Every request the engine executes for a caller keeps the types.
LEMMA RequestTypeStep ==
  ASSUME TypeOK, EnginePause \/ EngineResume \/ EngineDelete \/ EngineRollback
  PROVE  TypeOK'
<1> USE MessageTypes
<1>1. CASE EnginePause
  <2> DEFINE w == Head(inbox).w
  <2>1. w \in Workflows /\ Tail(inbox) \in Seq(Messages) /\ EngineType'
    <3>1. Receive({"pause"}) /\ UNCHANGED engine
      BY <1>1 DEF EnginePause
    <3>2. "pause" \in Requests
      BY DEF Requests
    <3> QED BY <3>1, <3>2, RequestType
  <2>2. TablesType' /\ GhostsType' /\ inbox' \in Seq(Messages)
    BY <1>1, <2>1 DEF EnginePause, TypeOK, TablesType, GhostsType
  <2>3. CallersType'
    BY <1>1, ReplyType DEF EnginePause
  <2> QED BY <1>1, <2>1, <2>2, <2>3, TypeUnchanged DEF EnginePause, TypeOK, outside
<1>2. CASE EngineResume
  <2> DEFINE w == Head(inbox).w
  <2>1. w \in Workflows /\ Tail(inbox) \in Seq(Messages) /\ EngineType'
    <3>1. Receive({"resume"}) /\ UNCHANGED engine
      BY <1>2 DEF EngineResume
    <3>2. "resume" \in Requests
      BY DEF Requests
    <3> QED BY <3>1, <3>2, RequestType
  <2>2. TablesType' /\ GhostsType' /\ inbox' \in Seq(Messages)
    BY <1>2, <2>1, TypeUnchanged DEF EngineResume, TypeOK, TablesType
  <2>3. CallersType'
    BY <1>2, ReplyType DEF EngineResume
  <2> QED BY <1>2, <2>1, <2>2, <2>3, TypeUnchanged DEF EngineResume, TypeOK, outside
<1>3. CASE EngineDelete
  <2> DEFINE w == Head(inbox).w
  <2>1. w \in Workflows /\ Tail(inbox) \in Seq(Messages) /\ EngineType'
    <3>1. Receive({"delete"}) /\ UNCHANGED engine
      BY <1>3 DEF EngineDelete
    <3>2. "delete" \in Requests
      BY DEF Requests
    <3> QED BY <3>1, <3>2, RequestType
  <2>2. TablesType' /\ GhostsType' /\ inbox' \in Seq(Messages)
    <3>1. \/ UNCHANGED <<table, history>>
          \/ table' \subseteq table /\ history' = [history EXCEPT ![w] = Verdict(w)]
      BY <1>3 DEF EngineDelete
    <3>2. TablesType'
      <4>1. UNCHANGED <<paused, state, repeat, skipped, finished>>
        BY <1>3 DEF EngineDelete
      <4> QED BY <2>1, <3>1, <4>1, HistoryType DEF TypeOK, TablesType
    <3> QED BY <1>3, <2>1, <3>2, TypeUnchanged DEF EngineDelete, TypeOK
  <2>3. CallersType'
    BY <1>3, ReplyType DEF EngineDelete
  <2> QED BY <1>3, <2>1, <2>2, <2>3, TypeUnchanged DEF EngineDelete, TypeOK, outside
<1>4. CASE EngineRollback
  <2> DEFINE w == Head(inbox).w
  <2>1. w \in Workflows /\ Tail(inbox) \in Seq(Messages) /\ EngineType'
    <3>1. Receive({"rollback"}) /\ UNCHANGED engine
      BY <1>4 DEF EngineRollback
    <3>2. "rollback" \in Requests
      BY DEF Requests
    <3> QED BY <3>1, <3>2, RequestType
  <2>2. TablesType' /\ GhostsType'
    <3>1. \/ UNCHANGED <<table, history, paused, undone>>
          \/ /\ table' \subseteq table /\ history' = [history EXCEPT ![w] = Verdict(w)]
             /\ paused' \subseteq paused /\ undone' \subseteq undone \cup Workflows
      BY <1>4 DEF EngineRollback
    <3>2. TablesType'
      <4>1. UNCHANGED <<state, repeat, skipped, finished>>
        BY <1>4 DEF EngineRollback
      <4> QED BY <2>1, <3>1, <4>1, HistoryType DEF TypeOK, TablesType
    <3> QED BY <1>4, <3>1, <3>2 DEF EngineRollback, TypeOK, GhostsType
  <2>3. inbox' \in Seq(Messages)
    <3> DEFINE r == RollbackOf[w]
    <3>1. r # None => r \in Workflows
      BY <2>1
    <3>2. r # None => <<WakeupMsg(r), TimerMsg>> \in Seq(Messages)
      BY <3>1
    <3>3. \/ inbox' = Tail(inbox) \o <<WakeupMsg(r), TimerMsg>> /\ r # None
          \/ inbox' = Append(Tail(inbox), TimerMsg)
      BY <1>4 DEF EngineRollback
    <3>4. CASE inbox' = Append(Tail(inbox), TimerMsg)
      BY <2>1, <3>4
    <3>5. CASE inbox' = Tail(inbox) \o <<WakeupMsg(r), TimerMsg>> /\ r # None
      <4> DEFINE q == <<WakeupMsg(r), TimerMsg>>
      <4>1. q \in Seq(Messages) /\ inbox' = Tail(inbox) \o q
        BY <3>2, <3>5
      <4> HIDE DEF q
      <4> QED BY <2>1, <4>1
    <3> QED BY <3>3, <3>4, <3>5
  <2>4. CallersType'
    BY <1>4, ReplyType DEF EngineRollback
  <2> QED BY <1>4, <2>1, <2>2, <2>3, <2>4, TypeUnchanged DEF EngineRollback, TypeOK, outside
<1> QED BY <1>1, <1>2, <1>3, <1>4

\* A call of FinishAction that moves on, or returns, is well typed.
LEMMA FinishMoveType ==
  ASSUME TypeOK, NEW t \in Threads, NEW c \in FinCalls, c.at # "none" => c.a \in Actions,
         fin' = [fin EXCEPT ![t] = c], UNCHANGED <<wait, holder, locks>>
  PROVE  CallersType'
<1>1. fin \in [Threads -> FinCalls] /\ \A u \in Threads : fin[u].at # "none" => fin[u].a \in Actions
  BY DEF TypeOK, CallersType
<1>2. \A u \in Threads : fin'[u] = IF u = t THEN c ELSE fin[u]
  BY <1>1
<1> QED BY <1>1, <1>2 DEF TypeOK, CallersType

\* Every step of FinishAction keeps the types.
LEMMA FinishTypeStep ==
  ASSUME TypeOK, NEW t \in Threads, FinishStep(t)
  PROVE  TypeOK'
<1> DEFINE a == fin[t].a
           w == FlowOf[a]
<1>1. fin[t] \in FinCalls /\ a \in Actions /\ w \in Workflows /\ fin[t].at # "none"
  BY DEF FinishStep, FinishCount, FinishWrite, FinishDelete, FinishCommit, TypeOK, CallersType
<1>2. NoCall \in FinCalls /\ NoCall.at = "none"
  BY DEF NoCall, FinCalls
<1>3. WakeupMsg(w) \in Messages
  BY <1>1, MessageTypes
<1>4. CASE FinishCount(t)
  <2>1. UNCHANGED <<tables, engine, wait, holder, locks, outside, ghosts>>
    BY <1>4 DEF FinishCount
  <2>2. CASE ~InPool(a) \/ GetUnfinishedActionsCount(w) = 0
    <3>1. fin' = [fin EXCEPT ![t] = NoCall] /\ inbox' = inbox
      BY <1>4, <2>2 DEF FinishCount
    <3> QED BY <1>2, <2>1, <3>1, FinishMoveType, TypeUnchanged DEF TypeOK, outside
  <2>3. CASE ~(~InPool(a) \/ GetUnfinishedActionsCount(w) = 0)
    <3> DEFINE n == GetUnfinishedActionsCount(w)
               c == [fin[t] EXCEPT !.at = IF fin[t].tx THEN "commit" ELSE "write",
                                   !.count = n,
                                   !.verdict = IF fin[t].tx THEN VerdictTx(a) ELSE "none"]
    <3>1. n \in Nat
      <4>1. IsFiniteSet(Unfinished(w))
        BY FiniteActions, FS_Subset DEF Unfinished, ActionsOf
      <4> QED BY <4>1, FS_CardinalityType DEF GetUnfinishedActionsCount
    <3>2. c \in FinCalls /\ c.a = a
      BY <1>1, <3>1, VerdictType DEF FinCalls
    <3>3. /\ fin' = [fin EXCEPT ![t].at = IF fin[t].tx THEN "commit" ELSE "write",
                               ![t].count = n,
                               ![t].verdict = IF fin[t].tx THEN VerdictTx(a) ELSE "none"]
          /\ inbox' = inbox \/ inbox' = Append(inbox, WakeupMsg(w))
      BY <1>4, <2>3 DEF FinishCount
    <3>4. fin' = [fin EXCEPT ![t] = c]
      <4>1. fin \in [Threads -> FinCalls]
        BY DEF TypeOK, CallersType
      <4> HIDE DEF n, a
      <4> QED BY <3>3, <4>1 DEF FinCalls
    <3>5. inbox' \in Seq(Messages)
      BY <1>3, <3>3, InboxType
    <3> HIDE DEF c
    <3> QED BY <1>1, <2>1, <3>2, <3>4, <3>5, FinishMoveType, TypeUnchanged DEF TypeOK, outside
  <2> QED BY <2>2, <2>3
<1>5. CASE FinishWrite(t)
  <2>1. /\ UNCHANGED <<table, paused, state, repeat, skipped, history, engine,
                       wait, holder, locks, outside, ghosts>>
        /\ finished' \subseteq finished \cup {a}
    BY <1>5 DEF FinishWrite
  <2>2. TablesType'
    BY <1>1, <2>1 DEF TypeOK, TablesType
  <2>3. inbox' \in Seq(Messages)
    <3>1. inbox' = inbox \/ inbox' = Append(inbox, WakeupMsg(w))
      BY <1>5 DEF FinishWrite
    <3> QED BY <1>3, <3>1, InboxType
  <2> DEFINE c == [fin[t] EXCEPT !.at = "delete"]
  <2>4. c \in FinCalls /\ c.a = a
    BY <1>1 DEF FinCalls
  <2>5. fin' = [fin EXCEPT ![t] = c] \/ fin' = [fin EXCEPT ![t] = NoCall]
    BY <1>5 DEF FinishWrite, TypeOK, CallersType
  <2>6. CallersType'
    <3> HIDE DEF c
    <3> QED BY <1>1, <1>2, <2>1, <2>4, <2>5, FinishMoveType
  <2> QED BY <2>1, <2>2, <2>3, <2>6, TypeUnchanged DEF TypeOK, outside
<1>6. CASE FinishDelete(t)
  <2>1. /\ UNCHANGED <<paused, state, repeat, skipped, finished, inbox, engine, wait, holder, locks,
                   outside, calls, crashes, asked, restarted, recalled, undone, quiet, gaveup>>
        /\ fin' = [fin EXCEPT ![t] = NoCall]
        /\ table' \subseteq table /\ closed' \subseteq closed \cup {w}
        /\ history' = history \/ history' = [history EXCEPT ![w] = Verdict(w)]
    BY <1>6 DEF FinishDelete
  <2>2. history' \in [Workflows -> {"none", "success", "failed", "cancelled"}]
    BY <1>1, <2>1, HistoryType DEF TypeOK, TablesType
  <2>3. TablesType'
    BY <1>1, <2>1, <2>2 DEF TypeOK, TablesType
  <2>4. GhostsType'
    BY <1>1, <2>1 DEF TypeOK, GhostsType
  <2> QED BY <1>2, <2>1, <2>3, <2>4, FinishMoveType, TypeUnchanged DEF TypeOK, outside
<1>7. CASE FinishCommit(t)
  <2>1. /\ UNCHANGED <<paused, state, repeat, skipped, inbox, engine, wait, holder, locks,
                       outside, calls, crashes, asked, restarted, recalled, undone, quiet, gaveup>>
        /\ fin' = [fin EXCEPT ![t] = NoCall]
        /\ table' \subseteq table /\ closed' \subseteq closed \cup {w}
        /\ finished' \subseteq finished \cup {a}
        /\ history' = history \/ history' = [history EXCEPT ![w] = fin[t].verdict]
    BY <1>7 DEF FinishCommit
  <2>2. fin[t].verdict \in {"none", "success", "failed", "cancelled"}
    BY <1>1 DEF FinCalls
  <2>3. TablesType' /\ GhostsType'
    <3>1. history' \in [Workflows -> {"none", "success", "failed", "cancelled"}]
      <4>1. CASE history' = history
        BY <4>1 DEF TypeOK, TablesType
      <4>2. CASE history' = [history EXCEPT ![w] = fin[t].verdict]
        BY <1>1, <2>2, <4>2, HistoryRowType
      <4> QED BY <2>1, <4>1, <4>2
    <3>2. TablesType'
      BY <1>1, <2>1, <3>1 DEF TypeOK, TablesType
    <3> QED BY <1>1, <2>1, <3>2 DEF TypeOK, GhostsType
  <2> QED BY <1>2, <2>1, <2>3, FinishMoveType, TypeUnchanged DEF TypeOK, outside
<1> QED BY <1>4, <1>5, <1>6, <1>7 DEF FinishStep

\* Every call of a sender keeps the types.
LEMMA AskType ==
  ASSUME TypeOK, NEW s \in Senders, NEW k \in Requests, NEW w \in Workflows, Ask(s, k, w),
         UNCHANGED <<fin, locks, crashes, asked, closed, undone, gaveup, restarted, recalled>>
  PROVE  inbox' \in Seq(Messages) /\ CallersType' /\ GhostsType'
<1>1. calls' = calls + 1 /\ calls' \in 1..MaxCalls
  BY DEF Ask, TypeOK, GhostsType
<1>2. RequestMsg(k, w, calls + 1) \in Messages
  BY <1>1, MessageTypes
<1>3. [kind |-> k, w |-> w, id |-> calls + 1] \in Waits
  BY <1>1 DEF Waits
<1>4. inbox' = inbox \/ inbox' = Append(inbox, RequestMsg(k, w, calls + 1))
  BY DEF Ask
<1>5. /\ \/ wait' = wait
         \/ wait' = [wait EXCEPT ![s] = [kind |-> k, w |-> w, id |-> calls + 1]]
      /\ holder' = holder \/ holder' = s
      /\ quiet' \subseteq quiet
  BY DEF Ask, HolderAfter
<1>6. CallersType'
  <2>1. wait \in [Senders -> Waits] /\ holder \in Senders \cup {None}
    BY DEF TypeOK, CallersType
  <2>2. wait' \in [Senders -> Waits] /\ holder' \in Senders \cup {None}
    BY <1>3, <1>5, <2>1
  <2> QED BY <2>2 DEF TypeOK, CallersType
<1>7. GhostsType'
  BY <1>1, <1>5 DEF TypeOK, GhostsType
<1> QED BY <1>2, <1>4, <1>6, <1>7, InboxType

\* What a sender does about the feedback f: nothing, FinishAction with or without a
\* transaction, RestartAction, or a request to undo or delete the workflow.
FeedbackEffect(s, f) ==
  /\ mailbox' = [mailbox EXCEPT ![f] = mailbox[f] - 1]
  /\ \/ UNCHANGED <<fin, state, restarted, recalled, inbox, wait, holder, quiet, calls>>
     \/ /\ \E tx \in BOOLEAN : fin' = [fin EXCEPT ![s] = FinishCall(f[1], tx)]
        /\ UNCHANGED <<state, restarted, recalled, inbox, wait, holder, quiet, calls>>
     \/ Restart(f[1]) /\ UNCHANGED <<fin, wait, holder, quiet, calls>>
     \/ /\ \E k \in {"rollback", "delete"} : Ask(s, k, FlowOf[f[1]])
        /\ UNCHANGED <<fin, state, restarted, recalled>>

\* TakeFeedback has no other effects.
LEMMA FeedbackCases ==
  ASSUME NEW s \in Senders, TakeFeedback(s)
  PROVE  \E f \in Waiting : FeedbackEffect(s, f)
<1>1. PICK f \in Waiting :
        /\ mailbox' = [mailbox EXCEPT ![f] = mailbox[f] - 1]
        /\ IF Stale(f)
           THEN UNCHANGED <<fin, state, restarted, recalled, inbox, wait, holder, quiet, calls>>
           ELSE \/ /\ "finish" \in Replies[f[2]]
                   /\ fin' = [fin EXCEPT ![s] = FinishCall(f[1], FALSE)]
                   /\ UNCHANGED <<state, restarted, recalled, inbox, wait, holder, quiet, calls>>
                \/ /\ "finishTx" \in Replies[f[2]]
                   /\ fin' = [fin EXCEPT ![s] = FinishCall(f[1], TRUE)]
                   /\ UNCHANGED <<state, restarted, recalled, inbox, wait, holder, quiet, calls>>
                \/ /\ "restart" \in Replies[f[2]]
                   /\ Restart(f[1])
                   /\ UNCHANGED <<fin, wait, holder, quiet, calls>>
                \/ /\ \E k \in {"rollback", "delete"} \cap Replies[f[2]] :
                        Ask(s, k, FlowOf[f[1]])
                   /\ UNCHANGED <<fin, state, restarted, recalled>>
  BY Zenon DEF TakeFeedback
<1>2. TRUE \in BOOLEAN /\ FALSE \in BOOLEAN
  OBVIOUS
<1>3. FeedbackEffect(s, f)
  BY <1>1, <1>2, Zenon DEF FeedbackEffect
<1> QED BY <1>3

\* A sender that takes feedback keeps the types.
LEMMA FeedbackTypeStep ==
  ASSUME TypeOK, NEW s \in Senders, TakeFeedback(s)
  PROVE  TypeOK'
<1>1. PICK f \in Waiting : FeedbackEffect(s, f)
  BY FeedbackCases
<1>2. UNCHANGED <<table, paused, repeat, skipped, finished, history, engine, locks, requests,
                   crashes, asked, closed, undone, gaveup>>
  BY DEF TakeFeedback
<1>3. f[1] \in Actions /\ FlowOf[f[1]] \in Workflows /\ MailboxType'
  BY <1>1, TakenMail DEF FeedbackEffect, Waiting
<1>4. EngineType' /\ requests' \subseteq Actions
  BY <1>2, TypeUnchanged DEF TypeOK
<1>5. CASE UNCHANGED <<fin, state, restarted, recalled, inbox, wait, holder, quiet, calls>>
  BY <1>2, <1>3, <1>4, <1>5, TypeUnchanged DEF TypeOK, tables, callers, ghosts
<1>6. CASE /\ \E tx \in BOOLEAN : fin' = [fin EXCEPT ![s] = FinishCall(f[1], tx)]
           /\ UNCHANGED <<state, restarted, recalled, inbox, wait, holder, quiet, calls>>
  <2>1. s \in Threads
    BY DEF Threads
  <2>2. /\ fin' \in [Threads -> FinCalls]
        /\ \A u \in Threads : fin'[u].at # "none" => fin'[u].a \in Actions
    <3>1. PICK tx \in BOOLEAN : fin' = [fin EXCEPT ![s] = FinishCall(f[1], tx)]
      BY <1>6
    <3> QED BY <1>3, <2>1, <3>1, FinishCallType
  <2>3. CallersType'
    BY <1>2, <1>6, <2>2 DEF TypeOK, CallersType
  <2> QED BY <1>2, <1>3, <1>4, <1>6, <2>3, TypeUnchanged DEF TypeOK, tables, ghosts
<1>7. CASE Restart(f[1]) /\ UNCHANGED <<fin, wait, holder, quiet, calls>>
  <2>1. WakeupMsg(FlowOf[f[1]]) \in Messages
    BY <1>3, MessageTypes
  <2>2. inbox' \in Seq(Messages)
    BY <1>7, <2>1, InboxType DEF Restart
  <2>3. /\ state' = state \/ state' = [state EXCEPT ![f[1]] = "running"]
        /\ restarted' \subseteq restarted \cup {f[1]} /\ recalled' \subseteq recalled \cup {f[1]}
    BY <1>7 DEF Restart
  <2>4. TablesType'
    BY <1>2, <1>3, <2>3 DEF TypeOK, TablesType, States
  <2>5. GhostsType'
    BY <1>2, <1>3, <1>7, <2>3 DEF TypeOK, GhostsType
  <2> QED BY <1>2, <1>3, <1>4, <1>7, <2>2, <2>4, <2>5, TypeUnchanged DEF TypeOK, callers
<1>8. CASE /\ \E k \in {"rollback", "delete"} : Ask(s, k, FlowOf[f[1]])
           /\ UNCHANGED <<fin, state, restarted, recalled>>
  <2>1. inbox' \in Seq(Messages) /\ CallersType' /\ GhostsType'
    BY <1>2, <1>3, <1>8, AskType DEF Requests
  <2> QED BY <1>2, <1>3, <1>4, <1>8, <2>1, TypeUnchanged DEF TypeOK, tables
<1> QED BY <1>1, <1>5, <1>6, <1>7, <1>8 DEF FeedbackEffect

\* The other calls of a sender keep the types.
LEMMA SenderTypeStep ==
  ASSUME TypeOK, NEW s \in Senders, SenderCall(s)
  PROVE  TypeOK'
<1>1. CASE Create(s)
  <2>1. PICK w \in Workflows :
          /\ table' \subseteq table \cup Workflows
          /\ paused' = paused \cup CreatedPaused(w)
          /\ skipped' \subseteq skipped \cup Skipped
          /\ inbox' = Append(inbox, WakeupMsg(w))
    BY <1>1 DEF Create
  <2>2. inbox' \in Seq(Messages)
    BY <2>1, MessageTypes, InboxType
  <2>3. TablesType'
    BY <1>1, <2>1 DEF Create, CreatedPaused, TypeOK, TablesType
  <2> QED BY <1>1, <2>2, <2>3, TypeUnchanged DEF Create, TypeOK, outside
<1>2. CASE Request(s)
  <2>1. PICK k \in Requests, w \in Workflows : Ask(s, k, w)
    BY <1>2 DEF Request
  <2>2. inbox' \in Seq(Messages) /\ CallersType' /\ GhostsType'
    BY <1>2, <2>1, AskType DEF Request
  <2> QED BY <1>2, <2>2, TypeUnchanged DEF Request, TypeOK, outside
<1>3. CASE GiveUp(s)
  <2>1. NoWait \in Waits
    BY DEF NoWait, Waits
  <2>2. CallersType' /\ GhostsType'
    BY <1>3, <2>1 DEF GiveUp, TypeOK, CallersType, GhostsType
  <2> QED BY <1>3, <2>2, TypeUnchanged DEF GiveUp, TypeOK, outside
<1>4. CASE LockWorkflow(s)
  <2>1. CallersType'
    BY <1>4 DEF LockWorkflow, TypeOK, CallersType
  <2> QED BY <1>4, <2>1, TypeUnchanged DEF LockWorkflow, TypeOK, outside
<1>5. CASE UnlockWorkflow(s)
  <2>1. CallersType'
    BY <1>5 DEF UnlockWorkflow, TypeOK, CallersType
  <2> QED BY <1>5, <2>1, TypeUnchanged DEF UnlockWorkflow, TypeOK, outside
<1>6. CASE SkipAction(s)
  <2>1. TablesType'
    BY <1>6 DEF SkipAction, TypeOK, TablesType
  <2> QED BY <1>6, <2>1, TypeUnchanged DEF SkipAction, TypeOK, outside
<1> QED BY <1>1, <1>2, <1>3, <1>4, <1>5, <1>6 DEF SenderCall

\* Every step keeps the types.
LEMMA TypeStep == TypeOK /\ [Next]_vars => TypeOK'
<1> SUFFICES ASSUME TypeOK, [Next]_vars PROVE TypeOK'
  OBVIOUS
<1>1. CASE EngineStep
  BY <1>1, RunTypeStep, HandlerTypeStep, RequestTypeStep DEF EngineStep
<1>2. ASSUME NEW t \in Threads, FinishStep(t) PROVE TypeOK'
  BY <1>2, FinishTypeStep
<1>3. ASSUME NEW s \in Senders, TakeFeedback(s) \/ SenderCall(s) PROVE TypeOK'
  BY <1>3, FeedbackTypeStep, SenderTypeStep
<1>4. ASSUME NEW a \in Actions, NEW st \in Answers, Answer(a, st) PROVE TypeOK'
  <2>1. AckMsg(a, st) \in Messages
    BY MessageTypes
  <2> QED BY <1>4, <2>1, InboxType, TypeUnchanged DEF Answer, TypeOK, outside
<1>5. CASE Tick
  BY <1>5, MessageTypes, InboxType, TypeUnchanged DEF Tick, TypeOK, outside
<1>6. CASE Lose
  BY <1>6, TypeUnchanged DEF Lose, TypeOK
<1>7. CASE Crash
  <2>1. NoCall \in FinCalls /\ NoCall.at = "none" /\ NoWait \in Waits
    BY DEF NoCall, FinCalls, NoWait, Waits
  <2>2. CallersType'
    BY <1>7, <2>1 DEF Crash, CallersType
  <2>3. EngineType' /\ GhostsType'
    BY <1>7 DEF Crash, TypeOK, EngineType, GhostsType
  <2>4. inbox' \in Seq(Messages)
    BY <1>7, MessageTypes DEF Crash
  <2> QED BY <1>7, <2>2, <2>3, <2>4, TypeUnchanged DEF Crash, TypeOK, MailboxType, EmptyMailbox
<1>8. CASE UNCHANGED vars
  BY <1>8, TypeUnchanged DEF vars, TypeOK, outside
<1> QED BY <1>1, <1>2, <1>3, <1>4, <1>5, <1>6, <1>7, <1>8 DEF Next

\* The program starts well typed.
LEMMA TypeInit == Init => TypeOK
<1> SUFFICES ASSUME Init PROVE TypeOK
  OBVIOUS
<1>1. NoCall \in FinCalls /\ NoCall.at = "none" /\ NoWait \in Waits
  BY DEF NoCall, FinCalls, NoWait, Waits
<1>2. CallersType
  BY <1>1 DEF Init, CallersType
<1>3. TablesType
  BY DEF Init, TablesType, States
<1>4. EngineType /\ GhostsType
  <2>1. EngineType
    BY DEF Init, EngineType
  <2>2. 0 \in 0..MaxCalls /\ 0 \in 0..MaxCrashes
    OBVIOUS
  <2>3. GhostsType
    BY <2>2 DEF Init, GhostsType
  <2> QED BY <2>1, <2>3
<1>5. inbox \in Seq(Messages)
  BY MessageTypes DEF Init
<1> QED BY <1>2, <1>3, <1>4, <1>5 DEF Init, TypeOK, MailboxType, EmptyMailbox

\* The tables, the queue, the engine and the calls keep their types, and whoever works
\* on an action works on an existing one (engine.cpp, action.cpp).
THEOREM WorkflowTypeCorrect == Spec => []TypeOK
BY TypeInit, TypeStep, PTL DEF Spec

-----------------------------------------------------------------------------
(* The inductive invariant.                                                *)

\* A workflow with a row in table workflow or workflow_history, and one that is over.
Known(w) == w \in table \/ history[w] # "none"
Gone(w) == w \notin table /\ history[w] # "none"

\* A workflow that may run: if it is a rollback workflow, what it undoes is over.
Started(w) == Known(w) /\ \A f \in Workflows : RollbackOf[f] = w => Gone(f)

\* An action that may be worked on, now and for ever.
Due(a) == ReadyAction(a) /\ Started(FlowOf[a])

\* A forward workflow and its rollback enter the table together and the rollback
\* waits, paused, as long as the forward workflow is there.
TablesInv ==
  /\ \A w \in table : history[w] = "none"
  /\ \A f \in Workflows : RollbackOf[f] # None =>
        /\ Known(RollbackOf[f]) => Known(f)
        /\ f \in table => Known(RollbackOf[f])
        /\ f \in table /\ RollbackOf[f] \in table => RollbackOf[f] \in paused
  /\ \A r \in undone : Started(r)

\* Whatever was requested, is on the engine's list or in its hands, or is being
\* finished, is due.
InHand == IF pc = "run" THEN {} ELSE {cur.a}
BeingFinished == {fin[t].a : t \in {u \in Threads : fin[u].at # "none"}}
TouchedInv == \A a \in asked \cup todo \cup InHand \cup BeingFinished : Due(a)

\* Answers, feedback, states and counts speak of actions that were requested, and
\* requests to resume do not name rollback workflows.
Harmless(m) == /\ m.kind = "ack" => m.a \in asked
               /\ m.kind = "resume" => ~IsRollback(m.w)
InboxInv == \A i \in 1..Len(inbox) : Harmless(inbox[i])
RowsInv == \A a \in Actions : state[a] # "ready" \/ repeat[a] # 0 => a \in asked
MailInv == requests \subseteq asked /\ \A f \in Waiting : f[1] \in asked
CopyInv == pc # "run" /\ (cur.state # "ready" \/ cur.repeat # 0 \/ pc \in {"store", "time"})
               => cur.a \in asked
CommitInv == \A t \in Threads : fin[t].at = "commit" => fin[t].verdict # "none"
ReachedInv == InboxInv /\ RowsInv /\ MailInv /\ CopyInv /\ CommitInv

\* The rollback action of what is about to be requested will not be skipped, and no
\* action of its rollback workflow was requested.
SendInv ==
  /\ UndoArmed
  /\ pc = "send" /\ UndoOf[cur.a] # None => UndoOf[cur.a] \notin skipped
  /\ pc \in {"clear", "send"} => \A b \in asked : RollbackOf[FlowOf[cur.a]] # FlowOf[b]

\* The engine records an outcome only of an action that has none.
OutcomeInv == pc \in {"store", "time"} => state[cur.a] \notin Outcomes

CoreInv == TypeOK /\ TablesInv /\ TouchedInv /\ ReachedInv /\ SendInv /\ OutcomeInv

-----------------------------------------------------------------------------
(* Workflows leave the table in one way, and enter it in one.              *)

\* The workflows W are over, and with them some of their rollback workflows go: all
\* that FinishAction, DeleteWorkflow, RollbackWorkflow and PowerOn do to the tables.
Retires(W, D) ==
  /\ W \subseteq table /\ W \subseteq D /\ D \subseteq WithRollback(W)
  /\ table' = table \ D
  /\ \A w \in Workflows : history'[w] # "none" <=> (w \in W \/ history[w] # "none")
  /\ \A r \in paused \ paused' : (\E w \in W : RollbackOf[w] = r) \/ ~IsRollback(r)
  /\ \A r \in undone' \ undone : (\E w \in W : RollbackOf[w] = r) /\ r \notin D
  /\ finished \subseteq finished'

\* What the view running_actions lists is due.
LEMMA RunningIsDue ==
  ASSUME TypeOK, TablesInv, NEW ws, NEW a \in RunningActions(ws)
  PROVE  a \in Actions /\ Due(a) /\ a \notin finished /\ FlowOf[a] \in table \ paused
<1>1. a \in Actions /\ FlowOf[a] \in table \ paused /\ a \notin finished /\ ReadyAction(a)
  BY DEF RunningActions
<1>2. ASSUME NEW f \in Workflows, RollbackOf[f] = FlowOf[a] PROVE Gone(f)
  BY <1>1, <1>2 DEF TablesInv, Known, Gone
<1> QED BY <1>1, <1>2 DEF Due, Started, Known

\* A due action stays due when workflows retire.
LEMMA RetireKeepsDue ==
  ASSUME TypeOK, TablesInv, NEW W, NEW D, Retires(W, D), NEW a \in Actions, Due(a)
  PROVE  Due(a)'
<1> DEFINE w == FlowOf[a]
<1>1. ReadyAction(a)'
  BY DEF Due, ReadyAction, Retires
<1>2. w \in Workflows /\ Known(w) /\ \A f \in Workflows : RollbackOf[f] = w => Gone(f)
  BY DEF Due, Started
<1> HIDE DEF w
<1>3. ASSUME NEW f \in Workflows, Gone(f) PROVE Gone(f)'
  BY <1>3 DEF Gone, Retires
<1>4. Known(w)'
  <2>1. CASE w \in D \ W
    <3>1. PICK v \in W : RollbackOf[v] = w
      BY <2>1 DEF Retires, WithRollback
    <3>2. v \in Workflows /\ v \in table
      BY <3>1 DEF Retires, TypeOK, TablesType
    <3> QED BY <1>2, <3>1, <3>2 DEF Gone
  <2>2. CASE w \notin D \ W
    BY <1>2, <2>2 DEF Known, Retires
  <2> QED BY <2>1, <2>2
<1>5. Started(w)'
  BY <1>2, <1>3, <1>4 DEF Started
<1> QED BY <1>1, <1>5 DEF Due, w

\* The tables stay consistent when workflows retire.
LEMMA RetireKeepsTables ==
  ASSUME TypeOK, TypeOK', TablesInv, NEW W, NEW D, Retires(W, D)
  PROVE  TablesInv'
<1>1. W \subseteq table /\ table \subseteq Workflows /\ undone \subseteq Workflows
  BY DEF Retires, TypeOK, TablesType, GhostsType
<1>2. \A x \in D \ W : \E v \in W : RollbackOf[v] = x
  BY DEF Retires, WithRollback
<1>3. \A x \in Workflows : Known(x)' => Known(x)
  BY <1>1 DEF Known, Retires
<1>4. \A x \in Workflows : Gone(x) => Gone(x)'
  BY DEF Gone, Retires
<1>5. \A x \in W : x \in Workflows /\ Gone(x)'
  BY <1>1 DEF Gone, Retires
<1>6. ASSUME NEW w \in table' PROVE history'[w] = "none"
  BY <1>1, <1>6 DEF TablesInv, Retires
<1>7. ASSUME NEW f \in Workflows, RollbackOf[f] # None, Known(RollbackOf[f])' PROVE Known(f)'
  <2>1. Known(f)
    BY <1>3, <1>7 DEF TablesInv
  <2>2. f \notin D \ W
    BY <1>1, <1>2, <1>7
  <2> QED BY <2>1, <2>2 DEF Known, Retires
<1>8. ASSUME NEW f \in table', RollbackOf[f] # None
      PROVE  /\ f \in Workflows /\ Known(RollbackOf[f])'
             /\ RollbackOf[f] \in table' => RollbackOf[f] \in paused'
  <2> DEFINE r == RollbackOf[f]
  <2>1. f \in table /\ f \in Workflows /\ r \in Workflows /\ f \notin W
    BY <1>1, <1>8 DEF Retires
  <2>2. Known(r) /\ (r \in table => r \in paused)
    BY <1>8, <2>1 DEF TablesInv
  <2>3. \A v \in W : RollbackOf[v] # r
    BY <1>1, <1>8, <2>1
  <2>4. r \notin D \ W
    BY <1>2, <2>3
  <2>5. Known(r)'
    BY <2>1, <2>2, <2>4 DEF Known, Retires
  <2>6. IsRollback(r)
    BY <2>1 DEF IsRollback
  <2>7. r \in table' => r \in paused'
    BY <2>2, <2>3, <2>6 DEF Retires
  <2> QED BY <2>1, <2>5, <2>7
<1>9. ASSUME NEW r \in undone' PROVE Started(r)'
  <2>1. CASE r \in undone
    <3>1. Started(r) /\ r \in Workflows
      BY <1>1, <2>1 DEF TablesInv
    <3>2. r \notin D \ W
      BY <1>1, <1>2, <3>1 DEF Started, Gone
    <3>3. Known(r)'
      BY <3>1, <3>2 DEF Started, Known, Retires
    <3> QED BY <1>4, <3>1, <3>3 DEF Started
  <2>2. CASE r \notin undone
    <3>1. PICK w \in W : RollbackOf[w] = r /\ r \notin D
      BY <2>2 DEF Retires
    <3>2. r \in Workflows /\ r # None
      BY DEF TypeOK, GhostsType
    <3>3. Known(r)'
      BY <1>1, <3>1, <3>2 DEF TablesInv, Known, Retires
    <3>4. \A f \in Workflows : RollbackOf[f] = r => f = w
      BY <1>5, <3>1, <3>2
    <3> QED BY <1>5, <3>3, <3>4 DEF Started
  <2> QED BY <2>1, <2>2
<1> QED BY <1>6, <1>7, <1>8, <1>9 DEF TablesInv

\* A workflow that is created was never there, and neither was its rollback, so that
\* due actions stay due and the tables stay consistent.
LEMMA CreateKeeps ==
  ASSUME TypeOK, TablesInv, NEW s \in Senders, Create(s)
  PROVE  TablesInv' /\ \A a \in Actions : Due(a) => Due(a)'
<1>1. PICK w \in Workflows :
        /\ w \notin table /\ history[w] = "none" /\ ~IsRollback(w)
        /\ table' = table \cup (WithRollback({w}) \cap Workflows)
        /\ paused' = paused \cup CreatedPaused(w)
  BY DEF Create
<1>2. UNCHANGED <<finished, history, undone>>
  BY DEF Create, ghosts
<1> DEFINE r == RollbackOf[w]
<1>3. /\ table' = table \cup ({w, r} \cap Workflows)
      /\ r # None => r \in paused'
      /\ paused \subseteq paused'
  BY <1>1 DEF WithRollback, CreatedPaused
<1>4. r \in Workflows => ~Known(r)
  BY <1>1 DEF TablesInv, Known
<1>5. \A x \in Workflows : Known(x) => Known(x)'
  BY <1>2, <1>3 DEF Known
<1>6. \A x \in Workflows : Gone(x) => Gone(x)'
  BY <1>1, <1>2, <1>3, <1>4 DEF Gone, Known
<1>7. \A x \in Workflows : Known(x)' => Known(x) \/ x = w \/ x = r
  BY <1>2, <1>3 DEF Known
<1>8. Known(w)' /\ (r \in Workflows => Known(r)')
  BY <1>3 DEF Known
<1>9. \A f \in Workflows : RollbackOf[f] # w /\ (RollbackOf[f] = r /\ r # None => f = w)
  BY <1>1 DEF IsRollback
<1>10. ASSUME NEW x \in Workflows, Started(x) PROVE Started(x)'
  BY <1>5, <1>6, <1>10 DEF Started
<1>11. \A v \in table' : history'[v] = "none"
  BY <1>1, <1>2, <1>3, <1>4 DEF TablesInv, Known
<1>12. ASSUME NEW f \in Workflows, RollbackOf[f] # None
       PROVE  /\ Known(RollbackOf[f])' => Known(f)'
              /\ f \in table' => Known(RollbackOf[f])'
              /\ f \in table' /\ RollbackOf[f] \in table' => RollbackOf[f] \in paused'
  <2>1. RollbackOf[f] \in Workflows /\ RollbackOf[f] # w
    BY <1>9, <1>12
  <2>2. CASE f = w
    BY <1>3, <1>8, <1>12, <2>1, <2>2
  <2>3. CASE f # w
    <3>1. RollbackOf[f] # r
      BY <1>9, <1>12, <2>3
    <3>2. f # r
      BY <1>12
    <3>3. f \in table' => f \in table
      BY <1>3, <2>3, <3>2
    <3>4. RollbackOf[f] \in table' => RollbackOf[f] \in table
      BY <1>3, <2>1, <3>1
    <3> QED BY <1>3, <1>5, <1>7, <1>12, <2>1, <3>1, <3>3, <3>4 DEF TablesInv
  <2> QED BY <2>2, <2>3
<1>13. \A x \in undone' : Started(x)'
  BY <1>2, <1>10 DEF TablesInv, TypeOK, GhostsType
<1>14. TablesInv'
  BY <1>11, <1>12, <1>13 DEF TablesInv
<1>15. ASSUME NEW a \in Actions, Due(a) PROVE Due(a)'
  BY <1>2, <1>10, <1>15 DEF Due, ReadyAction
<1> QED BY <1>14, <1>15

\* Nothing retires in a step that leaves the rows and the flags that matter alone.
LEMMA NothingRetires ==
  ASSUME UNCHANGED <<table, history, undone>>, finished \subseteq finished', paused \subseteq paused'
  PROVE  Retires({}, {})
BY DEF Retires, WithRollback

\* A workflow that FinishAction or DeleteWorkflow removes retires with its rollback.
LEMMA OneRetires ==
  ASSUME TypeOK, NEW w \in table, NEW v \in {"success", "failed", "cancelled"},
         table' = table \ WithRollback({w}), history' = [history EXCEPT ![w] = v],
         UNCHANGED <<paused, undone>>, finished \subseteq finished'
  PROVE  Retires({w}, WithRollback({w}))
<1>1. w \in WithRollback({w})
  BY DEF WithRollback
<1>2. \A x \in Workflows : history'[x] = IF x = w THEN v ELSE history[x]
  BY DEF TypeOK, TablesType
<1> QED BY <1>1, <1>2 DEF Retires

\* What the calls of FinishAction do to the tables.
LEMMA FinishRetires ==
  ASSUME CoreInv, NEW t \in Threads, FinishStep(t)
  PROVE  \E W, D : Retires(W, D)
<1>1. CASE FinishCount(t) \/ FinishWrite(t)
  <2>1. UNCHANGED <<table, history, undone, paused>> /\ finished \subseteq finished'
    BY <1>1 DEF FinishCount, FinishWrite, tables, ghosts
  <2> QED BY <2>1, NothingRetires
<1> DEFINE a == fin[t].a
           w == FlowOf[a]
<1>2. CASE FinishDelete(t)
  <2>1. a \in Actions /\ w \in Workflows
    BY <1>2 DEF FinishDelete, CoreInv, TypeOK, CallersType
  <2>2. UNCHANGED <<paused, undone, finished>>
    BY <1>2 DEF FinishDelete
  <2>3. CASE w \in table
    <3>1. table' = table \ WithRollback({w}) /\ history' = [history EXCEPT ![w] = Verdict(w)]
      BY <1>2, <2>3 DEF FinishDelete
    <3>2. Verdict(w) \in {"success", "failed", "cancelled"}
      BY <2>1, VerdictType
    <3> QED BY <2>2, <2>3, <3>1, <3>2, OneRetires DEF CoreInv
  <2>4. CASE w \notin table
    <3>1. UNCHANGED <<table, history>>
      BY <1>2, <2>4 DEF FinishDelete
    <3> QED BY <2>2, <3>1, NothingRetires
  <2> QED BY <2>3, <2>4
<1>3. CASE FinishCommit(t)
  <2>1. a \in Actions /\ w \in Workflows /\ fin[t].verdict \in {"success", "failed", "cancelled"}
    BY <1>3 DEF FinishCommit, CoreInv, TypeOK, CallersType, FinCalls, ReachedInv, CommitInv
  <2>2. Known(w)
    BY <1>3 DEF FinishCommit, CoreInv, TouchedInv, BeingFinished, Due, Started
  <2>3. UNCHANGED <<paused, undone>> /\ finished \subseteq finished'
    BY <1>3 DEF FinishCommit
  <2>4. CASE fin[t].count = 1 /\ history[w] = "none"
    <3>1. /\ table' = table \ WithRollback({w})
          /\ history' = [history EXCEPT ![w] = fin[t].verdict]
      BY <1>3, <2>4 DEF FinishCommit
    <3>2. w \in table
      BY <2>2, <2>4 DEF Known
    <3> QED BY <2>1, <2>3, <3>1, <3>2, OneRetires DEF CoreInv
  <2>5. CASE ~(fin[t].count = 1 /\ history[w] = "none")
    <3>1. UNCHANGED <<table, history>>
      BY <1>3, <2>5 DEF FinishCommit
    <3> QED BY <2>3, <3>1, NothingRetires
  <2> QED BY <2>4, <2>5
<1> QED BY <1>1, <1>2, <1>3 DEF FinishStep

\* What the engine does to the tables.
LEMMA EngineRetires ==
  ASSUME CoreInv, EngineStep
  PROVE  \E W, D : Retires(W, D)
<1>1. CASE \/ EngineRead \/ EngineClearSkip \/ EngineSend \/ EngineTimeOut \/ EngineFinished
           \/ EngineRun \/ EngineAck \/ EngineStore
  <2>1. UNCHANGED <<table, history, undone, paused, finished>>
    BY <1>1 DEF EngineRead, EngineClearSkip, EngineSend, EngineTimeOut, EngineFinished, EngineRun,
                EngineAck, EngineStore, tables, ghosts
  <2> QED BY <2>1, NothingRetires
<1>2. CASE EnginePowerOn
  <2> DEFINE over == {w \in table : ActionsOf(w) # {} /\ Unfinished(w) = {}}
  <2>1. /\ table' = table \ WithRollback(over)
        /\ history' = [w \in Workflows |-> IF w \in over THEN "success" ELSE history[w]]
        /\ UNCHANGED <<paused, undone, finished>>
    BY <1>2 DEF EnginePowerOn
  <2>2. over \subseteq table /\ over \subseteq WithRollback(over)
    BY DEF WithRollback
  <2> HIDE DEF over
  <2> QED BY <2>1, <2>2 DEF Retires
<1>3. CASE EnginePause
  <2>1. UNCHANGED <<table, history, undone, finished>> /\ paused \subseteq paused'
    BY <1>3 DEF EnginePause
  <2> QED BY <2>1, NothingRetires
<1>4. CASE EngineResume
  <2>1. Head(inbox).kind = "resume" /\ inbox \in Seq(Messages) /\ inbox # <<>>
    BY <1>4 DEF EngineResume, Receive, CoreInv, TypeOK
  <2>2. ~IsRollback(Head(inbox).w)
    <3>1. Head(inbox) = inbox[1] /\ 1 \in 1..Len(inbox)
      BY <2>1
    <3> QED BY <2>1, <3>1 DEF CoreInv, ReachedInv, InboxInv, Harmless
  <2>3. UNCHANGED <<table, history, undone, finished>> /\ paused' = paused \ {Head(inbox).w}
    BY <1>4 DEF EngineResume, ghosts
  <2>4. Retires({}, {})
    BY <2>2, <2>3 DEF Retires, WithRollback
  <2> QED BY <2>4
<1>5. CASE EngineDelete
  <2> DEFINE w == Head(inbox).w
  <2>1. UNCHANGED <<paused, undone, finished>>
    BY <1>5 DEF EngineDelete, ghosts
  <2>2. CASE w \in table
    <3>1. table' = table \ WithRollback({w}) /\ history' = [history EXCEPT ![w] = Verdict(w)]
      BY <1>5, <2>2 DEF EngineDelete
    <3>2. Verdict(w) \in {"success", "failed", "cancelled"}
      BY <2>2, VerdictType DEF CoreInv, TypeOK, TablesType
    <3> QED BY <2>1, <2>2, <3>1, <3>2, OneRetires DEF CoreInv
  <2>3. CASE w \notin table
    <3>1. UNCHANGED <<table, history>>
      BY <1>5, <2>3 DEF EngineDelete
    <3> QED BY <2>1, <3>1, NothingRetires
  <2> QED BY <2>2, <2>3
<1>6. CASE EngineRollback
  <2> DEFINE w == Head(inbox).w
             r == RollbackOf[w]
  <2>1. finished' = finished
    BY <1>6 DEF EngineRollback
  <2>2. CASE w \in table /\ (r # None \/ IsRollback(w))
    <3>1. /\ table' = table \ {w} /\ history' = [history EXCEPT ![w] = Verdict(w)]
          /\ paused' = paused \ {r} /\ undone' = undone \cup ({r} \cap Workflows)
      BY <1>6, <2>2 DEF EngineRollback, DeletedByRollback
    <3>2. w \in Workflows /\ history \in [Workflows -> {"none", "success", "failed", "cancelled"}]
      BY <2>2 DEF CoreInv, TypeOK, TablesType
    <3>3. Verdict(w) # "none" /\ w \in WithRollback({w})
      BY <3>2, VerdictType DEF WithRollback
    <3>4. r \in Workflows => r # w
      BY <3>2
    <3>5. \A x \in Workflows : history'[x] = IF x = w THEN Verdict(w) ELSE history[x]
      BY <3>1, <3>2
    <3> HIDE DEF w, r
    <3>6. Retires({w}, {w})
      BY <2>1, <2>2, <3>1, <3>3, <3>4, <3>5 DEF Retires, r
    <3> QED BY <3>6
  <2>3. CASE ~(w \in table /\ (r # None \/ IsRollback(w)))
    <3>1. UNCHANGED <<table, history, paused, undone>>
      BY <1>6, <2>3 DEF EngineRollback
    <3> QED BY <2>1, <3>1, NothingRetires
  <2> QED BY <2>2, <2>3
<1> QED BY <1>1, <1>2, <1>3, <1>4, <1>5, <1>6 DEF EngineStep

\* The tables stay consistent, and what is due stays due, whatever happens.
LEMMA TablesStep ==
  ASSUME CoreInv, [Next]_vars
  PROVE  TablesInv' /\ \A a \in Actions : Due(a) => Due(a)'
<1>1. TypeOK /\ TypeOK' /\ TablesInv
  BY TypeStep DEF CoreInv
<1>2. CASE \E W, D : Retires(W, D)
  <2>1. PICK W, D : Retires(W, D)
    BY <1>2
  <2> QED BY <1>1, <2>1, RetireKeepsDue, RetireKeepsTables
<1>3. ASSUME UNCHANGED <<table, history, undone, finished, paused>> PROVE \E W, D : Retires(W, D)
  BY <1>3, NothingRetires
<1>4. CASE EngineStep
  BY <1>2, <1>4, EngineRetires
<1>5. ASSUME NEW t \in Threads, FinishStep(t) PROVE \E W, D : Retires(W, D)
  BY <1>5, FinishRetires
<1>6. ASSUME NEW s \in Senders, TakeFeedback(s) PROVE \E W, D : Retires(W, D)
  BY <1>3, <1>6 DEF TakeFeedback
<1>7. ASSUME NEW s \in Senders, SenderCall(s), ~Create(s) PROVE \E W, D : Retires(W, D)
  <2>1. UNCHANGED <<table, history, undone, finished, paused>>
    BY <1>7 DEF SenderCall, Request, GiveUp, LockWorkflow, UnlockWorkflow, SkipAction, tables, ghosts
  <2> QED BY <1>3, <2>1
<1>8. ASSUME NEW a \in Actions, NEW st \in Answers, Answer(a, st) PROVE \E W, D : Retires(W, D)
  BY <1>3, <1>8 DEF Answer, tables, ghosts
<1>9. CASE Tick \/ Lose \/ Crash \/ UNCHANGED vars
  <2>1. UNCHANGED <<table, history, undone, finished, paused>>
    BY <1>9 DEF Tick, Lose, Crash, vars, tables, ghosts
  <2> QED BY <1>2, <1>3, <2>1
<1> QED BY <1>1, <1>2, <1>4, <1>5, <1>6, <1>7, <1>8, <1>9, CreateKeeps DEF Next
-----------------------------------------------------------------------------
(* Whatever is worked on is due.                                           *)

\* A call of FinishAction that starts, goes on or ends works on nothing else.
LEMMA BeingFinishedStep ==
  ASSUME TypeOK, NEW t \in Threads, NEW c, fin' = [fin EXCEPT ![t] = c]
  PROVE  BeingFinished' \subseteq BeingFinished \cup (IF c.at = "none" THEN {} ELSE {c.a})
BY DEF TypeOK, CallersType, BeingFinished

\* FinishAction called for action a.
LEMMA BeingFinishedCall ==
  ASSUME TypeOK, NEW t \in Threads, NEW a, NEW tx, fin' = [fin EXCEPT ![t] = FinishCall(a, tx)]
  PROVE  BeingFinished' \subseteq BeingFinished \cup {a}
<1>1. FinishCall(a, tx).a = a /\ FinishCall(a, tx).at # "none"
  BY DEF FinishCall
<1> QED BY <1>1, BeingFinishedStep

\* The list, the hands of the engine and the calls of FinishAction only take up
\* actions from each other, from view running_actions or among the requested ones.
Touched == asked \cup todo \cup InHand \cup BeingFinished
LEMMA TouchedKept ==
  ASSUME CoreInv, [Next]_vars, Touched' \subseteq Touched \cup RunningActions(Workflows)
  PROVE  TouchedInv'
<1>1. \A a \in Touched : a \in Actions /\ Due(a)
  BY DEF CoreInv, TouchedInv, Touched, InHand, BeingFinished, TypeOK, EngineType, CallersType,
         GhostsType, RowCopies
<1>2. \A a \in RunningActions(Workflows) : a \in Actions /\ Due(a)
  BY RunningIsDue DEF CoreInv
<1> HIDE DEF Touched
<1>3. \A a \in Touched' : Due(a)'
  BY <1>1, <1>2, TablesStep
<1> QED BY <1>3 DEF TouchedInv, Touched

\* The engine.
LEMMA EngineTouches ==
  ASSUME CoreInv, EngineStep
  PROVE  Touched' \subseteq Touched \cup RunningActions(Workflows)
<1>1. TypeOK /\ Engine \in Threads /\ (pc # "run" => cur.a \in InHand) /\ InHand \subseteq {cur.a}
  BY DEF CoreInv, Threads, InHand
<1>2. ASSUME NEW c \in RowCopies, NEW m, DoAction(c, m)
      PROVE  InHand' \subseteq {c.a} /\ BeingFinished' \subseteq BeingFinished \cup {c.a}
  <2>1. cur' = c /\ (fin' = fin \/ EngineFinishes(c.a))
    BY <1>2, DoActionCases DEF EngineReports
  <2>2. BeingFinished' \subseteq BeingFinished \cup {c.a}
    <3>1. CASE fin' = fin
      BY <3>1 DEF BeingFinished
    <3>2. CASE EngineFinishes(c.a)
      BY <1>1, <3>2, BeingFinishedCall DEF EngineFinishes
    <3> QED BY <2>1, <3>1, <3>2
  <2> QED BY <2>1, <2>2 DEF InHand
<1>3. CASE EngineRead
  <2>1. PICK a \in todo :
          /\ todo' = todo \ {a}
          /\ \/ DoAction(Row(a), mode)
             \/ UNCHANGED <<pc, cur, mailbox, fin>>
    BY <1>3 DEF EngineRead
  <2>2. Row(a) \in RowCopies /\ Row(a).a = a /\ asked' = asked
    BY <1>1, <1>3, <2>1, RowType DEF TypeOK, EngineType, EngineRead, ghosts
  <2>3. CASE DoAction(Row(a), mode)
    BY <1>2, <2>1, <2>2, <2>3 DEF Touched
  <2>4. CASE UNCHANGED <<pc, cur, mailbox, fin>>
    BY <2>1, <2>2, <2>4 DEF Touched, InHand, BeingFinished
  <2> QED BY <2>1, <2>3, <2>4
<1>4. CASE EngineClearSkip \/ EngineSend \/ EngineFinished
  <2>1. /\ UNCHANGED <<todo, cur, fin>> /\ pc # "run" /\ asked' \subseteq asked \cup {cur.a}
    BY <1>4 DEF EngineClearSkip, EngineSend, EngineFinished, callers, ghosts
  <2>2. BeingFinished' = BeingFinished /\ InHand' \subseteq {cur.a}
    BY <2>1 DEF BeingFinished, InHand
  <2> QED BY <1>1, <2>1, <2>2 DEF Touched
<1>5. CASE EngineTimeOut
  <2>1. UNCHANGED <<todo, cur, asked>> /\ pc # "run" /\ Report(cur.a, "timeout")
    BY <1>5 DEF EngineTimeOut, ghosts
  <2>2. BeingFinished' \subseteq BeingFinished \cup {cur.a}
    <3>1. CASE fin' = fin
      BY <3>1 DEF BeingFinished
    <3>2. CASE fin' = [fin EXCEPT ![Engine] = FinishCall(cur.a, FALSE)]
      BY <1>1, <3>2, BeingFinishedCall
    <3> QED BY <2>1, <3>1, <3>2 DEF Report
  <2>3. InHand' \subseteq {cur.a}
    BY <2>1 DEF InHand
  <2> QED BY <1>1, <2>1, <2>2, <2>3 DEF Touched
<1>6. CASE EnginePowerOn \/ EngineRun
  <2>1. todo' \subseteq RunningActions(Workflows)
    <3>1. \A ws : RunningActions(ws) \subseteq RunningActions(Workflows)
      BY DEF RunningActions, CoreInv, TypeOK, TablesType
    <3>2. \E ws : todo' = RunningActions(ws)
      BY <1>6 DEF EnginePowerOn, EngineRun
    <3> QED BY <3>1, <3>2
  <2>2. UNCHANGED <<pc, cur, fin, asked>>
    BY <1>6 DEF EnginePowerOn, EngineRun, callers, ghosts
  <2> QED BY <2>1, <2>2 DEF Touched, InHand, BeingFinished
<1>7. CASE EngineAck
  <2>1. UNCHANGED <<todo, fin, asked>>
    BY <1>7 DEF EngineAck, callers, ghosts
  <2>2. InHand' \subseteq InHand \cup RunningActions(Workflows)
    <3> DEFINE a == Head(inbox).a
    <3>1. CASE Accepted(a)
      <4>1. cur' = [Row(a) EXCEPT !.state =
                      IF Head(inbox).state = "failed" /\ a \in Retry THEN "running"
                      ELSE Head(inbox).state]
        BY <1>7, <3>1 DEF EngineAck
      <4>2. cur'.a = a
        BY <4>1 DEF Row
      <4> QED BY <3>1, <4>2 DEF Accepted, InHand
    <3>2. CASE ~Accepted(a)
      BY <1>7, <3>2 DEF EngineAck, InHand
    <3> QED BY <3>1, <3>2
  <2> QED BY <2>1, <2>2 DEF Touched, BeingFinished
<1>8. CASE EngineStore
  <2>1. UNCHANGED <<todo, asked>> /\ pc # "run" /\ DoAction(cur, "ack")
    BY <1>8 DEF EngineStore, ghosts
  <2>2. cur \in RowCopies
    BY <1>1, <2>1 DEF TypeOK, EngineType
  <2> QED BY <1>1, <1>2, <2>1, <2>2 DEF Touched
<1>9. CASE EnginePause \/ EngineResume \/ EngineDelete \/ EngineRollback
  <2>1. UNCHANGED <<pc, cur, todo, fin, asked>>
    BY <1>9 DEF EnginePause, EngineResume, EngineDelete, EngineRollback, engine, ReplyTo, ghosts
  <2> QED BY <2>1 DEF Touched, InHand, BeingFinished
<1> QED BY <1>3, <1>4, <1>5, <1>6, <1>7, <1>8, <1>9 DEF EngineStep

\* FinishAction works on one action from beginning to end.
LEMMA FinishTouches ==
  ASSUME CoreInv, NEW t \in Threads, FinishStep(t)
  PROVE  BeingFinished' \subseteq BeingFinished
<1>1. TypeOK /\ fin[t].a \in BeingFinished /\ fin \in [Threads -> FinCalls]
  BY DEF CoreInv, TypeOK, CallersType, FinishStep, FinishCount, FinishWrite, FinishDelete, FinishCommit, BeingFinished
<1>2. CASE fin' = [fin EXCEPT ![t] = NoCall]
  <2>1. NoCall.at = "none"
    BY DEF NoCall
  <2> QED BY <1>1, <1>2, <2>1, BeingFinishedStep
<1>3. ASSUME ~(fin' = [fin EXCEPT ![t] = NoCall]) PROVE BeingFinished' \subseteq BeingFinished
  <2>1. \E x, n, v : fin' = [fin EXCEPT ![t].at = x, ![t].count = n, ![t].verdict = v]
    <3>1. CASE FinishCount(t)
      <4>1. fin' = [fin EXCEPT
                ![t].at = IF fin[t].tx THEN "commit" ELSE "write",
                ![t].count = GetUnfinishedActionsCount(FlowOf[fin[t].a]),
                ![t].verdict = IF fin[t].tx THEN VerdictTx(fin[t].a) ELSE "none"]
        BY <1>3, <3>1 DEF FinishCount
      <4> QED BY <4>1, Zenon
    <3>2. CASE FinishWrite(t)
      <4>1. fin' = [fin EXCEPT ![t].at = "delete"]
        BY <1>3, <3>2 DEF FinishWrite
      <4>2. fin' = [fin EXCEPT ![t].at = "delete", ![t].count = fin[t].count, ![t].verdict = fin[t].verdict]
        BY <1>1, <4>1 DEF FinCalls
      <4> QED BY <4>2
    <3> QED BY <1>3, <3>1, <3>2 DEF FinishStep, FinishDelete, FinishCommit
  <2>2. PICK x, n, v : fin' = [fin EXCEPT ![t].at = x, ![t].count = n, ![t].verdict = v]
    BY <2>1
  <2>3. \A u \in Threads : fin'[u].a = fin[u].a /\ (u # t => fin'[u] = fin[u])
    BY <1>1, <2>2 DEF FinCalls
  <2> QED BY <1>1, <2>3 DEF BeingFinished
<1> QED BY <1>2, <1>3

\* Every step.
LEMMA TouchedStep ==
  ASSUME CoreInv, [Next]_vars
  PROVE  TouchedInv'
<1>1. CASE EngineStep
  BY <1>1, EngineTouches, TouchedKept
<1>2. ASSUME UNCHANGED <<pc, cur, todo, asked>>, BeingFinished' \subseteq BeingFinished \cup asked
      PROVE  TouchedInv'
  <2>1. Touched' \subseteq Touched
    BY <1>2 DEF Touched, InHand
  <2> QED BY <2>1, TouchedKept
<1>3. ASSUME UNCHANGED <<pc, cur, todo, asked, fin>> PROVE TouchedInv'
  BY <1>2, <1>3 DEF BeingFinished
<1>4. ASSUME NEW t \in Threads, FinishStep(t) PROVE TouchedInv'
  <2>1. UNCHANGED <<pc, cur, todo, asked>>
    BY <1>4 DEF FinishStep, FinishCount, FinishWrite, FinishDelete, FinishCommit, engine, ghosts
  <2> QED BY <1>2, <1>4, <2>1, FinishTouches
<1>5. ASSUME NEW s \in Senders, TakeFeedback(s) PROVE TouchedInv'
  <2>1. UNCHANGED <<pc, cur, todo, asked>>
    BY <1>5 DEF TakeFeedback, engine
  <2>2. PICK f \in Waiting : FeedbackEffect(s, f)
    BY <1>5, FeedbackCases
  <2>3. CASE fin' = fin
    BY <1>3, <2>1, <2>3
  <2>4. CASE \E tx \in BOOLEAN : fin' = [fin EXCEPT ![s] = FinishCall(f[1], tx)]
    <3>1. s \in Threads /\ f[1] \in asked
      BY DEF Threads, CoreInv, ReachedInv, MailInv
    <3>2. BeingFinished' \subseteq BeingFinished \cup {f[1]}
      <4>1. PICK tx \in BOOLEAN : fin' = [fin EXCEPT ![s] = FinishCall(f[1], tx)]
        BY <2>4
      <4> QED BY <3>1, <4>1, BeingFinishedCall DEF CoreInv
    <3> QED BY <1>2, <2>1, <3>1, <3>2
  <2> QED BY <2>2, <2>3, <2>4 DEF FeedbackEffect
<1>6. ASSUME NEW s \in Senders, SenderCall(s) PROVE TouchedInv'
  <2>1. UNCHANGED <<pc, cur, todo, asked, fin>>
    BY <1>6 DEF SenderCall, Create, Request, GiveUp, LockWorkflow, UnlockWorkflow, SkipAction,
                engine, callers, ghosts
  <2> QED BY <1>3, <2>1
<1>7. ASSUME NEW a \in Actions, NEW st \in Answers, Answer(a, st) PROVE TouchedInv'
  BY <1>3, <1>7 DEF Answer, engine, callers, ghosts
<1>8. CASE Tick \/ Lose \/ UNCHANGED vars
  <2>1. UNCHANGED <<pc, cur, todo, asked, fin>>
    BY <1>8 DEF Tick, Lose, vars, engine, callers, ghosts
  <2> QED BY <1>3, <2>1
<1>9. CASE Crash
  <2>1. NoCall.at = "none"
    BY DEF NoCall
  <2>2. Touched' \subseteq Touched
    BY <1>9, <2>1 DEF Crash, Touched, InHand, BeingFinished
  <2> QED BY <2>2, TouchedKept
<1> QED BY <1>1, <1>4, <1>5, <1>6, <1>7, <1>8, <1>9 DEF Next

-----------------------------------------------------------------------------
(* Answers, feedback, states and counts speak of requested actions.        *)

\* The queue after a step that takes the first message, adds messages, or both.
LEMMA InboxStep ==
  ASSUME TypeOK, InboxInv, asked \subseteq asked',
         NEW q \in {inbox, Tail(inbox)}, inbox # <<>> \/ q = inbox,
         NEW m, NEW n, Harmless(m), Harmless(n),
         inbox' = q \/ inbox' = Append(q, m) \/ inbox' = q \o <<n, m>>
  PROVE  InboxInv'
<1>1. inbox \in Seq(Messages)
  BY DEF TypeOK
<1>2. q \in Seq(Messages) /\ \A i \in 1..Len(q) : \E j \in 1..Len(inbox) : q[i] = inbox[j]
  <2>1. CASE q = inbox
    BY <1>1, <2>1
  <2>2. CASE q = Tail(inbox) /\ inbox # <<>>
    BY <1>1, <2>2
  <2> QED BY <2>1, <2>2
<1>3. \A i \in 1..Len(q) : Harmless(q[i])
  BY <1>2 DEF InboxInv
<1>4. \A x : Harmless(x) => Harmless(x)'
  BY DEF Harmless
<1>5. CASE inbox' = q
  BY <1>3, <1>4, <1>5 DEF InboxInv
<1>6. CASE inbox' = Append(q, m)
  <2>1. \A i \in 1..Len(inbox') : (i \in 1..Len(q) /\ inbox'[i] = q[i]) \/ inbox'[i] = m
    BY <1>2, <1>6
  <2> QED BY <1>3, <1>4, <2>1 DEF InboxInv
<1>7. CASE inbox' = q \o <<n, m>>
  <2>1. \A i \in 1..Len(inbox') :
            (i \in 1..Len(q) /\ inbox'[i] = q[i]) \/ inbox'[i] = m \/ inbox'[i] = n
    BY <1>2, <1>7
  <2> QED BY <1>3, <1>4, <2>1 DEF InboxInv
<1> QED BY <1>5, <1>6, <1>7

\* Messages that are neither answers nor requests to resume.
LEMMA HarmlessMessages ==
  /\ Harmless(TimerMsg) /\ Harmless(PowerOnMsg)
  /\ \A w : Harmless(WakeupMsg(w))
  /\ \A a \in asked : \A st : Harmless(AckMsg(a, st))
  /\ \A k \in Requests : \A w, n : k # "resume" \/ ~IsRollback(w) => Harmless(RequestMsg(k, w, n))
BY DEF Harmless, TimerMsg, PowerOnMsg, WakeupMsg, AckMsg, RequestMsg, Requests

\* The engine: what it puts into its own queue.
LEMMA EngineInbox ==
  ASSUME CoreInv, EngineStep
  PROVE  InboxInv'
<1>1. TypeOK /\ InboxInv /\ asked \subseteq asked'
  BY DEF CoreInv, ReachedInv, EngineStep, EngineRead, EngineClearSkip, EngineSend, EngineTimeOut,
         EngineFinished, EnginePowerOn, EngineRun, EngineAck, EngineStore, EnginePause,
         EngineResume, EngineDelete, EngineRollback, ghosts
<1>2. CASE EngineRead \/ EngineClearSkip \/ EngineSend \/ EngineTimeOut \/ EngineStore
  <2>1. inbox' = inbox
    BY <1>2 DEF EngineRead, EngineClearSkip, EngineSend, EngineTimeOut, EngineStore
  <2> QED BY <1>1, <2>1, HarmlessMessages, InboxStep
<1>3. CASE EngineFinished
  <2>1. inbox' = Append(inbox, WakeupMsg(FlowOf[cur.a]))
    BY <1>3 DEF EngineFinished
  <2> QED BY <1>1, <2>1, HarmlessMessages, InboxStep
<1>4. CASE EnginePowerOn \/ EngineRun \/ EngineAck
  <2>1. inbox # <<>> /\ inbox' = Tail(inbox)
    BY <1>4 DEF EnginePowerOn, EngineRun, EngineAck, Receive
  <2> QED BY <1>1, <2>1, HarmlessMessages, InboxStep
<1>5. CASE EnginePause \/ EngineResume \/ EngineDelete
  <2>1. inbox # <<>> /\ \E m \in {TimerMsg, WakeupMsg(Head(inbox).w)} : inbox' = Append(Tail(inbox), m)
    BY <1>5 DEF EnginePause, EngineResume, EngineDelete, Receive
  <2> QED BY <1>1, <2>1, HarmlessMessages, InboxStep
<1>6. CASE EngineRollback
  <2>1. /\ inbox # <<>>
        /\ \/ inbox' = Tail(inbox) \o <<WakeupMsg(RollbackOf[Head(inbox).w]), TimerMsg>>
           \/ inbox' = Append(Tail(inbox), TimerMsg)
    BY <1>6 DEF EngineRollback, Receive
  <2> QED BY <1>1, <2>1, HarmlessMessages, InboxStep
<1> QED BY <1>2, <1>3, <1>4, <1>5, <1>6 DEF EngineStep

\* A call of one of the request functions (Ask).
LEMMA AskInbox ==
  ASSUME CoreInv, NEW s, NEW k \in Requests, NEW w, Ask(s, k, w), k # "resume" \/ ~IsRollback(w),
         asked' = asked
  PROVE  InboxInv'
<1>1. inbox' = inbox \/ inbox' = Append(inbox, RequestMsg(k, w, calls + 1))
  BY DEF Ask
<1>2. Harmless(RequestMsg(k, w, calls + 1)) /\ TypeOK /\ InboxInv
  BY HarmlessMessages DEF CoreInv, ReachedInv
<1> QED BY <1>1, <1>2, InboxStep

\* Every step.
LEMMA InboxInvStep ==
  ASSUME CoreInv, [Next]_vars
  PROVE  InboxInv'
<1>1. TypeOK /\ InboxInv
  BY DEF CoreInv, ReachedInv
<1>2. ASSUME asked' = asked, inbox' = inbox \/ \E w : inbox' = Append(inbox, WakeupMsg(w))
      PROVE  InboxInv'
  BY <1>1, <1>2, HarmlessMessages, InboxStep
<1>3. ASSUME NEW t \in Threads, FinishStep(t) PROVE InboxInv'
  <2>1. asked' = asked /\ (inbox' = inbox \/ \E w : inbox' = Append(inbox, WakeupMsg(w)))
    BY <1>3 DEF FinishStep, FinishCount, FinishWrite, FinishDelete, FinishCommit, ghosts
  <2> QED BY <1>2, <2>1
<1>4. ASSUME NEW s \in Senders, TakeFeedback(s) PROVE InboxInv'
  <2>1. PICK f \in Waiting : FeedbackEffect(s, f)
    BY <1>4, FeedbackCases
  <2>2. asked' = asked
    BY <1>4 DEF TakeFeedback
  <2>3. CASE inbox' = inbox \/ Restart(f[1])
    BY <1>2, <2>2, <2>3 DEF Restart
  <2>4. CASE \E k \in {"rollback", "delete"} : Ask(s, k, FlowOf[f[1]])
    <3>1. PICK k \in {"rollback", "delete"} : Ask(s, k, FlowOf[f[1]])
      BY <2>4
    <3>2. k \in Requests /\ k # "resume"
      BY DEF Requests
    <3> QED BY <2>2, <3>1, <3>2, AskInbox
  <2> QED BY <2>1, <2>3, <2>4 DEF FeedbackEffect
<1>5. ASSUME NEW s \in Senders, SenderCall(s) PROVE InboxInv'
  <2>1. CASE Request(s)
    <3>1. PICK k \in Requests, w \in Workflows : <<k, w>> \in Calls /\ Ask(s, k, w)
      BY <2>1 DEF Request
    <3>2. k # "resume" \/ ~IsRollback(w)
      BY <3>1, CallerAssumption DEF IsRollback
    <3> QED BY <2>1, <3>1, <3>2, AskInbox DEF Request
  <2>2. CASE ~Request(s)
    <3>1. asked' = asked /\ (inbox' = inbox \/ \E w : inbox' = Append(inbox, WakeupMsg(w)))
      BY <1>5, <2>2 DEF SenderCall, Create, GiveUp, LockWorkflow, UnlockWorkflow, SkipAction, ghosts
    <3> QED BY <1>2, <3>1
  <2> QED BY <2>1, <2>2
<1>6. ASSUME NEW a \in Actions, NEW st \in Answers, Answer(a, st) PROVE InboxInv'
  <2>1. asked' = asked /\ inbox' = Append(inbox, AckMsg(a, st)) /\ a \in asked
    BY <1>6 DEF Answer, ghosts, CoreInv, ReachedInv, MailInv
  <2> QED BY <1>1, <2>1, HarmlessMessages, InboxStep
<1>7. CASE Tick
  <2>1. asked' = asked /\ inbox' = Append(inbox, TimerMsg)
    BY <1>7 DEF Tick, ghosts
  <2> QED BY <1>1, <2>1, HarmlessMessages, InboxStep
<1>8. CASE Lose \/ UNCHANGED vars
  <2>1. asked' = asked /\ inbox' = inbox
    BY <1>8 DEF Lose, vars, ghosts
  <2> QED BY <1>2, <2>1
<1>9. CASE Crash
  <2>1. inbox' = <<PowerOnMsg>>
    BY <1>9 DEF Crash
  <2>2. PowerOnMsg.kind = "poweron"
    BY DEF PowerOnMsg
  <2> QED BY <2>1, <2>2 DEF InboxInv, Harmless
<1> QED BY <1>3, <1>4, <1>5, <1>6, <1>7, <1>8, <1>9, EngineInbox DEF Next

\* The engine's copy, the rows and the feedback: the steps of the engine.
LEMMA EngineReaches ==
  ASSUME CoreInv, EngineStep
  PROVE  RowsInv' /\ MailInv' /\ CopyInv' /\ CommitInv'
<1> USE DEF CoreInv, ReachedInv
<1>1. /\ TypeOK /\ RowsInv /\ MailInv /\ CopyInv /\ CommitInv
      /\ state \in [Actions -> States] /\ repeat \in [Actions -> 0..MaxRepeat]
      /\ fin \in [Threads -> FinCalls]
  BY DEF TypeOK, TablesType, CallersType
<1>2. ASSUME NEW a, fin' = fin \/ fin' = [fin EXCEPT ![Engine] = FinishCall(a, FALSE)]
      PROVE  CommitInv'
  BY <1>1, <1>2 DEF CommitInv, FinishCall, Threads
<1>3. ASSUME UNCHANGED <<state, repeat, asked>> PROVE RowsInv'
  BY <1>1, <1>3 DEF RowsInv
<1>4. ASSUME UNCHANGED <<requests, asked>>, NEW a \in asked, mailbox' = mailbox \/ EngineReports(a)
      PROVE  MailInv'
  <2>1. a \in Actions
    BY <1>1 DEF TypeOK, GhostsType
  <2> QED BY <1>1, <1>4, <2>1, ReportedMail DEF MailInv
<1>5. CASE EngineRead
  <2>1. UNCHANGED <<state, repeat, asked, requests>>
    BY <1>5 DEF EngineRead, tables, ghosts
  <2>2. PICK a \in todo : \/ DoAction(Row(a), mode)
                          \/ UNCHANGED <<pc, cur, mailbox, fin>>
    BY <1>5 DEF EngineRead
  <2>3. CASE UNCHANGED <<pc, cur, mailbox, fin>>
    BY <1>1, <1>3, <2>1, <2>3 DEF MailInv, Waiting, CopyInv, CommitInv
  <2>4. CASE DoAction(Row(a), mode)
    <3>1. a \in Actions /\ Row(a) \in RowCopies /\ Row(a).a = a
      BY <1>1, RowType DEF TypeOK, EngineType
    <3>2. Row(a).state # "ready" \/ Row(a).repeat # 0 => a \in asked
      BY <1>1, <3>1 DEF Row, RowsInv
    <3> DEFINE c == Row(a)
    <3> HIDE DEF c
    <3>3. /\ cur' = c /\ pc' # "store"
          /\ pc' = "time" => c.state # "ready" \/ c.repeat # 0
          /\ mailbox' = mailbox \/ (EngineReports(c.a) /\ (c.state # "ready" \/ c.repeat # 0))
      <4>1. c \in RowCopies /\ DoAction(c, mode)
        BY <2>4, <3>1 DEF c
      <4> QED BY <4>1, DoActionCases DEF EngineFinishes, EngineReports
    <3>4. CopyInv'
      BY <2>1, <3>1, <3>2, <3>3 DEF CopyInv, c
    <3>5. MailInv'
      <4>1. mailbox' = mailbox \/ (EngineReports(a) /\ a \in asked)
        BY <3>1, <3>2, <3>3 DEF c
      <4> QED BY <1>1, <1>4, <2>1, <4>1 DEF MailInv, Waiting
    <3>6. fin' = fin \/ fin' = [fin EXCEPT ![Engine] = FinishCall(a, FALSE)]
      BY <2>4, <3>1, DoActionCases DEF EngineFinishes, EngineReports
    <3> QED BY <1>2, <1>3, <2>1, <3>4, <3>5, <3>6
  <2> QED BY <2>2, <2>3, <2>4
<1>6. CASE EngineClearSkip \/ EngineFinished
  <2>1. UNCHANGED <<state, repeat, asked, requests, mailbox, cur, fin>> /\ pc # "run"
        /\ pc' \notin {"store", "time"}
    BY <1>6 DEF EngineClearSkip, EngineFinished, tables, callers, outside, ghosts
  <2> QED BY <1>1, <1>3, <2>1 DEF MailInv, Waiting, CopyInv, CommitInv
<1>7. CASE EngineSend
  <2>1. /\ UNCHANGED <<state, mailbox, cur, fin>> /\ pc' = "run" /\ asked' = asked \cup {cur.a}
        /\ requests' = requests \cup {cur.a}
        /\ repeat' = repeat \/ repeat' = [repeat EXCEPT ![cur.a] = CountUp(cur.repeat)]
    BY <1>7 DEF EngineSend, callers
  <2>2. RowsInv'
    BY <1>1, <2>1 DEF RowsInv
  <2> QED BY <1>1, <2>1, <2>2 DEF MailInv, Waiting, CopyInv, CommitInv
<1>8. CASE EngineTimeOut
  <2>1. UNCHANGED <<repeat, asked, requests, cur>> /\ pc = "time" /\ Report(cur.a, "timeout")
    BY <1>8 DEF EngineTimeOut, ghosts
  <2>2. cur.a \in asked
    BY <1>1, <2>1 DEF CopyInv
  <2>3. state' = state \/ state' = [state EXCEPT ![cur.a] = "timeout"]
    BY <1>8 DEF EngineTimeOut
  <2>4. RowsInv'
    BY <1>1, <2>1, <2>2, <2>3 DEF RowsInv
  <2>5. /\ mailbox' = mailbox \/ EngineReports(cur.a)
        /\ fin' = fin \/ fin' = [fin EXCEPT ![Engine] = FinishCall(cur.a, FALSE)]
    BY <2>1 DEF Report, EngineReports, Outcomes
  <2>6. MailInv'
    BY <1>4, <2>1, <2>2, <2>5
  <2>7. CopyInv'
    BY <2>1, <2>2 DEF CopyInv
  <2> QED BY <1>2, <2>4, <2>5, <2>6, <2>7
<1>9. CASE EnginePowerOn \/ EngineRun
  <2>1. UNCHANGED <<state, repeat, asked, requests, mailbox, pc, cur, fin>>
    BY <1>9 DEF EnginePowerOn, EngineRun, tables, callers, outside, ghosts
  <2> QED BY <1>1, <1>3, <2>1 DEF MailInv, Waiting, CopyInv, CommitInv
<1>10. CASE EngineAck
  <2>1. UNCHANGED <<state, repeat, asked, requests, mailbox, fin>>
    BY <1>10 DEF EngineAck, tables, callers, outside, ghosts
  <2>2. CopyInv'
    <3> DEFINE a == Head(inbox).a
    <3>1. Head(inbox) = inbox[1] /\ 1 \in 1..Len(inbox) /\ Head(inbox).kind = "ack"
      BY <1>1, <1>10 DEF EngineAck, Receive, TypeOK
    <3>2. a \in asked
      BY <3>1 DEF InboxInv, Harmless
    <3>3. CASE Accepted(a)
      <4>1. cur' = [Row(a) EXCEPT !.state =
                      IF Head(inbox).state = "failed" /\ a \in Retry THEN "running"
                      ELSE Head(inbox).state]
        BY <1>10, <3>3 DEF EngineAck
      <4>2. cur'.a = a
        BY <4>1 DEF Row
      <4> QED BY <2>1, <3>2, <4>2 DEF CopyInv
    <3>4. CASE ~Accepted(a)
      BY <1>1, <1>10, <2>1, <3>4 DEF EngineAck, CopyInv
    <3> QED BY <3>3, <3>4
  <2> QED BY <1>1, <1>3, <2>1, <2>2 DEF MailInv, Waiting, CommitInv
<1>11. CASE EngineStore
  <2>1. UNCHANGED <<repeat, asked, requests>> /\ pc = "store" /\ DoAction(cur, "ack")
    BY <1>11 DEF EngineStore, ghosts
  <2>2. cur.a \in asked /\ cur \in RowCopies
    BY <1>1, <2>1 DEF CopyInv, TypeOK, EngineType
  <2>3. state' = state \/ state' = [state EXCEPT ![cur.a] = cur.state]
    BY <1>11 DEF EngineStore
  <2>4. RowsInv'
    BY <1>1, <2>1, <2>2, <2>3 DEF RowsInv
  <2>5. /\ cur' = cur
        /\ mailbox' = mailbox \/ EngineReports(cur.a)
        /\ fin' = fin \/ fin' = [fin EXCEPT ![Engine] = FinishCall(cur.a, FALSE)]
    BY <2>1, <2>2, DoActionCases DEF EngineFinishes, EngineReports
  <2> QED BY <1>2, <1>4, <2>1, <2>2, <2>4, <2>5 DEF CopyInv
<1>12. CASE EnginePause \/ EngineResume \/ EngineDelete \/ EngineRollback
  <2>1. UNCHANGED <<state, repeat, asked, requests, mailbox, pc, cur, fin>>
    BY <1>12 DEF EnginePause, EngineResume, EngineDelete, EngineRollback, engine, ReplyTo,
                 outside, ghosts
  <2> QED BY <1>1, <1>3, <2>1 DEF MailInv, Waiting, CopyInv, CommitInv
<1> QED BY <1>5, <1>6, <1>7, <1>8, <1>9, <1>10, <1>11, <1>12 DEF EngineStep

\* Every step.
LEMMA ReachedStep ==
  ASSUME CoreInv, [Next]_vars
  PROVE  ReachedInv'
<1>1. /\ TypeOK /\ RowsInv /\ MailInv /\ CopyInv /\ CommitInv
      /\ state \in [Actions -> States]
      /\ fin \in [Threads -> FinCalls]
  BY DEF CoreInv, ReachedInv, TypeOK, TablesType, CallersType
<1>2. InboxInv'
  BY InboxInvStep
<1> DEFINE Rest == RowsInv' /\ MailInv' /\ CopyInv' /\ CommitInv'
<1>3. ASSUME UNCHANGED <<state, repeat, asked, requests, pc, cur>>, Waiting' \subseteq Waiting,
             CommitInv'
      PROVE  Rest
  BY <1>1, <1>3 DEF RowsInv, MailInv, CopyInv
<1>4. ASSUME NEW t \in Threads, FinishStep(t) PROVE Rest
  <2>1. UNCHANGED <<state, repeat, asked, requests, mailbox, pc, cur>>
    BY <1>4 DEF FinishStep, FinishCount, FinishWrite, FinishDelete, FinishCommit, tables, engine,
                outside, ghosts
  <2>2. Waiting' = Waiting
    BY <2>1 DEF Waiting
  <2>3. CommitInv'
    <3>1. CASE fin' = [fin EXCEPT ![t] = NoCall] \/ fin' = [fin EXCEPT ![t].at = "delete"]
      BY <1>1, <3>1 DEF CommitInv, NoCall, FinCalls
    <3>2. CASE fin' = [fin EXCEPT
                ![t].at = IF fin[t].tx THEN "commit" ELSE "write",
                ![t].count = GetUnfinishedActionsCount(FlowOf[fin[t].a]),
                ![t].verdict = IF fin[t].tx THEN VerdictTx(fin[t].a) ELSE "none"] /\ FinishCount(t)
      <4>1. VerdictTx(fin[t].a) # "none"
        BY <3>2, VerdictType DEF FinishCount, CoreInv, TypeOK, CallersType
      <4>2. fin[t].tx \in BOOLEAN
        BY <1>1 DEF FinCalls
      <4> HIDE DEF VerdictTx
      <4>3. fin'[t].at = "commit" => fin'[t].verdict = VerdictTx(fin[t].a)
        BY <1>1, <3>2, <4>2 DEF FinCalls
      <4>4. \A u \in Threads : u # t => fin'[u] = fin[u]
        BY <1>1, <3>2
      <4> QED BY <1>1, <4>1, <4>3, <4>4 DEF CommitInv
    <3>3. FinishCount(t) \/ ~FinishCount(t)
      OBVIOUS
    <3> QED BY <1>4, <3>1, <3>2 DEF FinishStep, FinishCount, FinishWrite, FinishDelete, FinishCommit
  <2> QED BY <1>3, <2>1, <2>2, <2>3
<1>5. ASSUME NEW s \in Senders, TakeFeedback(s) PROVE Rest
  <2>1. UNCHANGED <<repeat, asked, requests, pc, cur>>
    BY <1>5 DEF TakeFeedback, engine
  <2>2. PICK f \in Waiting : FeedbackEffect(s, f)
    BY <1>5, FeedbackCases
  <2>3. f[1] \in asked /\ Waiting' \subseteq Waiting
    <3>1. Waiting' \subseteq Waiting
      BY <1>1, <2>2, TakenMail DEF FeedbackEffect
    <3> QED BY <1>1, <2>2, <3>1 DEF MailInv
  <2>4. state' = state \/ state' = [state EXCEPT ![f[1]] = "running"]
    BY <2>2 DEF FeedbackEffect, Restart
  <2>5. fin' = fin \/ \E tx \in BOOLEAN : fin' = [fin EXCEPT ![s] = FinishCall(f[1], tx)]
    BY <2>2 DEF FeedbackEffect
  <2>6. CommitInv'
    BY <1>1, <2>5 DEF CommitInv, FinishCall, Threads
  <2>7. RowsInv'
    BY <1>1, <2>1, <2>3, <2>4 DEF RowsInv
  <2> QED BY <1>1, <2>1, <2>3, <2>6, <2>7 DEF MailInv, CopyInv
<1>6. ASSUME UNCHANGED <<state, repeat, asked, requests, mailbox, pc, cur, fin>> PROVE Rest
  <2>1. CommitInv'
    BY <1>1, <1>6 DEF CommitInv
  <2> QED BY <1>3, <1>6, <2>1 DEF Waiting
<1>7. ASSUME NEW s \in Senders, SenderCall(s) PROVE Rest
  <2>1. UNCHANGED <<state, repeat, asked, requests, mailbox, pc, cur, fin>>
    BY <1>7 DEF SenderCall, Create, Request, GiveUp, LockWorkflow, UnlockWorkflow, SkipAction,
                tables, engine, callers, outside, ghosts
  <2> QED BY <1>6, <2>1
<1>8. ASSUME NEW a \in Actions, NEW st \in Answers, Answer(a, st) PROVE Rest
  BY <1>6, <1>8 DEF Answer, tables, engine, callers, outside, ghosts
<1>9. CASE Tick \/ UNCHANGED vars
  <2>1. UNCHANGED <<state, repeat, asked, requests, mailbox, pc, cur, fin>>
    BY <1>9 DEF Tick, vars, tables, engine, callers, outside, ghosts
  <2> QED BY <1>2, <1>6, <2>1 DEF ReachedInv
<1>10. CASE Lose
  BY <1>1, <1>2, <1>10 DEF Lose, ReachedInv, RowsInv, MailInv, Waiting, CopyInv, CommitInv, tables, engine,
                           callers, ghosts
<1>11. CASE Crash
  <2>1. NoCall.at = "none"
    BY DEF NoCall
  <2> QED BY <1>1, <1>2, <1>11, <2>1 DEF Crash, ReachedInv, RowsInv, MailInv, Waiting, CopyInv, CommitInv,
                               EmptyMailbox, tables
<1> QED BY <1>2, <1>4, <1>5, <1>7, <1>8, <1>9, <1>10, <1>11, EngineReaches DEF Next, ReachedInv
-----------------------------------------------------------------------------
(* What is about to be requested can be undone, and its undoing has not    *)
(* begun.                                                                  *)

\* Nobody makes the rollback action of an action that is due be skipped: it is
\* created before, and it is not for callers to skip.
LEMMA SkippedStep ==
  ASSUME CoreInv, [Next]_vars, NEW a \in Actions, Due(a), UndoOf[a] # None, UndoOf[a] \in skipped'
  PROVE  UndoOf[a] \in skipped
<1>1. /\ UndoOf[a] \in Actions /\ FlowOf[a] \in Workflows
      /\ FlowOf[UndoOf[a]] = RollbackOf[FlowOf[a]] /\ Known(FlowOf[a])
  BY DEF Due, Started
<1>2. CASE \E s \in Senders : Create(s)
  <2>1. PICK w \in Workflows :
          /\ ~Known(w) /\ ~IsRollback(w)
          /\ skipped' = skipped \cup {x \in Skipped : FlowOf[x] \in WithRollback({w}) \cap Workflows}
    BY <1>2 DEF Create, Known
  <2>2. FlowOf[a] # w /\ RollbackOf[FlowOf[a]] # w
    BY <1>1, <2>1 DEF IsRollback
  <2>3. FlowOf[UndoOf[a]] \in Workflows /\ FlowOf[UndoOf[a]] # w /\ FlowOf[UndoOf[a]] # RollbackOf[w]
    BY <1>1, <2>2
  <2> QED BY <2>1, <2>3 DEF WithRollback
<1>3. CASE \E s \in Senders : SkipAction(s)
  <2>1. PICK b \in Actions : <<"skip", FlowOf[b]>> \in Calls /\ skipped' = skipped \cup {b}
    BY <1>3 DEF SkipAction
  <2>2. b # UndoOf[a]
    BY <1>1, <2>1, CallerAssumption
  <2> QED BY <2>1, <2>2
<1>4. ASSUME skipped' \subseteq skipped PROVE UndoOf[a] \in skipped
  BY <1>4
<1>5. CASE EngineStep
  <2>1. skipped' \subseteq skipped
    BY <1>5 DEF EngineStep, EngineRead, EngineClearSkip, EngineSend, EngineTimeOut, EngineFinished,
            EnginePowerOn, EngineRun, EngineAck, EngineStore, EnginePause, EngineResume,
            EngineDelete, EngineRollback, tables
  <2> QED BY <2>1
<1>6. ASSUME NEW t \in Threads, FinishStep(t) PROVE skipped' \subseteq skipped
  BY <1>6 DEF FinishStep, FinishCount, FinishWrite, FinishDelete, FinishCommit, tables
<1>7. ASSUME NEW s \in Senders, TakeFeedback(s) PROVE skipped' \subseteq skipped
  BY <1>7 DEF TakeFeedback
<1>8. ASSUME NEW s \in Senders, SenderCall(s), ~Create(s), ~SkipAction(s) PROVE skipped' \subseteq skipped
  BY <1>8 DEF SenderCall, Request, GiveUp, LockWorkflow, UnlockWorkflow, tables
<1>9. ASSUME NEW x \in Actions, NEW st \in Answers, Answer(x, st) PROVE skipped' \subseteq skipped
  BY <1>9 DEF Answer, tables
<1>10. CASE Tick \/ Lose \/ Crash \/ UNCHANGED vars
  <2>1. skipped' \subseteq skipped
    BY <1>10 DEF Tick, Lose, Crash, vars, tables
  <2> QED BY <2>1
<1> QED BY <1>2, <1>3, <1>4, <1>5, <1>6, <1>7, <1>8, <1>9, <1>10 DEF Next

\* How the engine comes to the steps that send a request, and how it leaves them.
LEMMA SendSteps ==
  ASSUME CoreInv, [Next]_vars
  PROVE  \/ pc' \notin {"clear", "send"} /\ asked' = asked
         \/ UNCHANGED <<pc, cur, asked>>
         \/ EngineSend
         \/ EngineClearSkip
         \/ /\ asked' = asked /\ cur'.a \in Actions /\ FlowOf[cur'.a] \in table
            /\ pc' = "send" => UndoOf[cur'.a] = None \/ cur'.a \in asked
<1>1. CASE EngineRead
  <2>1. PICK a \in todo : IF InPool(a) /\ FlowOf[a] \notin paused /\ a \notin finished
                          THEN DoAction(Row(a), mode)
                          ELSE UNCHANGED <<pc, cur, mailbox, fin>>
    BY <1>1 DEF EngineRead
  <2>2. asked' = asked
    BY <1>1 DEF EngineRead, ghosts
  <2>3. CASE UNCHANGED <<pc, cur, mailbox, fin>>
    BY <2>2, <2>3
  <2>4. CASE InPool(a) /\ DoAction(Row(a), mode)
    <3>1. a \in Actions /\ Row(a) \in RowCopies /\ Row(a).a = a
      BY RowType DEF CoreInv, TypeOK, EngineType
    <3>2. Row(a).state # "ready" => a \in asked
      BY <3>1 DEF Row, CoreInv, ReachedInv, RowsInv
    <3>3. cur' = Row(a) /\ (pc' = "send" => Row(a).state = "running" \/ UndoOf[Row(a).a] = None)
      BY <2>4, <3>1, DoActionCases DEF EngineFinishes, EngineReports
    <3> QED BY <2>2, <2>4, <3>1, <3>2, <3>3 DEF InPool
  <2> QED BY <2>1, <2>3, <2>4
<1>2. CASE EngineStore
  <2>1. asked' = asked /\ DoAction(cur, "ack") /\ cur \in RowCopies
    BY <1>2 DEF EngineStore, ghosts, CoreInv, TypeOK, EngineType
  <2> QED BY <2>1, DoActionCases DEF EngineFinishes, EngineReports
<1>3. CASE EngineTimeOut
  BY <1>3 DEF EngineTimeOut, Report, ghosts
<1>4. CASE EngineAck
  <2>1. asked' = asked /\ (pc' = "store" \/ UNCHANGED <<pc, cur>>)
    BY <1>4 DEF EngineAck, ghosts
  <2> QED BY <2>1
<1>5. CASE EngineFinished
  BY <1>5 DEF EngineFinished, ghosts
<1>6. CASE EnginePowerOn \/ EngineRun \/ EnginePause \/ EngineResume \/ EngineDelete \/ EngineRollback
  <2>1. UNCHANGED <<pc, cur, asked>>
    BY <1>6 DEF EnginePowerOn, EngineRun, EnginePause, EngineResume, EngineDelete, EngineRollback,
                engine, ghosts
  <2> QED BY <2>1
<1>7. ASSUME NEW t \in Threads, FinishStep(t) PROVE UNCHANGED <<pc, cur, asked>>
  BY <1>7 DEF FinishStep, FinishCount, FinishWrite, FinishDelete, FinishCommit, engine, ghosts
<1>8. ASSUME NEW s \in Senders, TakeFeedback(s) PROVE UNCHANGED <<pc, cur, asked>>
  BY <1>8 DEF TakeFeedback, engine
<1>9. ASSUME NEW s \in Senders, SenderCall(s) PROVE UNCHANGED <<pc, cur, asked>>
  BY <1>9 DEF SenderCall, Create, Request, GiveUp, LockWorkflow, UnlockWorkflow, SkipAction,
              engine, ghosts
<1>10. ASSUME NEW a \in Actions, NEW st \in Answers, Answer(a, st) PROVE UNCHANGED <<pc, cur, asked>>
  BY <1>10 DEF Answer, engine, ghosts
<1>11. CASE Tick \/ Lose \/ UNCHANGED vars
  <2>1. UNCHANGED <<pc, cur, asked>>
    BY <1>11 DEF Tick, Lose, vars, engine, ghosts
  <2> QED BY <2>1
<1>12. CASE Crash
  BY <1>12 DEF Crash
<1> QED BY <1>1, <1>2, <1>3, <1>4, <1>5, <1>6, <1>7, <1>8, <1>9, <1>10, <1>11, <1>12
        DEF Next, EngineStep

\* Every step.
LEMMA SendStep ==
  ASSUME CoreInv, [Next]_vars
  PROVE  SendInv'
<1>1. \A a \in asked : a \in Actions /\ Due(a) /\ Started(FlowOf[a])
  BY DEF CoreInv, TouchedInv, TypeOK, GhostsType, Due
<1>2. pc # "run" => cur.a \in Actions /\ Due(cur.a)
  BY DEF CoreInv, TouchedInv, InHand, TypeOK, EngineType, RowCopies
<1>3. \A a \in asked : UndoOf[a] # None => UndoOf[a] \notin skipped'
  BY <1>1, SkippedStep DEF CoreInv, SendInv, UndoArmed
<1>4. pc = "send" /\ UndoOf[cur.a] # None => UndoOf[cur.a] \notin skipped'
  BY <1>2, SkippedStep DEF CoreInv, SendInv
<1>5. CASE pc' \notin {"clear", "send"} /\ asked' = asked
  BY <1>3, <1>5 DEF SendInv, UndoArmed
<1>6. CASE UNCHANGED <<pc, cur, asked>>
  BY <1>3, <1>4, <1>6 DEF CoreInv, SendInv, UndoArmed
<1>7. CASE EngineSend
  <2>1. pc = "send" /\ pc' = "run" /\ asked' = asked \cup {cur.a}
    BY <1>7 DEF EngineSend
  <2> QED BY <1>3, <1>4, <2>1 DEF SendInv, UndoArmed
<1>8. CASE EngineClearSkip
  <2>1. pc = "clear" /\ cur' = cur /\ asked' = asked /\ skipped' = skipped \ {UndoOf[cur.a]}
    BY <1>8 DEF EngineClearSkip, ghosts
  <2> QED BY <1>3, <2>1 DEF CoreInv, SendInv, UndoArmed
<1>9. CASE /\ asked' = asked /\ cur'.a \in Actions /\ FlowOf[cur'.a] \in table
           /\ pc' = "send" => UndoOf[cur'.a] = None \/ cur'.a \in asked
  <2>1. \A b \in asked : RollbackOf[FlowOf[cur'.a]] # FlowOf[b]
    BY <1>1, <1>9 DEF Started, Gone
  <2> QED BY <1>3, <1>9, <2>1 DEF SendInv, UndoArmed
<1> QED BY <1>5, <1>6, <1>7, <1>8, <1>9, SendSteps

-----------------------------------------------------------------------------
(* Recorded outcomes.                                                      *)

\* What a step can do to the recorded states, and how the engine comes to the steps
\* that record one.
LEMMA StateSteps ==
  ASSUME CoreInv, [Next]_vars
  PROVE  /\ \A a \in Actions : state[a] \in Outcomes /\ state'[a] # state[a]
                => state'[a] = "running" /\ a \in restarted'
         /\ OutcomeInv'
<1>1. /\ TypeOK /\ OutcomeInv /\ state \in [Actions -> States]
      /\ pc # "run" => cur \in RowCopies /\ cur.a \in Actions
  BY DEF CoreInv, TypeOK, TablesType, EngineType, RowCopies
<1> DEFINE Stands == \A a \in Actions : state[a] \in Outcomes /\ state'[a] # state[a]
                          => state'[a] = "running" /\ a \in restarted'
<1>2. ASSUME state' = state, UNCHANGED <<pc, cur>> \/ pc' \notin {"store", "time"}
      PROVE  Stands /\ OutcomeInv'
  BY <1>1, <1>2 DEF OutcomeInv
<1>3. CASE EngineRead
  <2>1. PICK a \in todo : \/ DoAction(Row(a), mode)
                          \/ UNCHANGED <<pc, cur, mailbox, fin>>
    BY <1>3 DEF EngineRead
  <2>2. state' = state
    BY <1>3 DEF EngineRead, tables
  <2>3. CASE DoAction(Row(a), mode)
    <3>1. a \in Actions /\ Row(a) \in RowCopies /\ Row(a).a = a /\ Row(a).state = state[a]
      BY <1>1, RowType DEF TypeOK, EngineType, Row
    <3>2. cur' = Row(a) /\ pc' # "store" /\ (pc' = "time" => Row(a).state \notin Outcomes)
      BY <2>3, <3>1, DoActionCases DEF EngineFinishes, EngineReports
    <3> QED BY <2>2, <3>1, <3>2 DEF OutcomeInv
  <2> QED BY <1>2, <2>1, <2>2, <2>3
<1>4. CASE EngineTimeOut
  <2>1. /\ pc = "time" /\ pc' \in {"run", "finish"}
        /\ state' = state \/ state' = [state EXCEPT ![cur.a] = "timeout"]
    BY <1>4 DEF EngineTimeOut, Report
  <2> QED BY <1>1, <2>1 DEF OutcomeInv
<1>5. CASE EngineStore
  <2>1. /\ pc = "store" /\ DoAction(cur, "ack")
        /\ state' = state \/ state' = [state EXCEPT ![cur.a] = cur.state]
    BY <1>5 DEF EngineStore
  <2>2. cur' = cur /\ pc' # "store" /\ (pc' = "time" => cur.state \notin Outcomes)
    BY <1>1, <2>1, DoActionCases DEF EngineFinishes, EngineReports
  <2> QED BY <1>1, <2>1, <2>2 DEF OutcomeInv
<1>6. CASE EngineAck
  <2> DEFINE a == Head(inbox).a
  <2>1. state' = state
    BY <1>6 DEF EngineAck, tables
  <2>2. CASE Accepted(a)
    <3>1. cur' = [Row(a) EXCEPT !.state =
                    IF Head(inbox).state = "failed" /\ a \in Retry THEN "running"
                    ELSE Head(inbox).state]
      BY <1>6, <2>2 DEF EngineAck
    <3>2. cur'.a = a /\ a \in Actions
      BY <2>2, <3>1 DEF Row, Accepted, RunningActions
    <3>3. state[a] \notin Outcomes
      <4>1. Row(a) \in RowCopies /\ Row(a).state = state[a]
        BY <1>1, <3>2, RowType DEF Row
      <4> QED BY <2>2, <4>1, ActionStateOf DEF Accepted
    <3> QED BY <1>1, <2>1, <3>2, <3>3 DEF OutcomeInv
  <2>3. CASE ~Accepted(a)
    BY <1>2, <1>6, <2>1, <2>3 DEF EngineAck
  <2> QED BY <2>2, <2>3
<1>7. CASE EngineClearSkip \/ EngineSend \/ EngineFinished
  <2>1. state' = state /\ pc' \notin {"store", "time"}
    BY <1>7 DEF EngineClearSkip, EngineSend, EngineFinished, tables
  <2> QED BY <1>2, <2>1
<1>8. CASE EnginePowerOn \/ EngineRun \/ EnginePause \/ EngineResume \/ EngineDelete \/ EngineRollback
  <2>1. UNCHANGED <<pc, cur, state>>
    BY <1>8 DEF EnginePowerOn, EngineRun, EnginePause, EngineResume, EngineDelete, EngineRollback,
                engine, tables
  <2> QED BY <1>2, <2>1
<1>9. ASSUME NEW t \in Threads, FinishStep(t) PROVE UNCHANGED <<pc, cur, state>>
  BY <1>9 DEF FinishStep, FinishCount, FinishWrite, FinishDelete, FinishCommit, engine, tables
<1>10. ASSUME NEW s \in Senders, TakeFeedback(s) PROVE Stands /\ OutcomeInv'
  <2>1. PICK f \in Waiting : FeedbackEffect(s, f)
    BY <1>10, FeedbackCases
  <2>2. UNCHANGED <<pc, cur>>
    BY <1>10 DEF TakeFeedback, engine
  <2>3. \/ state' = state
        \/ state' = [state EXCEPT ![f[1]] = "running"] /\ f[1] \in restarted'
    BY <2>1 DEF FeedbackEffect, Restart
  <2>4. f[1] \in Actions
    BY <2>1 DEF Waiting
  <2> QED BY <1>1, <2>2, <2>3, <2>4 DEF OutcomeInv, Outcomes
<1>11. ASSUME NEW s \in Senders, SenderCall(s) PROVE UNCHANGED <<pc, cur, state>>
  BY <1>11 DEF SenderCall, Create, Request, GiveUp, LockWorkflow, UnlockWorkflow, SkipAction,
              engine, tables
<1>12. ASSUME NEW a \in Actions, NEW st \in Answers, Answer(a, st) PROVE UNCHANGED <<pc, cur, state>>
  BY <1>12 DEF Answer, engine, tables
<1>13. CASE Tick \/ Lose \/ UNCHANGED vars
  <2>1. UNCHANGED <<pc, cur, state>>
    BY <1>13 DEF Tick, Lose, vars, engine, tables
  <2> QED BY <1>2, <2>1
<1>14. CASE Crash
  BY <1>2, <1>14 DEF Crash, tables
<1> QED BY <1>2, <1>3, <1>4, <1>5, <1>6, <1>7, <1>8, <1>9, <1>10, <1>11, <1>12, <1>13, <1>14
        DEF Next, EngineStep

-----------------------------------------------------------------------------
(* The theorems.                                                           *)

\* The invariant holds in the first state, and every step keeps it.
LEMMA WorkflowInit == Init => CoreInv
<1> SUFFICES ASSUME Init PROVE CoreInv
  OBVIOUS
<1>1. TablesInv
  BY DEF Init, TablesInv, Known, Started
<1>2. NoCall.at = "none" /\ PowerOnMsg.kind = "poweron"
  BY DEF NoCall, PowerOnMsg
<1>3. TouchedInv
  BY <1>2 DEF Init, TouchedInv, InHand, BeingFinished
<1>4. ReachedInv
  BY <1>2 DEF Init, ReachedInv, InboxInv, Harmless, RowsInv, MailInv, Waiting, EmptyMailbox,
               CopyInv, CommitInv
<1>5. SendInv /\ OutcomeInv
  BY DEF Init, SendInv, UndoArmed, OutcomeInv
<1> QED BY <1>1, <1>3, <1>4, <1>5, TypeInit DEF CoreInv

LEMMA WorkflowStep == CoreInv /\ [Next]_vars => CoreInv'
<1> SUFFICES ASSUME CoreInv, [Next]_vars PROVE CoreInv'
  OBVIOUS
<1>1. TypeOK'
  BY TypeStep DEF CoreInv
<1> QED BY <1>1, TablesStep, TouchedStep, ReachedStep, SendStep, StateSteps DEF CoreInv

\* The invariant holds in every behaviour of the engine, its callers and receivers.
THEOREM WorkflowInvariant == Spec => []CoreInv
BY WorkflowInit, WorkflowStep, PTL DEF Spec

\* An action is requested only after its predecessors have been finished (Run,
\* engine.cpp:659), whatever happened between the listing and the request.
THEOREM OrderCorrect == Spec => []OrderKept
<1>1. CoreInv => OrderKept
  BY DEF CoreInv, TouchedInv, Due, ReadyAction, OrderKept
<1> QED BY <1>1, WorkflowInvariant, PTL

\* The rollback action of a requested action is not skipped (DoAction,
\* engine.cpp:706).
THEOREM UndoArmedCorrect == Spec => []UndoArmed
<1>1. CoreInv => UndoArmed
  BY DEF CoreInv, SendInv
<1> QED BY <1>1, WorkflowInvariant, PTL

\* When a rollback action has been requested, the workflow it undoes is over and will
\* get no request any more (Rollback, engine.cpp:888).
THEOREM UndoAloneCorrect == Spec => []UndoAlone
<1>1. CoreInv => UndoAlone
  <2> SUFFICES ASSUME CoreInv, NEW b \in asked, NEW f \in Workflows, RollbackOf[f] = FlowOf[b]
               PROVE  /\ f \notin table
                      /\ pc \in {"clear", "send"} => FlowOf[cur.a] # f
    BY DEF UndoAlone
  <2>1. Gone(f)
    BY DEF CoreInv, TouchedInv, Due, Started
  <2> QED BY <2>1 DEF Gone, CoreInv, SendInv
<1> QED BY <1>1, WorkflowInvariant, PTL

\* Requested work, and a rollback that was set going, is in the table or in the history
\* and never in both (DeleteWorkflow, action.cpp:918).
THEOREM NothingVanishesCorrect == Spec => []NothingVanishes
<1>1. CoreInv => NothingVanishes
  BY DEF CoreInv, TablesInv, TouchedInv, Due, Started, Known, NothingVanishes
<1> QED BY <1>1, WorkflowInvariant, PTL

\* A recorded outcome changes only when RestartAction takes it back (the handling of
\* an answer, engine.cpp:497).
THEOREM OutcomeCorrect == Spec => OutcomeStands
<1>1. CoreInv /\ [Next]_vars => [\A a \in Actions : state[a] \in Outcomes /\ state'[a] # state[a]
            => state'[a] = "running" /\ a \in restarted']_vars
  BY StateSteps
<1> QED BY <1>1, WorkflowInvariant, PTL DEF Spec, OutcomeStands

-----------------------------------------------------------------------------
(* The engine implements Saga.                                             *)

\* A finished action was due: whoever ends an action works on a due one.
FinishedInv == \A a \in finished : Due(a)

SagaInv == CoreInv /\ FinishedInv

LEMMA FinishedStep ==
  ASSUME SagaInv, [Next]_vars
  PROVE  FinishedInv'
<1> SUFFICES finished' \subseteq finished \cup BeingFinished
  <2>1. \A a \in finished \cup BeingFinished : a \in Actions /\ Due(a)
    BY DEF SagaInv, FinishedInv, CoreInv, TouchedInv, TypeOK, TablesType, CallersType, BeingFinished
  <2>2. \A a \in Actions : Due(a) => Due(a)'
    BY TablesStep DEF SagaInv
  <2> QED BY <2>1, <2>2 DEF FinishedInv
<1>1. CASE EngineStep \/ Tick \/ Lose \/ Crash \/ UNCHANGED vars
  BY <1>1 DEF EngineStep, EngineRead, EngineClearSkip, EngineSend, EngineTimeOut, EngineFinished,
              EnginePowerOn, EngineRun, EngineAck, EngineStore, EnginePause, EngineResume,
              EngineDelete, EngineRollback, Tick, Lose, Crash, vars, tables
<1>2. ASSUME NEW t \in Threads, FinishStep(t) PROVE finished' \subseteq finished \cup BeingFinished
  <2>1. CASE FinishCount(t) \/ FinishDelete(t)
    BY <2>1 DEF FinishCount, FinishDelete, tables
  <2>2. CASE FinishWrite(t) \/ FinishCommit(t)
    <3>1. fin[t].at # "none" /\ finished' \subseteq finished \cup {fin[t].a}
      BY <2>2 DEF FinishWrite, FinishCommit
    <3> QED BY <3>1 DEF BeingFinished
  <2> QED BY <1>2, <2>1, <2>2 DEF FinishStep
<1>3. ASSUME NEW s \in Senders, TakeFeedback(s) \/ SenderCall(s)
      PROVE  finished' \subseteq finished \cup BeingFinished
  BY <1>3 DEF TakeFeedback, SenderCall, Create, Request, GiveUp, LockWorkflow, UnlockWorkflow,
              SkipAction, tables
<1>4. ASSUME NEW a \in Actions, NEW st \in Answers, Answer(a, st)
      PROVE  finished' \subseteq finished \cup BeingFinished
  BY <1>4 DEF Answer, tables
<1> QED BY <1>1, <1>2, <1>3, <1>4 DEF Next

LEMMA SagaStep == SagaInv /\ [Next]_vars => SagaInv'
BY WorkflowStep, FinishedStep DEF SagaInv

LEMMA SagaInit == Init => SagaInv
<1>1. Init => FinishedInv
  BY DEF Init, FinishedInv
<1> QED BY <1>1, WorkflowInit DEF SagaInv

\* The phases of started workflows, and of prepared ones.
LEMMA PhaseOf ==
  ASSUME TypeOK, TablesInv, NEW w \in Workflows
  PROVE  /\ history[w] # "none" => Phase(w) = "over"
         /\ Phase(w) = "over" => history[w] # "none"
         /\ Phase(w) = "running" <=> w \in table /\ ~\E f \in table : RollbackOf[f] = w
         /\ Phase(w) = "prepared" <=> w \in table /\ \E f \in table : RollbackOf[f] = w
         /\ Started(w) => Phase(w) \in {"running", "over"}
         /\ Started(w) /\ w \in table => Phase(w) = "running"
         /\ Started(w) => \A f \in Workflows : RollbackOf[f] = w => Phase(f) = "over"
<1>1. w \in table => history[w] = "none"
  BY DEF TablesInv
<1>2. table \subseteq Workflows
  BY DEF TypeOK, TablesType
<1>3. ASSUME Started(w)
      PROVE  /\ w \in table \/ history[w] # "none"
             /\ ~\E f \in table : RollbackOf[f] = w
             /\ \A f \in Workflows : RollbackOf[f] = w => history[f] # "none"
  BY <1>2, <1>3 DEF Started, Known, Gone
<1> QED BY <1>1, <1>3 DEF Phase

\* Workflows end: their rollbacks leave the table with them and are dropped.
EndSeen(W) ==
  /\ \A w \in W : Phase(w) = "running"
  /\ \A v \in Workflows :
       Phase(v)' = IF v \in W THEN "over"
                   ELSE IF Phase(v) = "prepared" /\ \E w \in W : RollbackOf[w] = v THEN "dropped"
                   ELSE Phase(v)
  /\ UNCHANGED <<undone, asked>>

LEMMA EndPhases ==
  ASSUME TypeOK, TablesInv, NEW W, Retires(W, WithRollback(W)), \A w \in W : Started(w),
         UNCHANGED <<undone, asked>>
  PROVE  EndSeen(W)
<1>1. /\ W \subseteq table /\ table \subseteq Workflows /\ table' = table \ WithRollback(W)
      /\ \A w \in Workflows : history'[w] # "none" <=> (w \in W \/ history[w] # "none")
  BY DEF Retires, TypeOK, TablesType
<1>2. \A w \in W : w \in Workflows /\ Phase(w) = "running"
  BY <1>1, PhaseOf
<1>3. ASSUME NEW v \in Workflows
      PROVE  Phase(v)' = IF v \in W THEN "over"
                         ELSE IF Phase(v) = "prepared" /\ \E w \in W : RollbackOf[w] = v
                         THEN "dropped" ELSE Phase(v)
  <2>1. CASE v \in W \/ history[v] # "none"
    BY <1>1, <2>1 DEF Phase
  <2>2. CASE v \notin W /\ history[v] = "none" /\ v \in table
    <3>1. history'[v] = "none"
      BY <1>1, <2>2
    <3>2. CASE \E w \in W : RollbackOf[w] = v
      <4>1. PICK w \in W : RollbackOf[w] = v
        BY <3>2
      <4>2. v \notin table' /\ w \in Workflows /\ w \in table /\ history'[w] # "none"
        BY <1>1, <4>1 DEF WithRollback
      <4> QED BY <2>2, <3>1, <4>1, <4>2 DEF Phase
    <3>3. CASE ~\E w \in W : RollbackOf[w] = v
      <4>1. v \in table'
        BY <1>1, <2>2, <3>3 DEF WithRollback
      <4>2. ASSUME NEW f \in table, RollbackOf[f] = v PROVE f \in table'
        <5>1. f \in Workflows /\ f \notin W /\ v # None
          BY <1>1, <3>3, <4>2
        <5>2. \A w \in W : RollbackOf[w] # f
          BY <1>1, <4>2, <5>1
        <5> QED BY <1>1, <5>1, <5>2 DEF WithRollback
      <4>3. (\E f \in table' : RollbackOf[f] = v) <=> \E f \in table : RollbackOf[f] = v
        BY <1>1, <4>2
      <4> QED BY <2>2, <3>1, <3>3, <4>1, <4>3 DEF Phase
    <3> QED BY <3>2, <3>3
  <2>3. CASE v \notin W /\ history[v] = "none" /\ v \notin table
    <3>1. history'[v] = "none" /\ v \notin table'
      BY <1>1, <2>3
    <3>2. \A f \in W : RollbackOf[f] # v
      BY <1>1, <2>3 DEF TablesInv, Known
    <3>3. \A f \in Workflows : RollbackOf[f] = v => (history'[f] # "none" <=> history[f] # "none")
      BY <1>1, <3>2
    <3> QED BY <2>3, <3>1, <3>2, <3>3 DEF Phase
  <2> QED BY <2>1, <2>2, <2>3
<1> QED BY <1>2, <1>3 DEF EndSeen

\* One workflow ends and leaves its rollback in the table, where nothing holds it back
\* any more.
LEMMA RollbackPhases ==
  ASSUME TypeOK, TablesInv, NEW w \in table, Retires({w}, {w})
  PROVE  \A v \in Workflows :
           Phase(v)' = IF v = w THEN "over"
                       ELSE IF Phase(v) = "prepared" /\ v = RollbackOf[w] THEN "running"
                       ELSE Phase(v)
<1>1. /\ w \in Workflows /\ table \subseteq Workflows /\ table' = table \ {w}
      /\ \A v \in Workflows : history'[v] # "none" <=> (v = w \/ history[v] # "none")
  BY DEF Retires, TypeOK, TablesType
<1> SUFFICES ASSUME NEW v \in Workflows
             PROVE  Phase(v)' = IF v = w THEN "over"
                                ELSE IF Phase(v) = "prepared" /\ v = RollbackOf[w] THEN "running"
                                ELSE Phase(v)
  OBVIOUS
<1>2. CASE v = w \/ history[v] # "none"
  BY <1>1, <1>2 DEF Phase
<1>3. CASE v # w /\ history[v] = "none" /\ v \in table
  <2>1. history'[v] = "none" /\ v \in table'
    BY <1>1, <1>3
  <2>2. CASE v = RollbackOf[w]
    <3>1. \A f \in table' : RollbackOf[f] # v
      BY <1>1, <2>2
    <3>2. Phase(v) = "prepared"
      BY <1>3, <2>2 DEF Phase
    <3> QED BY <1>3, <2>1, <2>2, <3>1, <3>2 DEF Phase
  <2>3. CASE v # RollbackOf[w]
    <3>1. (\E f \in table' : RollbackOf[f] = v) <=> \E f \in table : RollbackOf[f] = v
      BY <1>1, <2>3
    <3> QED BY <1>3, <2>1, <2>3, <3>1 DEF Phase
  <2> QED BY <2>2, <2>3
<1>4. CASE v # w /\ history[v] = "none" /\ v \notin table
  <2>1. history'[v] = "none" /\ v \notin table' /\ RollbackOf[w] # v
    BY <1>1, <1>4 DEF TablesInv, Known
  <2>2. \A f \in Workflows : RollbackOf[f] = v => (history'[f] # "none" <=> history[f] # "none")
    BY <1>1, <2>1
  <2> QED BY <1>4, <2>1, <2>2 DEF Phase
<1> QED BY <1>2, <1>3, <1>4

\* The other steps of Saga, of the engine's own variables.
ReadySeen(a) == ReadyAction(a) /\ \A f \in Workflows : RollbackOf[f] = FlowOf[a] => Phase(f) = "over"

CreateSeen(w) ==
  /\ Phase(w) = "absent" /\ \A f \in Workflows : RollbackOf[f] # w
  /\ \A v \in Workflows :
       Phase(v)' = IF v = w THEN "running"
                   ELSE IF v = RollbackOf[w] THEN "prepared" ELSE Phase(v)
  /\ UNCHANGED <<undone, asked, finished>>

AskSeen(a) ==
  /\ ReadySeen(a) /\ Phase(FlowOf[a]) \in {"running", "over"}
  /\ asked' = asked \cup {a}
  /\ \A v \in Workflows : Phase(v)' = Phase(v)
  /\ UNCHANGED <<undone, finished>>

FinishSeen(a) ==
  /\ ReadySeen(a) /\ Phase(FlowOf[a]) = "running"
  /\ finished' = finished \cup {a}
  /\ \A v \in Workflows : Phase(v)' = Phase(v)
  /\ UNCHANGED <<undone, asked>>

CompleteSeen(a) == ReadySeen(a) /\ finished' = finished \cup {a} /\ EndSeen({FlowOf[a]})

RollbackSeen(w) ==
  /\ Phase(w) = "running"
  /\ \A v \in Workflows :
       Phase(v)' = IF v = w THEN "over"
                   ELSE IF Phase(v) = "prepared" /\ v = RollbackOf[w] THEN "running"
                   ELSE Phase(v)
  /\ undone' = undone \cup ({RollbackOf[w]} \cap Workflows)
  /\ UNCHANGED <<asked, finished>>

DiscardSeen(w) ==
  /\ Phase(w) = "prepared"
  /\ \A v \in Workflows : Phase(v)' = IF v = w THEN "over" ELSE Phase(v)
  /\ UNCHANGED <<undone, asked, finished>>

NothingSeen == (\A v \in Workflows : Phase(v)' = Phase(v)) /\ UNCHANGED <<undone, asked, finished>>

SagaSeen ==
  \/ \E w \in Workflows : CreateSeen(w) \/ RollbackSeen(w) \/ DiscardSeen(w)
  \/ \E a \in Actions : AskSeen(a) \/ FinishSeen(a) \/ CompleteSeen(a)
  \/ \E W \in SUBSET Workflows : EndSeen(W) /\ UNCHANGED finished
  \/ NothingSeen

LEMMA PhaseKept ==
  ASSUME UNCHANGED <<table, history>>
  PROVE  \A v \in Workflows : Phase(v)' = Phase(v)
BY DEF Phase

\* What is due is ready, and its workflow was set going.
LEMMA DueIsReady ==
  ASSUME CoreInv, NEW a \in Actions, Due(a)
  PROVE  /\ ReadySeen(a) /\ FlowOf[a] \in Workflows /\ Started(FlowOf[a])
         /\ Phase(FlowOf[a]) \in {"running", "over"}
         /\ InPool(a) => Phase(FlowOf[a]) = "running"
<1>1. FlowOf[a] \in Workflows /\ Started(FlowOf[a]) /\ ReadyAction(a)
  BY DEF Due
<1>2. TypeOK /\ TablesInv
  BY DEF CoreInv
<1> QED BY <1>1, <1>2, PhaseOf DEF ReadySeen, InPool

\* CreateWorkflow starts a workflow and prepares its rollback.
LEMMA CreateIsSeen ==
  ASSUME CoreInv, NEW s \in Senders, Create(s)
  PROVE  SagaSeen
<1>1. PICK w \in Workflows :
        /\ w \notin table /\ history[w] = "none" /\ ~IsRollback(w)
        /\ table' = table \cup (WithRollback({w}) \cap Workflows)
  BY DEF Create
<1>2. UNCHANGED <<finished, history, undone, asked>>
  BY DEF Create, ghosts
<1> DEFINE r == RollbackOf[w]
<1>3. table' = table \cup ({w, r} \cap Workflows) /\ table \subseteq Workflows
  BY <1>1 DEF WithRollback, CoreInv, TypeOK, TablesType
<1>4. r \in Workflows => ~Known(r) /\ r # w
  BY <1>1 DEF CoreInv, TablesInv, Known
<1>5. \A f \in Workflows : RollbackOf[f] # w /\ (RollbackOf[f] = r /\ r \in Workflows => f = w)
  BY <1>1 DEF IsRollback
<1>6. Phase(w) = "absent"
  BY <1>1, <1>5 DEF Phase
<1> HIDE DEF r
<1>7. ASSUME NEW v \in Workflows
      PROVE  Phase(v)' = IF v = w THEN "running" ELSE IF v = r THEN "prepared" ELSE Phase(v)
  <2>1. CASE v = w
    BY <1>1, <1>2, <1>3, <1>5, <2>1 DEF Phase
  <2>2. CASE v = r
    <3>1. w \in table' /\ RollbackOf[w] = v /\ v \in table' /\ history'[v] = "none" /\ v # w
      BY <1>2, <1>3, <1>4, <2>2 DEF r, Known
    <3> QED BY <2>2, <3>1 DEF Phase
  <2>3. CASE v # w /\ v # r
    <3>1. v \in table' <=> v \in table
      BY <1>3, <2>3
    <3>2. RollbackOf[w] # v /\ (r \in Workflows => RollbackOf[r] # v)
      BY <2>3 DEF r
    <3>3. (\E f \in table' : RollbackOf[f] = v) <=> \E f \in table : RollbackOf[f] = v
      BY <1>3, <3>2
    <3> QED BY <1>2, <2>3, <3>1, <3>3 DEF Phase
  <2> QED BY <2>1, <2>2, <2>3
<1>8. CreateSeen(w)
  BY <1>2, <1>5, <1>6, <1>7 DEF CreateSeen, r
<1> QED BY <1>8 DEF SagaSeen

\* A workflow that FinishAction or DeleteWorkflow removes ends if it was set going; a
\* rollback that was not is discarded.
LEMMA RemovalIsSeen ==
  ASSUME CoreInv, NEW w \in table, NEW v \in {"success", "failed", "cancelled"},
         table' = table \ WithRollback({w}), history' = [history EXCEPT ![w] = v],
         UNCHANGED <<paused, undone, asked>>, finished \subseteq finished'
  PROVE  /\ Started(w) => EndSeen({w})
         /\ UNCHANGED finished => SagaSeen
<1>1. TypeOK /\ TablesInv /\ w \in Workflows
  BY DEF CoreInv, TypeOK, TablesType
<1>2. Retires({w}, WithRollback({w}))
  BY <1>1, OneRetires
<1>3. ASSUME \A f \in table : RollbackOf[f] # w PROVE EndSeen({w})
  <2>1. Started(w)
    <3>1. \A f \in Workflows : RollbackOf[f] = w => Gone(f)
      BY <1>1, <1>3 DEF TablesInv, Known, Gone
    <3> QED BY <3>1 DEF Started, Known
  <2> QED BY <1>1, <1>2, <2>1, EndPhases
<1>4. Started(w) => \A f \in table : RollbackOf[f] # w
  BY <1>1 DEF Started, Gone, TypeOK, TablesType
<1>5. ASSUME NEW f \in table, RollbackOf[f] = w, UNCHANGED finished PROVE DiscardSeen(w)
  <2>1. RollbackOf[w] = None /\ f \in Workflows
    BY <1>1, <1>5 DEF TypeOK, TablesType
  <2>2. table \ WithRollback({w}) = table \ {w}
    BY <1>1, <2>1 DEF WithRollback, TypeOK, TablesType
  <2>3. Retires({w}, {w})
    <3>1. w \in WithRollback({w})
      BY DEF WithRollback
    <3> QED BY <1>2, <2>2, <3>1 DEF Retires
  <2>4. Phase(w) = "prepared"
    BY <1>1, <1>5, PhaseOf
  <2>5. \A x \in Workflows : x # RollbackOf[w]
    BY <2>1
  <2> QED BY <1>1, <1>5, <2>3, <2>4, <2>5, RollbackPhases DEF DiscardSeen
<1>6. ASSUME UNCHANGED finished PROVE SagaSeen
  <2>1. CASE \A f \in table : RollbackOf[f] # w
    <3>1. EndSeen({w}) /\ {w} \in SUBSET Workflows
      BY <1>1, <1>3, <2>1
    <3> QED BY <1>6, <3>1 DEF SagaSeen
  <2>2. CASE \E f \in table : RollbackOf[f] = w
    BY <1>1, <1>5, <1>6, <2>2 DEF SagaSeen
  <2> QED BY <2>1, <2>2
<1> QED BY <1>3, <1>4, <1>6

\* What the calls of FinishAction do.
LEMMA FinishIsSeen ==
  ASSUME CoreInv, NEW t \in Threads, FinishStep(t)
  PROVE  SagaSeen
<1> DEFINE a == fin[t].a
           w == FlowOf[a]
<1>1. fin[t].at # "none"
  BY DEF FinishStep, FinishCount, FinishWrite, FinishDelete, FinishCommit
<1>2. a \in Actions /\ Due(a)
  BY <1>1 DEF CoreInv, TypeOK, CallersType, TouchedInv, BeingFinished
<1>3. /\ ReadySeen(a) /\ w \in Workflows /\ Started(w)
      /\ InPool(a) => Phase(w) = "running"
  BY <1>2, DueIsReady
<1>4. InPool(a) <=> w \in table
  BY DEF InPool
<1>5. UNCHANGED <<undone, asked, paused>>
  BY DEF FinishStep, FinishCount, FinishWrite, FinishDelete, FinishCommit, ghosts, tables
<1>6. ASSUME UNCHANGED <<table, history>>, finished' = IF InPool(a) THEN finished \cup {a} ELSE finished
      PROVE  SagaSeen
  <2>1. \A v \in Workflows : Phase(v)' = Phase(v)
    BY <1>6, PhaseKept
  <2>2. CASE InPool(a)
    BY <1>2, <1>3, <1>5, <1>6, <2>1, <2>2 DEF SagaSeen, FinishSeen
  <2>3. CASE ~InPool(a)
    BY <1>5, <1>6, <2>1, <2>3 DEF SagaSeen, NothingSeen
  <2> QED BY <2>2, <2>3
<1>7. ASSUME UNCHANGED <<table, history, finished>> PROVE SagaSeen
  BY <1>5, <1>7, PhaseKept DEF SagaSeen, NothingSeen
<1>8. CASE FinishCount(t)
  BY <1>7, <1>8 DEF FinishCount, tables
<1>9. CASE FinishWrite(t)
  BY <1>6, <1>9 DEF FinishWrite
<1> HIDE DEF a, w
<1>10. CASE FinishDelete(t)
  <2>1. finished' = finished
    BY <1>10 DEF FinishDelete
  <2>2. CASE w \in table
    <3>1. table' = table \ WithRollback({w}) /\ history' = [history EXCEPT ![w] = Verdict(w)]
      BY <1>10, <2>2 DEF FinishDelete, a, w
    <3>2. Verdict(w) \in {"success", "failed", "cancelled"}
      BY <1>3, VerdictType
    <3> QED BY <1>5, <2>1, <2>2, <3>1, <3>2, RemovalIsSeen
  <2>3. CASE w \notin table
    BY <1>7, <1>10, <2>1, <2>3 DEF FinishDelete, a, w
  <2> QED BY <2>2, <2>3
<1>11. CASE FinishCommit(t)
  <2>1. CASE fin[t].count = 1 /\ history[w] = "none"
    <3>1. /\ table' = table \ WithRollback({w})
          /\ history' = [history EXCEPT ![w] = fin[t].verdict]
          /\ finished' = IF InPool(a) THEN finished \cup {a} ELSE finished
      BY <1>11, <2>1 DEF FinishCommit, a, w
    <3>2. w \in table
      BY <1>3, <2>1 DEF Started, Known
    <3>3. fin[t].verdict \in {"success", "failed", "cancelled"}
      BY <1>11 DEF FinishCommit, CoreInv, TypeOK, CallersType, FinCalls, ReachedInv, CommitInv
    <3>4. EndSeen({w}) /\ finished' = finished \cup {a}
      <4>1. finished' = finished \cup {a}
        BY <1>4, <3>1, <3>2
      <4> QED BY <1>3, <1>5, <3>1, <3>2, <3>3, <4>1, RemovalIsSeen
    <3>5. CompleteSeen(a)
      BY <1>3, <3>4 DEF CompleteSeen, w
    <3> QED BY <1>2, <3>5 DEF SagaSeen
  <2>2. CASE fin[t].count = 1 /\ history[w] # "none"
    BY <1>7, <1>11, <2>2 DEF FinishCommit, a, w
  <2>3. CASE fin[t].count # 1
    BY <1>6, <1>11, <2>3 DEF FinishCommit, a, w
  <2> QED BY <2>1, <2>2, <2>3
<1> QED BY <1>8, <1>9, <1>10, <1>11 DEF FinishStep

\* What the engine does.
LEMMA EngineIsSeen ==
  ASSUME SagaInv, EngineStep
  PROVE  SagaSeen
<1>0. CoreInv /\ TypeOK /\ TablesInv
  BY DEF SagaInv, CoreInv
<1>1. ASSUME UNCHANGED <<table, history, undone, asked, finished>> PROVE SagaSeen
  BY <1>1, PhaseKept DEF SagaSeen, NothingSeen
<1>2. CASE \/ EngineRead \/ EngineClearSkip \/ EngineTimeOut \/ EngineFinished
           \/ EngineRun \/ EngineAck \/ EngineStore
  BY <1>1, <1>2 DEF EngineRead, EngineClearSkip, EngineTimeOut, EngineFinished, EngineRun,
                    EngineAck, EngineStore, tables, ghosts
<1>3. CASE EnginePause \/ EngineResume
  BY <1>1, <1>3 DEF EnginePause, EngineResume, ghosts
<1>4. CASE EngineSend
  <2>1. /\ pc = "send" /\ asked' = asked \cup {cur.a}
        /\ UNCHANGED <<table, history, undone, finished>>
    BY <1>4 DEF EngineSend
  <2>2. cur.a \in Actions /\ Due(cur.a)
    BY <1>0, <2>1 DEF CoreInv, TypeOK, EngineType, RowCopies, TouchedInv, InHand
  <2>3. AskSeen(cur.a)
    BY <1>0, <2>1, <2>2, DueIsReady, PhaseKept DEF AskSeen
  <2> QED BY <2>2, <2>3 DEF SagaSeen
<1>5. CASE EnginePowerOn
  <2> DEFINE over == {w \in table : ActionsOf(w) # {} /\ Unfinished(w) = {}}
  <2>1. /\ table' = table \ WithRollback(over)
        /\ history' = [w \in Workflows |-> IF w \in over THEN "success" ELSE history[w]]
        /\ UNCHANGED <<paused, undone, finished, asked>>
    BY <1>5 DEF EnginePowerOn
  <2>2. ASSUME NEW w \in over PROVE Started(w)
    <3>1. PICK a \in Actions : FlowOf[a] = w /\ a \in finished
      BY DEF ActionsOf, Unfinished
    <3> QED BY <3>1 DEF SagaInv, FinishedInv, Due
  <2>3. over \subseteq table /\ over \subseteq WithRollback(over)
    BY DEF WithRollback
  <2> HIDE DEF over
  <2>4. Retires(over, WithRollback(over))
    BY <2>1, <2>3 DEF Retires
  <2>5. EndSeen(over)
    BY <1>0, <2>1, <2>2, <2>4, EndPhases
  <2>6. over \in SUBSET Workflows
    BY <1>0, <2>3 DEF TypeOK, TablesType
  <2> QED BY <2>1, <2>5, <2>6 DEF SagaSeen
<1>6. CASE EngineDelete
  <2> DEFINE w == Head(inbox).w
  <2>1. UNCHANGED <<paused, undone, finished, asked>>
    BY <1>6 DEF EngineDelete, ghosts
  <2>2. CASE w \in table
    <3>1. table' = table \ WithRollback({w}) /\ history' = [history EXCEPT ![w] = Verdict(w)]
      BY <1>6, <2>2 DEF EngineDelete
    <3>2. Verdict(w) \in {"success", "failed", "cancelled"}
      BY <1>0, <2>2, VerdictType DEF TypeOK, TablesType
    <3> HIDE DEF w
    <3> QED BY <1>0, <2>1, <2>2, <3>1, <3>2, RemovalIsSeen
  <2>3. CASE w \notin table
    BY <1>1, <1>6, <2>1, <2>3 DEF EngineDelete
  <2> QED BY <2>2, <2>3
<1>7. CASE EngineRollback
  <2> DEFINE w == Head(inbox).w
             r == RollbackOf[w]
  <2>1. UNCHANGED <<finished, asked>>
    BY <1>7 DEF EngineRollback
  <2>2. CASE w \in table /\ (r # None \/ IsRollback(w))
    <3>1. /\ table' = table \ {w} /\ history' = [history EXCEPT ![w] = Verdict(w)]
          /\ paused' = paused \ {r} /\ undone' = undone \cup ({r} \cap Workflows)
      BY <1>7, <2>2 DEF EngineRollback, DeletedByRollback
    <3>2. w \in Workflows /\ history \in [Workflows -> {"none", "success", "failed", "cancelled"}]
      BY <1>0, <2>2 DEF TypeOK, TablesType
    <3>3. Verdict(w) # "none" /\ w \in WithRollback({w})
      BY <3>2, VerdictType DEF WithRollback
    <3>4. r \in Workflows => r # w
      BY <3>2
    <3>5. \A x \in Workflows : history'[x] = IF x = w THEN Verdict(w) ELSE history[x]
      BY <3>1, <3>2
    <3> HIDE DEF w, r
    <3>6. Retires({w}, {w})
      BY <2>1, <2>2, <3>1, <3>3, <3>4, <3>5 DEF Retires, r
    <3>7. \A v \in Workflows :
            Phase(v)' = IF v = w THEN "over"
                        ELSE IF Phase(v) = "prepared" /\ v = r THEN "running"
                        ELSE Phase(v)
      BY <1>0, <2>2, <3>6, RollbackPhases DEF r
    <3>8. CASE Phase(w) = "running"
      BY <2>1, <3>1, <3>2, <3>7, <3>8 DEF SagaSeen, RollbackSeen, r
    <3>9. CASE Phase(w) = "prepared"
      <4>1. r = None
        BY <1>0, <3>2, <3>9, PhaseOf DEF TypeOK, TablesType, r
      <4>2. DiscardSeen(w)
        BY <2>1, <3>1, <3>7, <3>9, <4>1 DEF DiscardSeen
      <4> QED BY <3>2, <4>2 DEF SagaSeen
    <3>10. Phase(w) \in {"running", "prepared"}
      BY <1>0, <2>2, <3>2, PhaseOf
    <3> QED BY <3>8, <3>9, <3>10
  <2>3. CASE ~(w \in table /\ (r # None \/ IsRollback(w)))
    BY <1>1, <1>7, <2>1, <2>3 DEF EngineRollback
  <2> QED BY <2>2, <2>3
<1> QED BY <1>2, <1>3, <1>4, <1>5, <1>6, <1>7 DEF EngineStep

\* Every step of the engine, its callers and their environment is a step of Saga or
\* invisible to it.
LEMMA SagaStepSeen ==
  ASSUME SagaInv, [Next]_vars
  PROVE  SagaSeen
<1>0. CoreInv
  BY DEF SagaInv
<1>1. ASSUME UNCHANGED <<table, history, undone, asked, finished>> PROVE SagaSeen
  BY <1>1, PhaseKept DEF SagaSeen, NothingSeen
<1>2. ASSUME NEW s \in Senders, TakeFeedback(s) PROVE SagaSeen
  BY <1>1, <1>2 DEF TakeFeedback
<1>3. ASSUME NEW s \in Senders, SenderCall(s), ~Create(s) PROVE SagaSeen
  <2>1. UNCHANGED <<table, history, undone, asked, finished>>
    BY <1>3 DEF SenderCall, Request, GiveUp, LockWorkflow, UnlockWorkflow, SkipAction, tables, ghosts
  <2> QED BY <1>1, <2>1
<1>4. ASSUME NEW a \in Actions, NEW st \in Answers, Answer(a, st) PROVE SagaSeen
  BY <1>1, <1>4 DEF Answer, tables, ghosts
<1>5. CASE Tick \/ Lose \/ Crash \/ UNCHANGED vars
  BY <1>1, <1>5 DEF Tick, Lose, Crash, vars, tables, ghosts
<1> QED BY <1>0, <1>2, <1>3, <1>4, <1>5, CreateIsSeen, EngineIsSeen, FinishIsSeen DEF Next

phases == [w \in Workflows |-> Phase(w)]

\* The engine implements Saga, for any workflows, actions, orders, senders and answers,
\* through crashes, repeated feedback and concurrent calls: each workflow runs once, its
\* rollback runs only if RollbackWorkflow ended it, in the same transaction, and is
\* dropped otherwise, and actions are asked for and finished in order and only while or
\* just after their workflow runs (DeleteWorkflow, Rollback, FinishAction, PowerOn).
THEOREM WorkflowImplementsSaga == Spec => ImplementsSaga
<1>1. Init => Life!Init
  BY DEF Init, Phase, Life!Init
<1>2. SagaInv /\ [Next]_vars => [Life!Next]_<<phases, undone, asked, finished>>
  <2> SUFFICES ASSUME SagaInv, [Next]_vars
               PROVE  [Life!Next]_<<phases, undone, asked, finished>>
    OBVIOUS
  <2>0. /\ \A v \in Workflows : phases[v] = Phase(v)
        /\ phases' = [v \in Workflows |-> Phase(v)']
        /\ \A a \in Actions : FlowOf[a] \in Workflows
        /\ table \subseteq Workflows
    BY DEF phases, SagaInv, CoreInv, TypeOK, TablesType
  <2>1. ASSUME NEW w \in Workflows, CreateSeen(w) PROVE Life!Create(w)
    BY <2>0, <2>1 DEF CreateSeen, Life!Create, phases
  <2>2. ASSUME NEW w \in Workflows, RollbackSeen(w) PROVE Life!Rollback(w)
    BY <2>0, <2>2 DEF RollbackSeen, Life!Rollback, phases
  <2>3. ASSUME NEW w \in Workflows, DiscardSeen(w) PROVE Life!Discard(w)
    BY <2>0, <2>3 DEF DiscardSeen, Life!Discard, phases
  <2>4. ASSUME \A v \in Workflows : Phase(v)' = Phase(v) PROVE phases' = phases
    BY <2>4 DEF phases
  <2>5. ASSUME NEW a \in Actions, AskSeen(a) PROVE Life!Ask(a)
    BY <2>0, <2>4, <2>5 DEF AskSeen, ReadySeen, ReadyAction, Life!Ask, Life!Ready, Life!Undoing, phases
  <2>6. ASSUME NEW a \in Actions, FinishSeen(a) PROVE Life!Finish(a)
    BY <2>0, <2>4, <2>6 DEF FinishSeen, ReadySeen, ReadyAction, Life!Finish, Life!Ready, Life!Undoing, phases
  <2>7. ASSUME NEW W \in SUBSET Workflows, EndSeen(W) PROVE Life!End(W)
    BY <2>0, <2>7 DEF EndSeen, Life!End, phases
  <2>8. ASSUME NEW a \in Actions, CompleteSeen(a) PROVE Life!Complete(a)
    <3>1. Life!End({FlowOf[a]})
      BY <2>0, <2>7, <2>8 DEF CompleteSeen
    <3> QED BY <2>0, <2>8, <3>1 DEF CompleteSeen, ReadySeen, ReadyAction, Life!Complete, Life!Ready,
                                    Life!Undoing, phases
  <2>9. SagaSeen
    BY SagaStepSeen
  <2> QED BY <2>1, <2>2, <2>3, <2>4, <2>5, <2>6, <2>7, <2>8, <2>9
          DEF SagaSeen, NothingSeen, Life!Next
<1> QED BY <1>1, <1>2, SagaInit, SagaStep, PTL DEF Spec, ImplementsSaga, Life!Spec, phases
=============================================================================
