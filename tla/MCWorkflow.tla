----------------------------- MODULE MCWorkflow -----------------------------
(***************************************************************************)
(* Instances of the workflow engine.  A forward workflow w of two actions  *)
(* a, b and a rollback workflow r of two actions u, v: u undoes a and v    *)
(* undoes b, in the opposite order.  Both rollback actions are created     *)
(* skipped, as rollback actions are.                                       *)
(***************************************************************************)
EXTENDS Workflow

OneFlow == {"w"}
BothFlows == {"w", "r"}
OneFlowActions == {"a", "b"}
BothFlowActions == {"a", "b", "u", "v"}

MCFlowOf == [x \in Actions |-> IF x \in {"a", "b"} THEN "w" ELSE "r"]
Chain == {e \in {<<"a", "b">>, <<"v", "u">>} : e[1] \in Actions}
Parallel == {}
MCRollbackOf == [x \in Workflows |-> IF x = "w" /\ "r" \in Workflows THEN "r" ELSE None]
MCUndoOf == [x \in Actions |-> CASE x = "a" /\ "u" \in Actions -> "u"
                                 [] x = "b" /\ "v" \in Actions -> "v"
                                 [] OTHER -> None]
MCSkipped == {"u", "v"}

MCSenderOf == [x \in Actions |-> "s"]
OneSender == {"s"}
TwoSenders == {"s", "t"}

NoLimit == [x \in Actions |-> 0]
LimitA == [x \in Actions |-> IF x = "a" THEN MaxRepeat ELSE 0]

\* What senders do about feedback: end the action, in a transaction or not,
\* restart it, or undo the workflow.
FinishOrRollback ==
    [success |-> {"finish"}, failed |-> {"restart", "rollback"}, timeout |-> {"rollback"}]
UndoReplies ==
    [success |-> {"finishTx"}, failed |-> {"restart", "rollback", "delete"}, timeout |-> {"restart", "rollback"}]

CreateOnly == {<<"create", "w">>}
SkipWork == {<<"create", "w">>, <<"skip", "w">>}
AllCalls == {<<"create", "w">>, <<"pause", "w">>, <<"resume", "w">>, <<"lock", "w">>,
             <<"unlock", "w">>, <<"delete", "w">>, <<"rollback", "w">>}

\* Outcomes that are reported to the sender.
UndoFeedback == {<<"a", "success">>, <<"a", "failed">>, <<"a", "timeout">>, <<"b", "success">>}
SuccessOfB == {<<"b", "success">>}

OneCopy == [f \in Feedback |-> 1]
TwoCopies == [f \in Feedback |-> 2]
TwoOfFailures == [f \in Feedback |-> IF f[2] = "failed" THEN 2 ELSE 1]

Done == {"success"}
Progress == {"running", "success"}
Outcome == {"success", "failed"}
=============================================================================
