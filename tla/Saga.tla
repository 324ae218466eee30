-------------------------------- MODULE Saga --------------------------------
(***************************************************************************)
(* What the workflow engine promises about the life of a workflow, whoever *)
(* calls it, finishes actions beside it or crashes.  A workflow runs once  *)
(* and is over once.  Its rollback is prepared together with it, runs only *)
(* if the workflow is rolled back, in the step that ends the workflow, and *)
(* is dropped if the workflow ends in any other way.  An action is asked   *)
(* for and done only after its predecessors are done; it is done only      *)
(* while its workflow runs.                                                *)
(***************************************************************************)
CONSTANTS
  Workflows,    \* rollback workflows included
  Actions,
  FlowOf,       \* the workflow of an action
  Before,       \* pairs of an action and one that has to wait for it
  RollbackOf    \* the rollback of a workflow, or something that is no workflow

VARIABLES
  phase,    \* of each workflow: absent, prepared, running, over or dropped
  undone,   \* rollbacks that were set going
  asked,    \* actions whose receiver was asked to do its work
  done      \* actions that are finished

Init == phase = [w \in Workflows |-> "absent"] /\ undone = {} /\ asked = {} /\ done = {}

Ready(a) == \A e \in Before : e[2] = a => e[1] \in done

\* Only a workflow that is over is being undone.
Undoing(w) == \A f \in Workflows : RollbackOf[f] = w => phase[f] = "over"

Create(w) ==
  /\ phase[w] = "absent" /\ \A f \in Workflows : RollbackOf[f] # w
  /\ phase' = [v \in Workflows |-> IF v = w THEN "running"
                                   ELSE IF v = RollbackOf[w] THEN "prepared" ELSE phase[v]]
  /\ UNCHANGED <<undone, asked, done>>

\* The request may leave just after another thread has ended the workflow.
Ask(a) ==
  /\ Ready(a) /\ phase[FlowOf[a]] \in {"running", "over"} /\ Undoing(FlowOf[a])
  /\ asked' = asked \cup {a}
  /\ UNCHANGED <<phase, undone, done>>

Finish(a) ==
  /\ Ready(a) /\ phase[FlowOf[a]] = "running" /\ Undoing(FlowOf[a])
  /\ done' = done \cup {a}
  /\ UNCHANGED <<phase, undone, asked>>

\* Workflows W end; rollbacks that wait for them will not be needed.
End(W) ==
  /\ \A w \in W : phase[w] = "running"
  /\ phase' = [v \in Workflows |->
                 IF v \in W THEN "over"
                 ELSE IF phase[v] = "prepared" /\ \E w \in W : RollbackOf[w] = v THEN "dropped"
                 ELSE phase[v]]
  /\ UNCHANGED <<undone, asked>>

\* The transaction that finishes the last action ends the workflow.
Complete(a) ==
  /\ Ready(a) /\ Undoing(FlowOf[a])
  /\ done' = done \cup {a}
  /\ End({FlowOf[a]})

Rollback(w) ==
  /\ phase[w] = "running"
  /\ phase' = [v \in Workflows |->
                 IF v = w THEN "over"
                 ELSE IF phase[v] = "prepared" /\ v = RollbackOf[w] THEN "running"
                 ELSE phase[v]]
  /\ undone' = undone \cup ({RollbackOf[w]} \cap Workflows)
  /\ UNCHANGED <<asked, done>>

\* A rollback is deleted before it was needed.
Discard(w) ==
  /\ phase[w] = "prepared"
  /\ phase' = [v \in Workflows |-> IF v = w THEN "over" ELSE phase[v]]
  /\ UNCHANGED <<undone, asked, done>>

Next ==
  \/ \E w \in Workflows : Create(w) \/ Rollback(w) \/ Discard(w)
  \/ \E a \in Actions : Ask(a) \/ Finish(a) \/ Complete(a)
  \/ \E W \in SUBSET Workflows : End(W) /\ UNCHANGED done

Spec == Init /\ [][Next]_<<phase, undone, asked, done>>
=============================================================================
