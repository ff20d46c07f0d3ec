-------------------------- MODULE CascadeContract ---------------------------
(***************************************************************************)
(* What a call of cascade(root_id, nodes, edges) promises, in one step:    *)
(* it raises exactly when the tasks downstream of the root contain a       *)
(* cycle, and otherwise it leaves the schedule in which every downstream   *)
(* task sits at the earliest start that all its predecessors allow.        *)
(***************************************************************************)
EXTENDS CascadeInputs

VARIABLES
  root,    \* the task that was moved
  deps,    \* the dependency table: <<predecessor, successor>> -> DepEdge
  given,   \* the dates passed in, the root's new dates among them
  node,    \* the dates as the call leaves them
  status   \* called, returned or raised

vars == <<root, deps, given, node, status>>

Affected == Downstream(DOMAIN deps, root)

(* node is the schedule the call must leave.                               *)
Rescheduled == Reschedules(deps, given, node, root)

Init ==
  /\ root \in Tasks
  /\ deps \in Graphs
  /\ given \in Schedules
  /\ node = given
  /\ status = "called"

Return ==
  /\ status = "called"
  /\ ~ Cyclic(DOMAIN deps, Affected)
  /\ Rescheduled'
  /\ status' = "returned"
  /\ UNCHANGED <<root, deps, given>>

Raise ==
  /\ status = "called"
  /\ Cyclic(DOMAIN deps, Affected)
  /\ status' = "raised"
  /\ UNCHANGED <<root, deps, given, node>>

Next == Return \/ Raise

Safety == Init /\ [][Next]_vars

Spec == Safety /\ <>(status # "called")
=============================================================================
