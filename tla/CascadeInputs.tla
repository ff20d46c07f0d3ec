--------------------------- MODULE CascadeInputs ----------------------------
(***************************************************************************)
(* What a call of cascade(root_id, nodes, edges) is given: the dates of    *)
(* the dated tasks of a project and the typed dependencies among them.     *)
(***************************************************************************)
EXTENDS Integers, Dependencies

CONSTANTS
  Graphs,     \* the dependency tables a call may be given
  Schedules   \* the dates the tasks may have when a call starts

DepType  == {"FS", "SS", "FF", "SF"}
DepEdge  == [type : DepType, lag : Int]
TaskNode == [start : Int, finish : Int]   \* finish < start is not refused

ASSUME TasksAssumption == IsFiniteSet(Tasks)
ASSUME GraphsAssumption ==
  \A D \in Graphs : /\ DOMAIN D \subseteq Tasks \X Tasks
                    /\ D \in [DOMAIN D -> DepEdge]
ASSUME SchedulesAssumption == Schedules \subseteq [Tasks -> TaskNode]

duration(n, t) == n[t].finish - n[t].start

(* Slack of the dependency <<p, s>> of D under the dates n: how much later *)
(* than required the constrained end of the successor is.                  *)
Slack(D, n, p, s) ==
  LET d == D[<<p, s>>]
  IN  CASE d.type = "FS" -> n[s].start  - (n[p].finish + d.lag)
        [] d.type = "SS" -> n[s].start  - (n[p].start  + d.lag)
        [] d.type = "FF" -> n[s].finish - (n[p].finish + d.lag)
        [] d.type = "SF" -> n[s].finish - (n[p].start  + d.lag)

(* Every dependency of t holds and one of them leaves t no room to start   *)
(* any earlier.                                                            *)
Tight(D, n, t) ==
  /\ \A p \in Preds(DOMAIN D, t) : Slack(D, n, p, t) >= 0
  /\ \E p \in Preds(DOMAIN D, t) : Slack(D, n, p, t) = 0

(* n is the dates m with the tasks of S made tight: no duration changes,   *)
(* and the other tasks have not moved.                                     *)
Tightens(D, m, n, S) ==
  \A t \in DOMAIN m :
    /\ duration(n, t) = duration(m, t)
    /\ IF t \in S THEN Tight(D, n, t) ELSE n[t] = m[t]

(* n is what a cascade from r over D makes of the dates m.                 *)
Reschedules(D, m, n, r) == Tightens(D, m, n, Downstream(DOMAIN D, r))
=============================================================================
