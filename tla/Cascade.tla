------------------------------ MODULE Cascade -------------------------------
(***************************************************************************)
(* services/worker/src/cascade.py: cascade() as a state machine.           *)
(*                                                                         *)
(* One call runs to its return or its raise.  Its three loops are three    *)
(* phases, one iteration of a loop per step: collect the affected tasks,   *)
(* order them (Kahn), recompute them in that order, in place.              *)
(*                                                                         *)
(* The work list and the queue are sets: their order in the code comes     *)
(* from the order of database rows and of a Python set, which nothing      *)
(* fixes, so every order is explored.                                      *)
(***************************************************************************)
EXTENDS CascadeInputs, Sequences

VARIABLES
  root,      \* root_id
  deps,      \* edges, as a function: the pair is unique in the table
  given,     \* nodes as they were when the call started
  node,      \* nodes, updated in place
  pc,        \* the loop the call is in, or how it ended
  stack,     \* tasks whose successors are still to be collected
  affected,  \* the tasks collected so far
  indegree,  \* affected task -> its uncounted affected predecessors
  queue,     \* affected tasks free to be ordered
  topo,      \* the tasks ordered so far
  settled,   \* how many tasks of topo have been recomputed
  changes    \* the ScheduleChanges to return

call == <<root, deps, given>>
vars == <<call, node, pc, stack, affected, indegree, queue, topo, settled, changes>>

Edges == DOMAIN deps

Init ==
  /\ root \in Tasks
  /\ deps \in Graphs
  /\ given \in Schedules
  /\ node = given
  /\ pc = "collect"
  /\ stack = {root}
  /\ affected = {}
  /\ indegree = <<>>
  /\ queue = {}
  /\ topo = <<>>
  /\ settled = 0
  /\ changes = <<>>

-----------------------------------------------------------------------------
(* 1. Affected set = every transitive successor of the root.               *)

Collect ==
  /\ pc = "collect"
  /\ \E cur \in stack :
       LET new == Succs(Edges, cur) \ affected
       IN  /\ affected' = affected \cup new
           /\ stack' = (stack \ {cur}) \cup new
  /\ UNCHANGED <<call, node, pc, indegree, queue, topo, settled, changes>>

-----------------------------------------------------------------------------
(* 2. Topological order over the affected tasks.                           *)

(* Slips of the count that follows: one per task instead of one per edge,  *)
(* and the edges from the root counted as well.                            *)
InDegreeOnce(t) == IF Preds(Edges, t) \cap affected = {} THEN 0 ELSE 1
InDegreeOfAll(t) == Cardinality(Preds(Edges, t))

InDegree(t) == Cardinality(Preds(Edges, t) \cap affected)

CountPredecessors ==
  /\ pc = "collect"
  /\ stack = {}
  /\ pc' = "order"
  /\ indegree' = [t \in affected |-> InDegree(t)]
  /\ queue' = {t \in affected : InDegree(t) = 0}
  /\ UNCHANGED <<call, node, stack, affected, topo, settled, changes>>

Order ==
  /\ pc = "order"
  /\ \E t \in queue :
       LET next == Succs(Edges, t) \cap affected
       IN  /\ topo' = Append(topo, t)
           /\ indegree' = [s \in affected |-> IF s \in next THEN indegree[s] - 1
                                                            ELSE indegree[s]]
           /\ queue' = (queue \ {t}) \cup {s \in next : indegree[s] = 1}
  /\ UNCHANGED <<call, node, pc, stack, affected, settled, changes>>

(* raise DependencyCycleError                                              *)
RaiseCycle ==
  /\ pc = "order"
  /\ queue = {}
  /\ Len(topo) # Cardinality(affected)
  /\ pc' = "raised"
  /\ UNCHANGED <<call, node, stack, affected, indegree, queue, topo, settled, changes>>

Ordered ==
  /\ pc = "order"
  /\ queue = {}
  /\ Len(topo) = Cardinality(affected)
  /\ pc' = "recompute"
  /\ UNCHANGED <<call, node, stack, affected, indegree, queue, topo, settled, changes>>

-----------------------------------------------------------------------------
(* 3. Recompute each affected task from ALL its predecessors.              *)

(* The start that the dependency <<p, t>> asks of t under the dates n.     *)
Candidate(n, p, t) ==
  LET d == deps[<<p, t>>]
  IN  CASE d.type = "FS" -> n[p].finish + d.lag
        [] d.type = "SS" -> n[p].start  + d.lag
        [] d.type = "FF" -> n[p].finish + d.lag - duration(n, t)
        [] d.type = "SF" -> n[p].start  + d.lag - duration(n, t)

(* A slip: the recomputation looks at the affected predecessors only.      *)
CandidatesOfAffected(n, t) ==
  {Candidate(n, p, t) : p \in Preds(Edges, t) \cap (affected \cup {root})}

Candidates(n, t) == {Candidate(n, p, t) : p \in Preds(Edges, t)}

(* _earliest_start: m is max(candidates).                                  *)
EarliestStart(n, t, m) ==
  /\ m \in Candidates(n, t)
  /\ \A c \in Candidates(n, t) : c <= m

(* new_start == node.start: continue.  The slip records the task anyway.   *)
MovesAlways(t, m) == EarliestStart(node, t, m)
Moves(t, m) == EarliestStart(node, t, m) /\ m # node[t].start

(* A slip: start is assigned first, and the duration read after it.        *)
SlidUnevenly(n, t, m) == [n EXCEPT ![t].start = m]

(* Task t slid as a whole to start at m.                                   *)
Slid(n, t, m) == [n EXCEPT ![t] = [start |-> m, finish |-> m + duration(n, t)]]

Keep ==
  /\ pc = "recompute"
  /\ settled < Len(topo)
  /\ LET t == topo[settled + 1]
     IN  \A m \in Candidates(node, t) : ~ Moves(t, m)
  /\ settled' = settled + 1
  /\ UNCHANGED <<call, node, pc, stack, affected, indegree, queue, topo, changes>>

Slide ==
  /\ pc = "recompute"
  /\ settled < Len(topo)
  /\ LET t == topo[settled + 1]
     IN  \E m \in Candidates(node, t) :
           /\ Moves(t, m)
           /\ node' = Slid(node, t, m)
           /\ changes' = Append(changes, [task |-> t, start |-> node'[t].start,
                                          finish |-> node'[t].finish])
  /\ settled' = settled + 1
  /\ UNCHANGED <<call, pc, stack, affected, indegree, queue, topo>>

Return ==
  /\ pc = "recompute"
  /\ settled = Len(topo)
  /\ pc' = "returned"
  /\ UNCHANGED <<call, node, stack, affected, indegree, queue, topo, settled, changes>>

Terminated == pc \in {"returned", "raised"} /\ UNCHANGED vars

-----------------------------------------------------------------------------
Next ==
  \/ Collect
  \/ CountPredecessors
  \/ Order
  \/ RaiseCycle
  \/ Ordered
  \/ Keep
  \/ Slide
  \/ Return
  \/ Terminated

(* The call runs in one thread and its loops do not wait for anything.     *)
Spec == Init /\ [][Next]_vars /\ WF_vars(Next)

-----------------------------------------------------------------------------
(* Properties                                                              *)

Ranked == pc \in {"order", "recompute", "returned", "raised"}

(* Each variable has its type; the counts of Kahn's algorithm stay         *)
(* natural, so none is decremented past the edges that were counted        *)
(* (cascade.py:88-101).                                                    *)
TypeOK ==
  /\ root \in Tasks
  /\ deps \in Graphs
  /\ given \in Schedules
  /\ node \in [Tasks -> TaskNode]
  /\ pc \in {"collect", "order", "recompute", "returned", "raised"}
  /\ stack \subseteq Tasks
  /\ affected \subseteq Tasks
  /\ Ranked => indegree \in [affected -> Nat]
  /\ queue \subseteq affected
  /\ topo \in Seq(affected)
  /\ settled \in 0 .. Len(topo)
  /\ changes \in Seq([task : Tasks, start : Int, finish : Int])

(* The abstract call: it has not happened until the code returns or        *)
(* raises, and the caller sees the dates only then.                        *)
Contract ==
  INSTANCE CascadeContract WITH
    node   <- IF pc \in {"returned", "raised"} THEN node ELSE given,
    status <- IF pc \in {"returned", "raised"} THEN pc ELSE "called"

(* The call implements its contract: it ends, it raises exactly on a cycle *)
(* downstream of the root, with no date touched, and otherwise it leaves   *)
(* every downstream task at the earliest start its predecessors allow and  *)
(* every other task where it was (cascade.py:1-14, 66-70).                 *)
ImplementsContract == Contract!Spec

(* The recomputation is in place and in one pass: moving a task never      *)
(* invalidates the dates of one that was recomputed before it, so a prefix *)
(* of topo is final at every iteration (cascade.py:105-113).               *)
SettledStayTight ==
  \A k \in 1 .. settled : Tight(deps, node, topo[k])

(* The returned list is what the handler writes to the database: every     *)
(* task whose dates differ, once, with its final dates, never after a task *)
(* that depends on it, and never the root (cascade.py:68-69, 106-114).     *)
ChangesExact ==
  pc = "returned" =>
    /\ \A t \in Tasks :
         node[t] # given[t] <=> \E i \in DOMAIN changes : changes[i].task = t
    /\ \A i \in DOMAIN changes :
         /\ changes[i].task # root
         /\ node[changes[i].task] = [start |-> changes[i].start,
                                     finish |-> changes[i].finish]
    /\ \A i, j \in DOMAIN changes :
         i < j => /\ changes[i].task # changes[j].task
                  /\ <<changes[j].task, changes[i].task>> \notin Edges

-----------------------------------------------------------------------------
(* The loop invariants, conjunct by conjunct.                              *)

Placed == {topo[i] : i \in DOMAIN topo}

(* What has been collected is downstream, and only the successors of the   *)
(* tasks still on the stack are missing.                                   *)
CollectInv ==
  /\ stack \subseteq affected \cup {root}
  /\ affected \subseteq Downstream(Edges, root)
  /\ pc = "collect" => \A p \in (affected \cup {root}) \ stack :
                          Succs(Edges, p) \subseteq affected
  /\ pc # "collect" => affected = Downstream(Edges, root)

(* An affected task's count is the number of its affected predecessors not *)
(* yet placed; it is queued or placed exactly when none is left.           *)
CountInv ==
  Ranked =>
    \A t \in affected :
      /\ indegree[t] = Cardinality((Preds(Edges, t) \cap affected) \ Placed)
      /\ indegree[t] = 0 <=> t \in queue \cup Placed

(* topo repeats no task and places none before one of its predecessors.    *)
OrderInv ==
  /\ queue \cap Placed = {}
  /\ \A i, j \in DOMAIN topo : topo[i] = topo[j] => i = j
  /\ \A i \in DOMAIN topo : \A p \in Preds(Edges, topo[i]) \cap affected :
       \E j \in 1 .. i - 1 : topo[j] = p
  /\ pc = "collect" => topo = <<>> /\ queue = {}
  /\ pc \in {"recompute", "returned"} => Placed = affected
  /\ pc = "raised" => queue = {} /\ Placed # affected

(* Only the recomputed tasks may have moved; they are tight and they are   *)
(* as long as they were.                                                   *)
DatesInv ==
  /\ \A t \in Tasks : duration(node, t) = duration(given, t)
  /\ \A t \in Tasks :
       (\A k \in 1 .. settled : topo[k] # t) => node[t] = given[t]
  /\ SettledStayTight
  /\ pc \notin {"recompute", "returned"} => settled = 0
  /\ pc = "returned" => settled = Len(topo)

(* changes is the subsequence of the recomputed tasks that have moved.     *)
ChangesInv ==
  /\ \A i \in DOMAIN changes :
       /\ \E k \in 1 .. settled : topo[k] = changes[i].task
       /\ node[changes[i].task] = [start |-> changes[i].start,
                                   finish |-> changes[i].finish]
  /\ \A k \in 1 .. settled :
       node[topo[k]] # given[topo[k]]
         <=> \E i \in DOMAIN changes : changes[i].task = topo[k]
  /\ \A i, j \in DOMAIN changes : i < j =>
       \A k, l \in 1 .. settled :
         topo[k] = changes[i].task /\ topo[l] = changes[j].task => k < l

(* The tasks placed so far always come after their predecessors, the       *)
(* counts are exact and the moves are recorded (cascade.py:77-114).        *)
LoopInvariant ==
  CollectInv /\ CountInv /\ OrderInv /\ DatesInv /\ ChangesInv
=============================================================================
