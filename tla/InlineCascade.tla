--------------------------- MODULE InlineCascade ----------------------------
(***************************************************************************)
(* The api with INLINE_CASCADE=true, its default: reschedule_task moves    *)
(* the task, runs the cascade and writes its result in the transaction of  *)
(* the request, with no queue between the requests of a project.           *)
(*                                                                         *)
(* Requests interleave at every await, and so do the other handlers that   *)
(* write the tables.  Postgres runs at READ COMMITTED: a statement reads   *)
(* the rows committed when it runs; an UPDATE locks its row until the end  *)
(* of the transaction, waits for the row's lock, and then finds the        *)
(* version it asks for or does not.                                        *)
(***************************************************************************)
EXTENDS CascadeResults

CONSTANTS
  Requests,   \* the requests that may be under way together
  Parents,    \* which task is whose: a set of <<parent, child>>
  Later,      \* the tasks that are yet to be created
  Moves,      \* the dates a request may ask for
  Links,      \* the dependencies that may be added: a set of <<pair, DepEdge>>
  Key,        \* the primary keys: a flush updates its rows in their order
  MaxMoves,   \* bound on the requests served
  MaxEdits,   \* bound on the other edits
  MaxCalls    \* bound on these two together

(* A task has one parent at most; a row is there before those that name it. *)
ASSUME InlineAssumption ==
  /\ Tasks # {}
  /\ Parents \subseteq Tasks \X Tasks /\ \A x, y \in Parents : x[2] = y[2] => x = y
  /\ Later \subseteq Tasks /\ Closed(Parents, Later)
  /\ \A g \in Graphs : DOMAIN g \subseteq (Tasks \ Later) \X (Tasks \ Later)
  /\ \A l \in Links : l[1] \in Tasks \X Tasks /\ l[2] \in DepEdge
  /\ Moves \subseteq TaskNode /\ Moves # {}
  /\ Key \in [Tasks -> Int] /\ \A t, u \in Tasks : Key[t] = Key[u] => t = u
  /\ MaxMoves \in Nat /\ MaxEdits \in Nat /\ MaxCalls \in Nat

VARIABLES
  (* Postgres *)
  alive,      \* the tasks that have a row
  deps,       \* the predecessor table
  dates,      \* the committed planned_start and planned_completion
  version,    \* the committed version_id_col; 0 before a task is created
  written,    \* request -> the rows it has updated and not yet committed
  (* the requests *)
  phase,      \* how far each is in its handler
  origin,     \* the task it moves
  goal,       \* the dates it asks for
  seen,       \* the rows its session has loaded
  plan,       \* the new dates its cascade has computed
  reply,      \* the answer to its last run
  (* budgets *)
  moves, edits,
  (* history, read by no action's guard *)
  known,      \* request -> the dependencies there were, among the tasks it
              \* has read, when its cascade read them
  pinned,     \* tasks that were given other dates or other dependencies by
              \* hand since they were last recomputed
  overtaken,  \* request -> tasks others have moved since it loaded them
  skewed      \* tasks last placed by dates or dependencies that were
              \* overtaken

tables  == <<alive, deps, dates, version>>
session == <<origin, goal, seen, plan>>
history == <<known, pinned, overtaken, skewed>>
vars == <<tables, written, phase, session, reply, moves, edits, history>>

Nothing == <<>>   \* the empty function
Row     == [date : TaskNode, version : Nat]
Edges   == DOMAIN deps

committedRow(t) == [date |-> dates[t], version |-> version[t]]

Init ==
  /\ alive = Tasks \ Later
  /\ deps \in Graphs
  /\ dates \in Schedules
  /\ version = [t \in Tasks |-> IF t \in Later THEN 0 ELSE 1]
  /\ written = [r \in Requests |-> Nothing]
  /\ phase = [r \in Requests |-> "free"]
  /\ origin = [r \in Requests |-> CHOOSE t \in Tasks : TRUE]   \* set before use
  /\ goal = [r \in Requests |-> CHOOSE d \in Moves : TRUE]
  /\ seen = [r \in Requests |-> Nothing]
  /\ plan = [r \in Requests |-> Nothing]
  /\ reply = [r \in Requests |-> "none"]
  /\ moves = 0
  /\ edits = 0
  /\ known = [r \in Requests |-> Nothing]
  /\ pinned = {t \in Tasks : Preds(Edges, t) # {} /\ ~ Tight(deps, dates, t)}
  /\ overtaken = [r \in Requests |-> {}]
  /\ skewed = {}

-----------------------------------------------------------------------------
(* Row locks.                                                              *)

Holds(r, t) == t \in DOMAIN written[r]
LockedFor(r, t) == \E v \in Requests \ {r} : Holds(v, t)

(* The rows r has still to update: its origin first, when it moves; then   *)
(* the changes of its cascade.                                             *)
Unwritten(r) ==
  IF phase[r] = "loaded"
  THEN {t \in {origin[r]} : goal[r] # seen[r][t].date}
  ELSE IF phase[r] = "computed" THEN DOMAIN plan[r] \ DOMAIN written[r] ELSE {}

(* The next of them, by primary key.                                       *)
NextRow(r, t) ==
  /\ t \in Unwritten(r)
  /\ \A u \in Unwritten(r) : Key[t] <= Key[u]

(* r waits for a row that v holds.                                         *)
WaitsFor(r, v) == v # r /\ \E t \in Tasks : NextRow(r, t) /\ Holds(v, t)

(* Everyone in S waits for someone in S.  The first form is a slip: no     *)
(* deadlock is ever noticed.                                               *)
NeverDeadlocked(S) == FALSE
Deadlocked(S) == \A r \in S : \E v \in S : WaitsFor(r, v)

-----------------------------------------------------------------------------
(* reschedule_task.                                                        *)

Goes(r, p) == phase' = [phase EXCEPT ![r] = p]

(* _load_task and _require_match: the client holds the version loaded; any *)
(* other is refused here, with no effect.                                  *)
LoadTask(r, t, d) ==
  /\ phase[r] = "free"
  /\ t \in alive
  /\ moves < MaxMoves /\ moves + edits < MaxCalls
  /\ moves' = moves + 1
  /\ origin' = [origin EXCEPT ![r] = t]
  /\ goal' = [goal EXCEPT ![r] = d]
  /\ seen' = [seen EXCEPT ![r] = [u \in {t} |-> committedRow(u)]]
  /\ plan' = [plan EXCEPT ![r] = Nothing]
  /\ reply' = [reply EXCEPT ![r] = "none"]
  /\ known' = [known EXCEPT ![r] = Nothing]
  /\ overtaken' = [overtaken EXCEPT ![r] = {}]
  /\ Goes(r, "loaded")
  /\ UNCHANGED <<tables, written, edits, pinned, skewed>>

(* The row is there and its version is the one an UPDATE asks for.  The    *)
(* first form is a slip: the row is matched by id alone.                   *)
AnyVersion(r, t) == t \in alive
VersionMatches(r, t) == t \in alive /\ version[t] = seen[r][t].version

(* One UPDATE of a flush: the origin's, or one of the cascade's.           *)
UpdateRow(r, t) ==
  /\ NextRow(r, t)
  /\ ~ LockedFor(r, t)
  /\ VersionMatches(r, t)
  /\ written' = [written EXCEPT ![r] =
       [u \in DOMAIN written[r] \cup {t} |->
          IF u # t THEN written[r][u] ELSE IF phase[r] = "loaded" THEN goal[r] ELSE plan[r][t]]]
  /\ Goes(r, IF phase[r] = "loaded" THEN "moved" ELSE "computed")
  /\ UNCHANGED <<tables, session, reply, moves, edits, history>>

(* The dates asked for are those loaded: no UPDATE, no lock, no check.     *)
NothingToMove(r) ==
  /\ phase[r] = "loaded"
  /\ Unwritten(r) = {}
  /\ Goes(r, "moved")
  /\ UNCHANGED <<tables, written, session, reply, moves, edits, history>>

(* _run_cascade: the project's tasks.  The origin is in the session, and   *)
(* the query does not refresh it.                                          *)
ReadTasks(r) ==
  /\ phase[r] = "moved"
  /\ origin[r] \in alive
  /\ seen' = [seen EXCEPT ![r] =
       [t \in alive |-> IF t = origin[r] THEN seen[r][t] ELSE committedRow(t)]]
  /\ overtaken' = [overtaken EXCEPT ![r] = @ \cap {origin[r]}]
  /\ Goes(r, "read")
  /\ UNCHANGED <<tables, written, origin, goal, plan, reply, moves, edits, known, pinned, skewed>>

(* The origin has been deleted, no lock of r preventing it: str(origin.id) *)
(* not in nodes, and nothing is recomputed.                                *)
OriginVanished(r) ==
  /\ phase[r] = "moved"
  /\ origin[r] \notin alive
  /\ Goes(r, "computed")
  /\ UNCHANGED <<tables, written, session, reply, moves, edits, history>>

(* The dates the cascade works on.                                         *)
nodes(r) == [t \in DOMAIN seen[r] |-> IF t = origin[r] THEN goal[r] ELSE seen[r][t].date]

(* The slip: only the dependencies of the origin are loaded.               *)
EdgesOfOrigin(r) == [e \in {e \in Edges : e[1] = origin[r]} |-> deps[e]]
EdgesRead(r) == Among(deps, DOMAIN seen[r])

Compute(r) ==
  /\ phase[r] = "read"
  /\ ~ Raises(EdgesRead(r), nodes(r), origin[r])
  /\ \E n \in Results(EdgesRead(r), nodes(r), origin[r]) :
       plan' = [plan EXCEPT ![r] = Changed(n, nodes(r))]
  /\ known' = [known EXCEPT ![r] = Among(deps, DOMAIN seen[r])]
  /\ Goes(r, "computed")
  /\ UNCHANGED <<tables, written, origin, goal, seen, reply, moves, edits, pinned, overtaken, skewed>>

(* The transaction of r ends and its locks go.  The first form is a slip.  *)
StillHeld(r) == written
Released(r) == [written EXCEPT ![r] = Nothing]

(* The tasks whose dates decide whether t is in place.                     *)
Around(t) == Preds(Edges, t) \cup {t}

(* The dependencies of t are those that were there for r to read.          *)
Current(r, t) == Preds(Edges, t) = Preds(DOMAIN known[r], t)

(* The tasks the cascade of r was to recompute, by the dependencies they   *)
(* still have.                                                             *)
Recomputed(r) == {t \in Downstream(DOMAIN known[r], origin[r]) : Current(r, t)}

(* The tasks r may have placed by dates that were overtaken; and those it  *)
(* has written, or written a predecessor of, when they had got other       *)
(* dependencies meanwhile.                                                 *)
Misplaced(r) ==
  {t \in Recomputed(r) : Around(t) \cap overtaken[r] # {}}
    \cup {t \in Tasks : ~ Current(r, t) /\ \E u \in Around(t) : Holds(r, u)}

(* session.commit(), after the broadcast: what was written appears.        *)
Commit(r) ==
  /\ phase[r] = "computed"
  /\ Unwritten(r) = {}
  /\ dates' = [t \in Tasks |-> IF Holds(r, t) THEN written[r][t] ELSE dates[t]]
  /\ version' = [t \in Tasks |-> IF Holds(r, t) THEN version[t] + 1 ELSE version[t]]
  /\ written' = Released(r)
  /\ reply' = [reply EXCEPT ![r] = "ok"]
  /\ Goes(r, "free")
  /\ pinned' = (pinned \ (Recomputed(r) \ overtaken[r]))
                 \cup {t \in {origin[r]} : Holds(r, t)}
  /\ skewed' = (skewed \ Recomputed(r)) \cup Misplaced(r)
  /\ overtaken' = [v \in Requests |->
       IF v = r THEN overtaken[r] ELSE overtaken[v] \cup {t \in Tasks : dates'[t] # dates[t]}]
  /\ UNCHANGED <<alive, deps, session, moves, edits, known>>

(* get_session rolls back and releases the locks.                          *)
Rollback(r, answer) ==
  /\ written' = Released(r)
  /\ reply' = [reply EXCEPT ![r] = answer]
  /\ Goes(r, "free")
  /\ UNCHANGED <<tables, session, moves, edits, history>>

(* StaleDataError: 409.                                                    *)
Conflict(r) ==
  /\ \E t \in Tasks : NextRow(r, t) /\ ~ LockedFor(r, t) /\ ~ VersionMatches(r, t)
  /\ Rollback(r, "conflict")

(* The cascade raises: 500.                                                *)
CascadeRaises(r) ==
  /\ phase[r] = "read"
  /\ Raises(EdgesRead(r), nodes(r), origin[r])
  /\ Rollback(r, "error")

(* Postgres breaks a deadlock by failing one of its members: 500.          *)
DeadlockVictim(r) ==
  /\ \E S \in SUBSET Requests : r \in S /\ Deadlocked(S)
  /\ Rollback(r, "error")

(* The client goes away, or the connection to Postgres does.               *)
RequestFails(r) ==
  /\ phase[r] # "free"
  /\ Rollback(r, "error")

-----------------------------------------------------------------------------
(* The other handlers, a transaction each.                                 *)

Edit ==
  /\ edits < MaxEdits /\ moves + edits < MaxCalls
  /\ edits' = edits + 1
  /\ UNCHANGED <<dates, written, phase, session, reply, moves, known, overtaken, skewed>>

(* No request has locked a row of S.                                       *)
Unlocked(S) == \A t \in S, r \in Requests : ~ Holds(r, t)

(* update_task: name and status.                                           *)
UpdateTask(t) ==
  /\ Edit
  /\ t \in alive
  /\ Unlocked({t})
  /\ version' = [version EXCEPT ![t] = @ + 1]
  /\ UNCHANGED <<alive, deps, pinned>>

(* create_task, with the dates that the initial schedule has for t.  The   *)
(* key is new: no row ever had it.                                         *)
CreateTask(t) ==
  /\ Edit
  /\ version[t] = 0
  /\ Preds(Parents, t) \subseteq alive
  /\ alive' = alive \cup {t}
  /\ version' = [version EXCEPT ![t] = @ + 1]
  /\ UNCHANGED <<deps, pinned>>

(* The foreign keys: the children of a task go with it, and theirs.        *)
Subtree(t) == {t} \cup Downstream(Parents, t)

(* delete_task, which waits for the locks of all the rows that go.  The    *)
(* dependencies go with the tasks they join; their successors stay where   *)
(* they are.                                                               *)
DeleteTask(t) ==
  /\ Edit
  /\ t \in alive
  /\ Unlocked(Subtree(t))
  /\ alive' = alive \ Subtree(t)
  /\ deps' = Among(deps, alive')
  /\ pinned' = pinned \cup UNION {Succs(Edges, u) : u \in Subtree(t)}
  /\ UNCHANGED version

(* add_predecessor: no check for a cycle, and no cascade.  Its foreign     *)
(* keys lock the two tasks against a delete, not against an UPDATE.        *)
AddPredecessor(l) ==
  /\ Edit
  /\ l[1] \notin Edges
  /\ l[1][1] \in alive /\ l[1][2] \in alive
  /\ deps' = [e \in Edges \cup {l[1]} |-> IF e = l[1] THEN l[2] ELSE deps[e]]
  /\ pinned' = pinned \cup {l[1][2]}
  /\ UNCHANGED <<alive, version>>

-----------------------------------------------------------------------------
Serve(r) ==
  \/ \E t \in Tasks : UpdateRow(r, t)
  \/ NothingToMove(r)
  \/ ReadTasks(r)
  \/ OriginVanished(r)
  \/ Compute(r)
  \/ Commit(r)
  \/ Conflict(r)
  \/ CascadeRaises(r)
  \/ DeadlockVictim(r)

Idle == (\A r \in Requests : phase[r] = "free") /\ UNCHANGED vars

Next ==
  \/ \E r \in Requests, t \in Tasks, d \in Moves : LoadTask(r, t, d)
  \/ \E r \in Requests : Serve(r) \/ RequestFails(r)
  \/ \E t \in Tasks : UpdateTask(t) \/ CreateTask(t) \/ DeleteTask(t)
  \/ \E l \in Links : AddPredecessor(l)
  \/ Idle

(* The event loop and Postgres serve every request; nobody has to make one. *)
Spec == Init /\ [][Next]_vars /\ \A r \in Requests : WF_vars(Serve(r))

-----------------------------------------------------------------------------
(* Properties                                                              *)

Phases  == {"free", "loaded", "moved", "read", "computed"}
Replies == {"none", "ok", "conflict", "error"}
Partial(f, S) == DOMAIN f \subseteq Tasks /\ f \in [DOMAIN f -> S]

(* Each variable has its type; dependencies join tasks that are there; a   *)
(* row is locked by one request at most, only while it runs, and stays.    *)
TypeOK ==
  /\ alive \subseteq Tasks
  /\ Edges \subseteq alive \X alive /\ deps \in [Edges -> DepEdge]
  /\ dates \in [Tasks -> TaskNode]
  /\ version \in [Tasks -> Nat]
  /\ DOMAIN written = Requests
  /\ \A r \in Requests : Partial(written[r], TaskNode) /\ DOMAIN written[r] \subseteq alive
  /\ \A r \in Requests : phase[r] = "free" => written[r] = Nothing
  /\ \A r, v \in Requests : r # v => DOMAIN written[r] \cap DOMAIN written[v] = {}
  /\ phase \in [Requests -> Phases]
  /\ origin \in [Requests -> Tasks]
  /\ goal \in [Requests -> Moves]
  /\ DOMAIN seen = Requests /\ \A r \in Requests : Partial(seen[r], Row)
  /\ DOMAIN plan = Requests /\ \A r \in Requests : Partial(plan[r], TaskNode)
  /\ reply \in [Requests -> Replies]
  /\ moves \in 0 .. MaxMoves /\ edits \in 0 .. MaxEdits
  /\ DOMAIN known = Requests
  /\ \A r \in Requests : /\ DOMAIN known[r] \subseteq Tasks \X Tasks
                         /\ known[r] \in [DOMAIN known[r] -> DepEdge]
  /\ pinned \subseteq Tasks
  /\ overtaken \in [Requests -> SUBSET Tasks]
  /\ skewed \subseteq Tasks

Succeeds(r) == phase[r] = "computed" /\ phase'[r] = "free" /\ reply'[r] = "ok"

(* No date is overwritten unread: whatever changes was, until then, what   *)
(* the successful request had loaded (main.py:268-274, 423-428).           *)
NoLostUpdate ==
  [][\A t \in Tasks : dates'[t] # dates[t] =>
       \E r \in Requests : /\ Succeeds(r)
                           /\ t \in DOMAIN seen[r]
                           /\ seen[r][t].date = dates[t]]_vars

Moved(r) == goal[r] # seen[r][origin[r]].date

(* Of the requests that move a task from the same version, one at most is  *)
(* answered 200, however they interleave (tests/test_concurrency.py).      *)
OneWinner ==
  \A r, v \in Requests :
    /\ r # v /\ reply[r] = "ok" /\ reply[v] = "ok"
    /\ origin[r] = origin[v] /\ Moved(r) /\ Moved(v)
    => seen[r][origin[r]].version # seen[v][origin[v]].version

(* A successful request leaves each task that its cascade was to recompute *)
(* where its predecessors put it, unless another request has moved that    *)
(* task or one of its predecessors since this one read them, or its        *)
(* dependencies have changed since: the version guard protects the rows a  *)
(* request writes, not those it reads (main.py:393-428).                   *)
TightUnlessOvertaken ==
  [][\A r \in Requests : Succeeds(r) =>
       \A t \in Recomputed(r) :
         Around(t) \cap overtaken[r] = {} => Tight(deps, dates', t)]_vars

(* At every moment a dependent task is where its predecessors put it,      *)
(* unless it has been given other dates or dependencies by hand since it   *)
(* was last recomputed, or a request has placed it, or a predecessor of    *)
(* it, by dates or dependencies that were overtaken: one call at a time,   *)
(* only what was asked for is ever out of place (main.py:259-347,          *)
(* 393-428).                                                               *)
ConvergesUnlessOvertaken ==
  \A t \in Tasks \ (pinned \cup skewed) : Preds(Edges, t) = {} \/ Tight(deps, dates, t)

(* Every request is answered, whatever locks it waits for.                 *)
EveryRequestAnswered == \A r \in Requests : phase[r] # "free" ~> phase[r] = "free"

(* When no request is under way, a dependent task is where its             *)
(* predecessors put it, unless it was itself set by hand since.            *)
QuietConverges ==
  (\A r \in Requests : phase[r] = "free") =>
    \A t \in Tasks \ pinned : Preds(Edges, t) = {} \/ Tight(deps, dates, t)
=============================================================================
