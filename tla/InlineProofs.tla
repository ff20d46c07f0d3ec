---------------------------- MODULE InlineProofs -----------------------------
(* Theorems about the api's inline cascade: whatever requests run together, *)
(* no date is overwritten unread, one of two rival moves fails, and only    *)
(* races leave a task out of place.                                        *)
EXTENDS InlineCascade, CascadeFacts

-----------------------------------------------------------------------------
(* Types                                                                   *)

LEMMA InitType == Init => TypeOK
<1> SUFFICES ASSUME Init PROVE TypeOK
  OBVIOUS
<1>1. /\ alive \subseteq Tasks /\ Edges \subseteq alive \X alive /\ deps \in [Edges -> DepEdge]
      /\ dates \in [Tasks -> TaskNode]
  BY GraphsAssumption, SchedulesAssumption, InlineAssumption DEF Init, Edges
<1>2. version \in [Tasks -> Nat] /\ phase \in [Requests -> Phases] /\ reply \in [Requests -> Replies]
  BY DEF Init, Phases, Replies
<1>3. /\ DOMAIN written = Requests /\ DOMAIN seen = Requests /\ DOMAIN plan = Requests
      /\ DOMAIN known = Requests
      /\ \A r \in Requests : /\ written[r] = Nothing /\ seen[r] = Nothing /\ plan[r] = Nothing
                             /\ known[r] = Nothing
  BY DEF Init
<1>4. Partial(Nothing, TaskNode) /\ Partial(Nothing, Row) /\ DOMAIN Nothing = {}
      /\ Nothing \in [DOMAIN Nothing -> DepEdge]
  BY DEF Nothing, Partial
<1>5. moves \in 0 .. MaxMoves /\ edits \in 0 .. MaxEdits
  BY InlineAssumption DEF Init
<1>6. pinned \subseteq Tasks /\ overtaken \in [Requests -> SUBSET Tasks] /\ skewed \subseteq Tasks
  BY DEF Init
<1>7. origin \in [Requests -> Tasks] /\ goal \in [Requests -> Moves]
  <2>1. (CHOOSE t \in Tasks : TRUE) \in Tasks /\ (CHOOSE d \in Moves : TRUE) \in Moves
    BY InlineAssumption
  <2> QED  BY <2>1 DEF Init
<1>8. \A r, v \in Requests : r # v => DOMAIN written[r] \cap DOMAIN written[v] = {}
  BY <1>3, <1>4
<1>9. \A r \in Requests : /\ Partial(written[r], TaskNode) /\ (phase[r] = "free" => written[r] = Nothing)
                          /\ Partial(seen[r], Row)
                          /\ Partial(plan[r], TaskNode)
                          /\ DOMAIN written[r] \subseteq alive
                          /\ DOMAIN known[r] \subseteq Tasks \X Tasks
                          /\ known[r] \in [DOMAIN known[r] -> DepEdge]
  BY <1>3, <1>4
<1> QED  BY <1>1, <1>2, <1>3, <1>5, <1>6, <1>7, <1>8, <1>9 DEF TypeOK

(* Steps of a request that change neither the rows nor the bounds.         *)
LEMMA SessionType ==
  ASSUME TypeOK, UNCHANGED <<tables, origin, goal, seen, plan, moves, edits>>,
         phase' \in [Requests -> Phases], reply' \in [Requests -> Replies], UNCHANGED history,
         NEW r \in Requests,
         \/ phase'[r] # "free" /\ UNCHANGED written
         \/ written' = [written EXCEPT ![r] = Nothing],
         \A v \in Requests \ {r} : phase'[v] = phase[v]
  PROVE  TypeOK'
<1>1. Partial(Nothing, TaskNode) /\ DOMAIN Nothing = {}
  BY DEF Nothing, Partial
<1>2. CASE phase'[r] # "free" /\ UNCHANGED written
  BY <1>2 DEF TypeOK, tables, history, Edges, Partial
<1>3. CASE written' = [written EXCEPT ![r] = Nothing]
  <2>1. \A v \in Requests : written'[v] = IF v = r THEN Nothing ELSE written[v]
    BY <1>3 DEF TypeOK
  <2>2. DOMAIN written' = Requests
    BY <1>3 DEF TypeOK
  <2>3. \A v \in Requests : /\ Partial(written'[v], TaskNode) /\ DOMAIN written'[v] \subseteq alive
                            /\ phase'[v] = "free" => written'[v] = Nothing
    BY <1>1, <2>1 DEF TypeOK
  <2>4. \A u, v \in Requests : u # v => DOMAIN written'[u] \cap DOMAIN written'[v] = {}
    BY <1>1, <2>1 DEF TypeOK
  <2> QED  BY <2>2, <2>3, <2>4 DEF TypeOK, tables, history, Edges, Partial
<1> QED  BY <1>2, <1>3

LEMMA LoadTaskType ==
  ASSUME TypeOK, NEW r \in Requests, NEW t \in Tasks, NEW d \in Moves, LoadTask(r, t, d)
  PROVE  TypeOK'
<1>1. committedRow(t) \in Row
  BY DEF TypeOK, committedRow, Row
<1>2. /\ Partial([u \in {t} |-> committedRow(u)], Row) /\ Partial(Nothing, TaskNode)
      /\ DOMAIN Nothing = {} /\ Nothing \in [DOMAIN Nothing -> DepEdge]
  BY <1>1 DEF Partial, Nothing
<1>3. /\ DOMAIN seen' = Requests /\ \A v \in Requests : Partial(seen'[v], Row)
      /\ DOMAIN plan' = Requests /\ \A v \in Requests : Partial(plan'[v], TaskNode)
      /\ DOMAIN known' = Requests
      /\ \A v \in Requests : /\ DOMAIN known'[v] \subseteq Tasks \X Tasks
                             /\ known'[v] \in [DOMAIN known'[v] -> DepEdge]
  BY <1>2 DEF TypeOK, LoadTask
<1>4. moves' \in 0 .. MaxMoves
  BY InlineAssumption DEF TypeOK, LoadTask
<1>5. /\ phase' \in [Requests -> Phases] /\ reply' \in [Requests -> Replies]
      /\ origin' \in [Requests -> Tasks] /\ goal' \in [Requests -> Moves]
      /\ overtaken' \in [Requests -> SUBSET Tasks]
  BY DEF TypeOK, LoadTask, Goes, Phases, Replies
<1>6. \A v \in Requests : phase'[v] = "free" => phase[v] = "free"
  BY DEF TypeOK, LoadTask, Goes
<1>7. UNCHANGED <<alive, deps, dates, version, written, edits, pinned, skewed>>
  BY DEF LoadTask, tables
<1> QED  BY <1>3, <1>4, <1>5, <1>6, <1>7 DEF TypeOK, Edges

(* A request with rows still to update has not ended; they are its origin  *)
(* or tasks of its plan.                                                   *)
LEMMA ToUpdate ==
  ASSUME NEW r \in Requests, NEW t, NextRow(r, t)
  PROVE  \/ phase[r] = "loaded" /\ t = origin[r] /\ goal[r] # seen[r][t].date
         \/ phase[r] = "computed" /\ t \in DOMAIN plan[r]
BY DEF NextRow, Unwritten

LEMMA UpdateRowType ==
  ASSUME TypeOK, NEW r \in Requests, NEW t \in Tasks, UpdateRow(r, t)
  PROVE  TypeOK'
<1> DEFINE set == IF phase[r] = "loaded" THEN goal[r] ELSE plan[r][t]
           mine == [u \in DOMAIN written[r] \cup {t} |-> IF u # t THEN written[r][u] ELSE set]
<1>1. set \in TaskNode
  <2>1. goal[r] \in TaskNode
    BY InlineAssumption DEF TypeOK
  <2>2. \A u \in DOMAIN plan[r] : plan[r][u] \in TaskNode
    BY DEF TypeOK, Partial
  <2> QED  BY <2>1, <2>2, ToUpdate DEF UpdateRow
<1> HIDE DEF set
<1>2. Partial(mine, TaskNode)
  BY <1>1 DEF TypeOK, Partial
<1>3. DOMAIN written' = Requests /\ \A v \in Requests : written'[v] = IF v = r THEN mine ELSE written[v]
  BY DEF TypeOK, UpdateRow, set
<1>4. phase' \in [Requests -> Phases] /\ phase'[r] # "free" /\ \A v \in Requests \ {r} : phase'[v] = phase[v]
  BY DEF TypeOK, UpdateRow, Goes, Phases
<1>5. \A v \in Requests : /\ Partial(written'[v], TaskNode) /\ DOMAIN written'[v] \subseteq alive
                          /\ phase'[v] = "free" => written'[v] = Nothing
  <2>1. DOMAIN mine \subseteq alive
    BY DEF UpdateRow, VersionMatches, TypeOK
  <2> HIDE DEF mine
  <2> QED  BY <1>2, <1>3, <1>4, <2>1 DEF TypeOK
<1>6. \A v \in Requests \ {r} : t \notin DOMAIN written[v]
  BY DEF UpdateRow, LockedFor, Holds
<1>7. DOMAIN mine = DOMAIN written[r] \cup {t}
  OBVIOUS
<1>8. \A u, v \in Requests : u # v => DOMAIN written'[u] \cap DOMAIN written'[v] = {}
  <2> HIDE DEF mine
  <2> SUFFICES ASSUME NEW u \in Requests, NEW v \in Requests, u # v
               PROVE  DOMAIN written'[u] \cap DOMAIN written'[v] = {}
    OBVIOUS
  <2>1. DOMAIN written[u] \cap DOMAIN written[v] = {}
    BY DEF TypeOK
  <2> QED  BY <1>3, <1>6, <1>7, <2>1
<1> QED  BY <1>3, <1>4, <1>5, <1>8 DEF TypeOK, UpdateRow, tables, session, history, Edges

LEMMA ReadTasksType ==
  ASSUME TypeOK, NEW r \in Requests, ReadTasks(r),
         origin[r] \in DOMAIN seen[r]
  PROVE  TypeOK'
<1> DEFINE rows == [t \in alive |-> IF t = origin[r] THEN seen[r][t] ELSE committedRow(t)]
<1>1. \A t \in Tasks : committedRow(t) \in Row
  BY DEF TypeOK, committedRow, Row
<1>2. seen[r][origin[r]] \in Row
  BY DEF TypeOK, Partial
<1>3. Partial(rows, Row)
  BY <1>1, <1>2 DEF Partial, TypeOK
<1>4. DOMAIN seen' = Requests /\ \A v \in Requests : Partial(seen'[v], Row)
  BY <1>3 DEF TypeOK, ReadTasks
<1>5. phase' \in [Requests -> Phases] /\ overtaken' \in [Requests -> SUBSET Tasks]
  BY DEF TypeOK, ReadTasks, Goes, Phases
<1>6. \A v \in Requests : phase'[v] = "free" => phase[v] = "free"
  BY DEF TypeOK, ReadTasks, Goes
<1> QED  BY <1>4, <1>5, <1>6 DEF TypeOK, ReadTasks, tables, Edges

LEMMA OriginVanishedType ==
  ASSUME TypeOK, NEW r \in Requests, OriginVanished(r)
  PROVE  TypeOK'
<1>1. phase' \in [Requests -> Phases] /\ \A v \in Requests : phase'[v] = "free" => phase[v] = "free"
  BY DEF TypeOK, OriginVanished, Goes, Phases
<1> QED  BY <1>1 DEF TypeOK, OriginVanished, tables, session, history, Edges

(* What a cascade plans are dates of tasks its session has loaded.         *)
LEMMA ComputePlan ==
  ASSUME TypeOK, NEW r \in Requests, Compute(r)
  PROVE  /\ DOMAIN plan' = Requests
         /\ \A v \in Requests \ {r} : plan'[v] = plan[v]
         /\ Partial(plan'[r], TaskNode)
         /\ DOMAIN plan'[r] \subseteq DOMAIN seen[r]
<1>1. PICK n \in Results(EdgesRead(r), nodes(r), origin[r]) :
             plan' = [plan EXCEPT ![r] = Changed(n, nodes(r))]
  BY DEF Compute
<1>2. DOMAIN nodes(r) = DOMAIN seen[r] /\ DOMAIN seen[r] \subseteq Tasks
  BY DEF nodes, TypeOK, Partial
<1>3. \A t \in DOMAIN nodes(r) : nodes(r)[t] \in TaskNode
  BY InlineAssumption DEF nodes, TypeOK, Partial, Row
<1>4. DOMAIN n = DOMAIN nodes(r) /\ \A t \in DOMAIN n : n[t] \in TaskNode
  BY <1>3, ResultType
<1>5. Partial(Changed(n, nodes(r)), TaskNode) /\ DOMAIN Changed(n, nodes(r)) \subseteq DOMAIN seen[r]
  BY <1>2, <1>4 DEF Changed, Partial
<1> QED  BY <1>1, <1>5 DEF TypeOK

(* Part of a table of dependencies is one.                                 *)
LEMMA AmongType ==
  ASSUME NEW D, D \in [DOMAIN D -> DepEdge], DOMAIN D \subseteq Tasks \X Tasks, NEW S
  PROVE  /\ DOMAIN Among(D, S) = DOMAIN D \cap (S \X S)
         /\ DOMAIN Among(D, S) \subseteq Tasks \X Tasks
         /\ Among(D, S) \in [DOMAIN Among(D, S) -> DepEdge]
         /\ \A e \in DOMAIN Among(D, S) : Among(D, S)[e] = D[e]
BY DEF Among

LEMMA ComputeType ==
  ASSUME TypeOK, NEW r \in Requests, Compute(r)
  PROVE  TypeOK'
<1>1. phase' \in [Requests -> Phases] /\ \A v \in Requests : phase'[v] = "free" => phase[v] = "free"
  BY DEF TypeOK, Compute, Goes, Phases
<1>2. DOMAIN plan' = Requests /\ \A v \in Requests : Partial(plan'[v], TaskNode)
  BY ComputePlan DEF TypeOK
<1>3. /\ DOMAIN known' = Requests
      /\ \A v \in Requests : /\ DOMAIN known'[v] \subseteq Tasks \X Tasks
                             /\ known'[v] \in [DOMAIN known'[v] -> DepEdge]
  <2>1. known' = [known EXCEPT ![r] = Among(deps, DOMAIN seen[r])]
    BY DEF Compute
  <2>2. deps \in [DOMAIN deps -> DepEdge] /\ DOMAIN deps \subseteq Tasks \X Tasks
    BY DEF TypeOK, Edges
  <2> QED  BY <2>1, <2>2, AmongType DEF TypeOK
<1> QED  BY <1>1, <1>2, <1>3 DEF TypeOK, Compute, tables, Edges

LEMMA CommitType ==
  ASSUME TypeOK, NEW r \in Requests, Commit(r)
  PROVE  TypeOK'
<1>1. \A t \in Tasks : Holds(r, t) => written[r][t] \in TaskNode
  BY DEF TypeOK, Holds, Partial
<1>2. dates' \in [Tasks -> TaskNode] /\ version' \in [Tasks -> Nat]
  BY <1>1 DEF TypeOK, Commit
<1>3. Partial(Nothing, TaskNode) /\ DOMAIN Nothing = {}
  BY DEF Nothing, Partial
<1>4. DOMAIN written' = Requests /\ \A v \in Requests : written'[v] = IF v = r THEN Nothing ELSE written[v]
  BY DEF TypeOK, Commit, Released
<1>5. phase' \in [Requests -> Phases] /\ reply' \in [Requests -> Replies]
      /\ \A v \in Requests \ {r} : phase'[v] = phase[v]
  BY DEF TypeOK, Commit, Goes, Phases, Replies
<1>6. /\ \A v \in Requests : /\ Partial(written'[v], TaskNode) /\ DOMAIN written'[v] \subseteq alive
                             /\ phase'[v] = "free" => written'[v] = Nothing
      /\ \A u, v \in Requests : u # v => DOMAIN written'[u] \cap DOMAIN written'[v] = {}
  BY <1>3, <1>4, <1>5 DEF TypeOK
<1>7. /\ pinned' \subseteq Tasks
      /\ overtaken' \in [Requests -> SUBSET Tasks]
      /\ skewed' \subseteq Tasks
  <2>1. pinned' \subseteq Tasks
    BY DEF TypeOK, Commit
  <2>2. overtaken' \in [Requests -> SUBSET Tasks]
    BY DEF TypeOK, Commit
  <2>3. skewed' \subseteq Tasks
    BY DEF TypeOK, Commit, Misplaced, Recomputed, Downstream
  <2> QED  BY <2>1, <2>2, <2>3
<1>8. /\ alive' = alive /\ deps' = deps /\ origin' = origin /\ goal' = goal /\ seen' = seen
      /\ plan' = plan /\ moves' = moves /\ edits' = edits /\ known' = known
  BY DEF Commit, session
<1>9. /\ origin' \in [Requests -> Tasks] /\ goal' \in [Requests -> Moves]
      /\ DOMAIN seen' = Requests /\ DOMAIN plan' = Requests
      /\ moves' \in 0 .. MaxMoves /\ edits' \in 0 .. MaxEdits
  BY <1>8 DEF TypeOK
<1>10. /\ alive' \subseteq Tasks /\ Edges' \subseteq alive' \X alive' /\ deps' \in [Edges' -> DepEdge]
      /\ DOMAIN known' = Requests
      /\ \A v \in Requests : /\ DOMAIN known'[v] \subseteq Tasks \X Tasks
                             /\ known'[v] \in [DOMAIN known'[v] -> DepEdge]
  BY <1>8 DEF TypeOK, Edges
<1>11. \A v \in Requests : Partial(seen'[v], Row) /\ Partial(plan'[v], TaskNode)
  BY <1>8 DEF TypeOK
<1> QED  BY <1>2, <1>4, <1>6, <1>5, <1>7, <1>8, <1>9, <1>10, <1>11 DEF TypeOK

LEMMA UpdateTaskType ==
  ASSUME TypeOK, NEW t \in Tasks, UpdateTask(t)
  PROVE  TypeOK'
<1>1. version' \in [Tasks -> Nat] /\ edits' \in 0 .. MaxEdits
  BY InlineAssumption DEF TypeOK, UpdateTask, Edit
<1> QED  BY <1>1 DEF TypeOK, UpdateTask, Edit, session, Edges

LEMMA CreateTaskType ==
  ASSUME TypeOK, NEW t \in Tasks, CreateTask(t)
  PROVE  TypeOK'
<1>1. version' \in [Tasks -> Nat] /\ edits' \in 0 .. MaxEdits
  BY InlineAssumption DEF TypeOK, CreateTask, Edit
<1>2. alive \subseteq alive' /\ alive' \subseteq Tasks
  BY DEF TypeOK, CreateTask
<1> QED  BY <1>1, <1>2 DEF TypeOK, CreateTask, Edit, session, Edges

LEMMA DeleteTaskType ==
  ASSUME TypeOK, NEW t \in Tasks, DeleteTask(t)
  PROVE  TypeOK'
<1>1. edits' \in 0 .. MaxEdits /\ alive' \subseteq Tasks /\ pinned' \subseteq Tasks
  <2>1. UNION {Succs(Edges, u) : u \in Subtree(t)} \subseteq Tasks
    BY DEF Succs
  <2> QED  BY <2>1, InlineAssumption DEF TypeOK, DeleteTask, Edit
<1>2. \A r \in Requests : DOMAIN written[r] \subseteq alive'
  BY DEF TypeOK, DeleteTask, Unlocked, Holds
<1>3. Edges' \subseteq alive' \X alive' /\ deps' \in [Edges' -> DepEdge]
  <2>1. deps \in [DOMAIN deps -> DepEdge] /\ DOMAIN deps \subseteq Tasks \X Tasks
    BY DEF TypeOK, Edges
  <2>2. deps' = Among(deps, alive')
    BY DEF DeleteTask
  <2> DEFINE D == Among(deps, alive')
  <2>3. DOMAIN D = DOMAIN deps \cap (alive' \X alive') /\ D \in [DOMAIN D -> DepEdge]
    BY <2>1, AmongType
  <2> HIDE DEF D
  <2>4. DOMAIN deps' \subseteq alive' \X alive' /\ deps' \in [DOMAIN deps' -> DepEdge]
    BY <2>2, <2>3 DEF D
  <2> QED  BY <2>4 DEF Edges
<1> QED  BY <1>1, <1>2, <1>3 DEF TypeOK, DeleteTask, Edit, session

LEMMA AddPredecessorType ==
  ASSUME TypeOK, NEW l \in Links, AddPredecessor(l)
  PROVE  TypeOK'
<1>1. edits' \in 0 .. MaxEdits /\ l[1] \in Tasks \X Tasks /\ l[2] \in DepEdge
  BY InlineAssumption DEF TypeOK, AddPredecessor, Edit
<1>2. pinned' \subseteq Tasks /\ l[1] \in alive \X alive
  BY <1>1 DEF TypeOK, AddPredecessor
<1>3. Edges' = Edges \cup {l[1]} /\ deps' \in [Edges' -> DepEdge]
  BY <1>1 DEF TypeOK, AddPredecessor, Edges
<1> QED  BY <1>1, <1>2, <1>3 DEF TypeOK, AddPredecessor, Edit, session

-----------------------------------------------------------------------------
(* The invariant                                                           *)

(* A task that is there has had its first version.                         *)
Born == \A t \in alive : version[t] # 0

(* A request under way has loaded its origin, and plans to move only tasks *)
(* it has loaded.                                                          *)
Loaded ==
  \A r \in Requests :
    /\ phase[r] # "free" => origin[r] \in DOMAIN seen[r]
    /\ DOMAIN plan[r] \subseteq DOMAIN seen[r]
    /\ phase[r] \in {"loaded", "moved", "read"} => DOMAIN plan[r] = {}

(* Before its cascade a request has locked its origin at most; from its    *)
(* flush on, it has when it moves it.                                      *)
OriginLocked ==
  \A r \in Requests :
    /\ phase[r] = "loaded" => DOMAIN written[r] = {}
    /\ phase[r] \in {"moved", "read"} => DOMAIN written[r] \subseteq {origin[r]}
    /\ phase[r] \in {"moved", "read", "computed"} /\ Moved(r) => Holds(r, origin[r])

(* A row that a request has locked is still the one it has loaded.         *)
LocksHold ==
  \A r \in Requests : \A t \in DOMAIN written[r] :
    t \in DOMAIN seen[r] /\ seen[r][t].version = version[t]

(* A row whose version is the one a request has loaded has the dates it    *)
(* has loaded.                                                             *)
SeenVersioned ==
  \A r \in Requests : \A t \in DOMAIN seen[r] :
    /\ seen[r][t].version <= version[t]
    /\ seen[r][t].version = version[t] => seen[r][t].date = dates[t]

(* A request that succeeded in moving its origin has given it a version    *)
(* later than the one it had loaded.                                       *)
WinnerPassed ==
  \A r \in Requests :
    reply[r] = "ok" =>
      /\ phase[r] = "free" /\ origin[r] \in DOMAIN seen[r]
      /\ Moved(r) => seen[r][origin[r]].version < version[origin[r]]

IInv ==
  /\ TypeOK /\ Born /\ Loaded /\ OriginLocked /\ LocksHold
  /\ SeenVersioned /\ WinnerPassed /\ OneWinner

LEMMA InitIInv == Init => IInv
<1> SUFFICES ASSUME Init PROVE IInv
  OBVIOUS
<1>1. \A r \in Requests : /\ phase[r] = "free" /\ reply[r] = "none"
                          /\ DOMAIN seen[r] = {} /\ DOMAIN plan[r] = {} /\ DOMAIN written[r] = {}
  BY DEF Init, Nothing
<1>2. Loaded /\ OriginLocked /\ LocksHold /\ SeenVersioned
  BY <1>1 DEF Loaded, OriginLocked, LocksHold, SeenVersioned
<1>3. WinnerPassed /\ OneWinner
  BY <1>1 DEF WinnerPassed, OneWinner
<1>4. Born
  BY InlineAssumption DEF Init, Born
<1> QED  BY <1>2, <1>3, <1>4, InitType DEF IInv

(* Steps of a request that leave the rows and what it has loaded alone,    *)
(* and do not end it with success.                                         *)
LEMMA SessionIInv ==
  ASSUME IInv, UNCHANGED <<tables, origin, goal, seen, plan, moves, edits>>,
         phase' \in [Requests -> Phases], reply' \in [Requests -> Replies], UNCHANGED history,
         NEW r \in Requests,
         \/ phase[r] = "loaded" /\ phase'[r] = "moved" /\ ~ Moved(r) /\ UNCHANGED written
         \/ phase'[r] = "free" /\ written' = [written EXCEPT ![r] = Nothing],
         \A v \in Requests \ {r} : phase'[v] = phase[v],
         \A v \in Requests : reply'[v] = "ok" => reply[v] = "ok"
  PROVE  IInv'
<1>1. \A v \in Requests : Moved(v)' <=> Moved(v)
  BY DEF Moved
<1>2. \A v \in Requests : DOMAIN written'[v] \subseteq DOMAIN written[v]
  <2>1. CASE UNCHANGED written
    BY <2>1
  <2>2. CASE written' = [written EXCEPT ![r] = Nothing]
    <3>1. \A v \in Requests : written'[v] = IF v = r THEN Nothing ELSE written[v]
      BY <2>2 DEF IInv, TypeOK
    <3>2. DOMAIN Nothing = {}
      BY DEF Nothing
    <3> QED  BY <3>1, <3>2
  <2> QED  BY <2>1, <2>2
<1>3. Born' /\ LocksHold' /\ SeenVersioned'
  BY <1>2 DEF IInv, Born, LocksHold, SeenVersioned, tables
<1>4. Loaded' /\ OriginLocked'
  <2>1. phase'[r] = "free" \/ (phase[r] = "loaded" /\ phase'[r] = "moved" /\ ~ Moved(r))
    OBVIOUS
  <2>2. \A v \in Requests \ {r} : phase'[v] = phase[v] /\ written'[v] = written[v]
    BY DEF IInv, TypeOK
  <2>3. Loaded'
    BY <2>1, <2>2 DEF IInv, Loaded
  <2>4. OriginLocked'
    BY <1>1, <1>2, <2>1, <2>2 DEF IInv, OriginLocked, Holds
  <2> QED  BY <2>3, <2>4
<1>5. WinnerPassed' /\ OneWinner'
  BY <1>1 DEF IInv, WinnerPassed, OneWinner, tables
<1>6. TypeOK'
  <2>1. CASE UNCHANGED written /\ phase'[r] # "free"
    BY <2>1, SessionType DEF IInv
  <2>2. CASE written' = [written EXCEPT ![r] = Nothing]
    BY <2>2, SessionType DEF IInv
  <2> QED  BY <2>1, <2>2
<1> QED  BY <1>3, <1>4, <1>5, <1>6 DEF IInv

LEMMA RollbackIInv ==
  ASSUME IInv, NEW r \in Requests, NEW a \in {"conflict", "error"}, Rollback(r, a)
  PROVE  IInv'
<1>1. phase' \in [Requests -> Phases] /\ reply' \in [Requests -> Replies]
  BY DEF IInv, TypeOK, Rollback, Goes, Phases, Replies
<1>2. /\ phase'[r] = "free" /\ \A v \in Requests \ {r} : phase'[v] = phase[v]
      /\ \A v \in Requests : reply'[v] = "ok" => reply[v] = "ok"
  BY DEF IInv, TypeOK, Rollback, Goes
<1>3. written' = [written EXCEPT ![r] = Nothing]
  BY DEF Rollback, Released
<1>4. UNCHANGED <<tables, origin, goal, seen, plan, moves, edits>> /\ UNCHANGED history
  BY DEF Rollback, session
<1> QED  BY <1>1, <1>2, <1>3, <1>4, SessionIInv

LEMMA NothingToMoveIInv ==
  ASSUME IInv, NEW r \in Requests, NothingToMove(r)
  PROVE  IInv'
<1>1. phase' \in [Requests -> Phases] /\ phase'[r] = "moved" /\ \A v \in Requests \ {r} : phase'[v] = phase[v]
  BY DEF IInv, TypeOK, NothingToMove, Goes, Phases
<1>2. ~ Moved(r)
  BY DEF NothingToMove, Unwritten, Moved
<1> QED  BY <1>1, <1>2, SessionIInv DEF IInv, TypeOK, NothingToMove, session

LEMMA LoadTaskIInv ==
  ASSUME IInv, NEW r \in Requests, NEW t \in Tasks, NEW d \in Moves, LoadTask(r, t, d)
  PROVE  IInv'
<1>1. /\ phase'[r] = "loaded" /\ reply'[r] = "none" /\ origin'[r] = t /\ plan'[r] = Nothing
      /\ DOMAIN seen'[r] = {t} /\ seen'[r][t] = committedRow(t) /\ written'[r] = Nothing
  BY DEF IInv, TypeOK, LoadTask, Goes
<1>2. \A v \in Requests \ {r} :
        /\ phase'[v] = phase[v] /\ reply'[v] = reply[v] /\ origin'[v] = origin[v]
        /\ goal'[v] = goal[v] /\ plan'[v] = plan[v] /\ seen'[v] = seen[v]
        /\ written'[v] = written[v] /\ (Moved(v)' <=> Moved(v))
  BY DEF IInv, TypeOK, LoadTask, Goes, Moved
<1>3. UNCHANGED <<alive, dates, version>>
  BY DEF LoadTask, tables
<1>4. Loaded' /\ OriginLocked'
  BY <1>1, <1>2 DEF IInv, Loaded, OriginLocked, Holds, Nothing
<1>5. LocksHold'
  BY <1>1, <1>2, <1>3 DEF IInv, LocksHold, Nothing
<1>6. SeenVersioned'
  BY <1>1, <1>2, <1>3 DEF IInv, TypeOK, SeenVersioned, committedRow
<1>7. WinnerPassed' /\ OneWinner' /\ Born'
  BY <1>1, <1>2, <1>3 DEF IInv, WinnerPassed, OneWinner, Born
<1> QED  BY <1>4, <1>5, <1>6, <1>7, LoadTaskType DEF IInv

LEMMA UpdateRowIInv ==
  ASSUME IInv, NEW r \in Requests, NEW t \in Tasks, UpdateRow(r, t)
  PROVE  IInv'
<1>1. /\ DOMAIN written'[r] = DOMAIN written[r] \cup {t}
      /\ \A v \in Requests \ {r} : phase'[v] = phase[v] /\ written'[v] = written[v]
  BY DEF IInv, TypeOK, UpdateRow, Goes
<1>2. \/ phase[r] = "loaded" /\ t = origin[r] /\ phase'[r] = "moved"
      \/ phase[r] = "computed" /\ t \in DOMAIN plan[r] /\ phase'[r] = "computed"
  BY ToUpdate DEF IInv, TypeOK, UpdateRow, Goes
<1>3. UNCHANGED <<alive, dates, version, origin, goal, seen, plan, reply>>
  BY DEF UpdateRow, session, tables
<1>4. \A v \in Requests : Moved(v)' <=> Moved(v)
  BY <1>3 DEF Moved
<1>5. t \in DOMAIN seen[r] /\ seen[r][t].version = version[t]
  BY <1>2 DEF IInv, Loaded, UpdateRow, VersionMatches
<1>6. LocksHold'
  BY <1>1, <1>3, <1>5 DEF IInv, LocksHold
<1>7. SeenVersioned' /\ Born'
  BY <1>3 DEF IInv, SeenVersioned, Born
<1>8. Loaded' /\ OriginLocked'
  BY <1>1, <1>2, <1>3, <1>4 DEF IInv, Loaded, OriginLocked, Holds
<1>9. WinnerPassed' /\ OneWinner'
  BY <1>1, <1>2, <1>3, <1>4 DEF IInv, WinnerPassed, OneWinner
<1> QED  BY <1>6, <1>7, <1>8, <1>9, UpdateRowType DEF IInv

LEMMA ReadTasksIInv ==
  ASSUME IInv, NEW r \in Requests, ReadTasks(r)
  PROVE  IInv'
<1>1. /\ phase[r] = "moved" /\ phase'[r] = "read" /\ DOMAIN seen'[r] = alive
      /\ \A t \in alive : seen'[r][t] = IF t = origin[r] THEN seen[r][t] ELSE committedRow(t)
      /\ \A v \in Requests \ {r} : phase'[v] = phase[v] /\ seen'[v] = seen[v]
  BY DEF IInv, TypeOK, ReadTasks, Goes
<1>2. UNCHANGED <<alive, dates, version, written, origin, goal, plan, reply>>
  BY DEF ReadTasks, tables
<1>3. alive \subseteq Tasks /\ origin[r] \in alive /\ origin[r] \in DOMAIN seen[r]
  BY <1>1 DEF IInv, TypeOK, Loaded, ReadTasks
<1>4. \A v \in Requests : Moved(v)' <=> Moved(v)
  BY <1>1, <1>2, <1>3 DEF Moved
<1>5. LocksHold' /\ Born'
  BY <1>1, <1>2, <1>3 DEF IInv, LocksHold, OriginLocked, Born
<1>6. SeenVersioned'
  <2>1. \A t \in alive : /\ committedRow(t).version = version[t] /\ version[t] \in Nat
                        /\ committedRow(t).date = dates[t]
    BY <1>3 DEF IInv, TypeOK, committedRow
  <2>2. ASSUME NEW t \in alive
        PROVE  /\ seen'[r][t].version <= version[t]
               /\ seen'[r][t].version = version[t] => seen'[r][t].date = dates[t]
    <3>1. CASE t = origin[r]
      BY <1>1, <1>3, <3>1 DEF IInv, SeenVersioned
    <3>2. CASE t # origin[r]
      BY <1>1, <2>1, <3>2
    <3> QED  BY <3>1, <3>2
  <2> QED  BY <1>1, <1>2, <2>2 DEF IInv, SeenVersioned
<1>7. Loaded' /\ OriginLocked'
  BY <1>1, <1>2, <1>3, <1>4 DEF IInv, Loaded, OriginLocked, Holds
<1>8. \A v \in Requests : reply'[v] = "ok" => v # r
  BY <1>1, <1>2 DEF IInv, WinnerPassed
<1>9. WinnerPassed' /\ OneWinner'
  BY <1>1, <1>2, <1>4, <1>8 DEF IInv, WinnerPassed, OneWinner
<1> QED  BY <1>3, <1>5, <1>6, <1>7, <1>9, ReadTasksType DEF IInv

LEMMA OriginVanishedIInv ==
  ASSUME IInv, NEW r \in Requests, OriginVanished(r)
  PROVE  IInv'
<1>1. /\ phase[r] = "moved" /\ phase'[r] = "computed"
      /\ \A v \in Requests \ {r} : phase'[v] = phase[v]
  BY DEF IInv, TypeOK, OriginVanished, Goes
<1>2. UNCHANGED <<alive, dates, version, written, origin, goal, seen, plan, reply>>
  BY DEF OriginVanished, tables, session
<1>3. \A v \in Requests : Moved(v)' <=> Moved(v)
  BY <1>2 DEF Moved
<1>4. Born' /\ LocksHold' /\ SeenVersioned'
  BY <1>2 DEF IInv, Born, LocksHold, SeenVersioned
<1>5. Loaded' /\ OriginLocked'
  BY <1>1, <1>2, <1>3 DEF IInv, Loaded, OriginLocked, Holds
<1>6. WinnerPassed' /\ OneWinner'
  BY <1>1, <1>2, <1>3 DEF IInv, WinnerPassed, OneWinner
<1> QED  BY <1>4, <1>5, <1>6, OriginVanishedType DEF IInv

LEMMA ComputeIInv ==
  ASSUME IInv, NEW r \in Requests, Compute(r)
  PROVE  IInv'
<1>1. /\ phase[r] = "read" /\ phase'[r] = "computed"
      /\ \A v \in Requests \ {r} : phase'[v] = phase[v] /\ plan'[v] = plan[v]
      /\ DOMAIN plan'[r] \subseteq DOMAIN seen[r]
  BY ComputePlan DEF IInv, TypeOK, Compute, Goes
<1>2. UNCHANGED <<alive, dates, version, written, origin, goal, seen, reply>>
  BY DEF Compute, tables
<1>3. \A v \in Requests : Moved(v)' <=> Moved(v)
  BY <1>2 DEF Moved
<1>4. Born' /\ LocksHold' /\ SeenVersioned'
  BY <1>2 DEF IInv, Born, LocksHold, SeenVersioned
<1>5. Loaded' /\ OriginLocked'
  BY <1>1, <1>2, <1>3 DEF IInv, Loaded, OriginLocked, Holds
<1>6. WinnerPassed' /\ OneWinner'
  BY <1>1, <1>2, <1>3 DEF IInv, WinnerPassed, OneWinner
<1> QED  BY <1>4, <1>5, <1>6, ComputeType DEF IInv

(* The rows a commit changes are those its request has locked, and no      *)
(* other request has.                                                      *)
LEMMA CommitRows ==
  ASSUME IInv, NEW r \in Requests, Commit(r)
  PROVE  /\ \A t \in Tasks : t \in DOMAIN written[r] => version'[t] = version[t] + 1
         /\ \A t \in Tasks : t \notin DOMAIN written[r] => version'[t] = version[t] /\ dates'[t] = dates[t]
BY DEF IInv, TypeOK, Commit, Holds

LEMMA CommitIInv ==
  ASSUME IInv, NEW r \in Requests, Commit(r)
  PROVE  IInv'
<1>1. /\ phase[r] = "computed" /\ phase'[r] = "free" /\ reply'[r] = "ok" /\ written'[r] = Nothing
      /\ \A v \in Requests \ {r} :
           phase'[v] = phase[v] /\ reply'[v] = reply[v] /\ written'[v] = written[v]
  BY DEF IInv, TypeOK, Commit, Released, Goes
<1>2. UNCHANGED <<alive, origin, goal, seen, plan>>
  BY DEF Commit, session
<1>3. \A v \in Requests : Moved(v)' <=> Moved(v)
  BY <1>2 DEF Moved
<1>4. \A v \in Requests : /\ DOMAIN written[v] \subseteq Tasks
                          /\ DOMAIN seen[v] \subseteq Tasks
                          /\ origin[v] \in Tasks
                          /\ \A t \in DOMAIN seen[v] : seen[v][t].version \in Nat
  BY DEF IInv, TypeOK, Partial, Row
<1>5. \A t \in Tasks : version[t] \in Nat
  BY DEF IInv, TypeOK
<1>6. LocksHold'
  <2> SUFFICES ASSUME NEW v \in Requests, NEW t \in DOMAIN written'[v]
               PROVE  t \in DOMAIN seen[v] /\ seen[v][t].version = version'[t]
    BY <1>2 DEF LocksHold
  <2>1. v # r /\ t \in DOMAIN written[v]
    BY <1>1 DEF Nothing
  <2>2. t \in Tasks /\ t \notin DOMAIN written[r]
    BY <1>4, <2>1 DEF IInv, TypeOK
  <2> QED  BY <2>1, <2>2, CommitRows DEF IInv, LocksHold
<1>7. SeenVersioned'
  BY <1>2, <1>4, <1>5, CommitRows DEF IInv, SeenVersioned
<1>8. Loaded' /\ OriginLocked'
  BY <1>1, <1>2, <1>3 DEF IInv, Loaded, OriginLocked, Holds
<1>9. Moved(r) => seen[r][origin[r]].version = version[origin[r]] /\ version'[origin[r]] = version[origin[r]] + 1
  BY <1>1, <1>4, CommitRows DEF IInv, OriginLocked, LocksHold, Holds
<1>10. WinnerPassed'
  <2> SUFFICES ASSUME NEW v \in Requests, reply'[v] = "ok"
               PROVE  /\ phase'[v] = "free" /\ origin[v] \in DOMAIN seen[v]
                      /\ Moved(v) => seen[v][origin[v]].version < version'[origin[v]]
    BY <1>2, <1>3 DEF WinnerPassed
  <2>1. CASE v = r
    BY <1>1, <1>4, <1>5, <1>9, <2>1 DEF IInv, Loaded
  <2>2. CASE v # r
    <3>1. version[origin[v]] <= version'[origin[v]]
      BY <1>4, <1>5, CommitRows
    <3>2. /\ phase[v] = "free" /\ origin[v] \in DOMAIN seen[v]
          /\ Moved(v) => seen[v][origin[v]].version < version[origin[v]]
      BY <1>1, <2>2 DEF IInv, WinnerPassed
    <3>3. version'[origin[v]] \in Nat
      BY <1>4, <1>5, CommitRows
    <3> QED  BY <1>1, <1>4, <1>5, <2>2, <3>1, <3>2, <3>3
  <2> QED  BY <2>1, <2>2
<1>11. OneWinner'
  <2> SUFFICES ASSUME NEW u \in Requests, NEW v \in Requests,
                      u # v, reply'[u] = "ok", reply'[v] = "ok",
                      origin[u] = origin[v], Moved(u), Moved(v)
               PROVE  seen[u][origin[u]].version # seen[v][origin[v]].version
    BY <1>2, <1>3 DEF OneWinner
  <2>1. \A x \in Requests \ {r} :
          reply'[x] = "ok" /\ Moved(x) =>
            origin[x] \in DOMAIN seen[x] /\ seen[x][origin[x]].version < version[origin[x]]
    BY <1>1 DEF IInv, WinnerPassed
  <2>2. CASE u # r /\ v # r
    BY <1>1, <2>2 DEF IInv, OneWinner
  <2>3. CASE u = r
    BY <1>4, <1>5, <1>9, <2>1, <2>3
  <2>4. CASE v = r
    BY <1>4, <1>5, <1>9, <2>1, <2>4
  <2> QED  BY <2>2, <2>3, <2>4
<1>12. Born'
  BY <1>2, <1>5, CommitRows DEF IInv, TypeOK, Born
<1> QED  BY <1>6, <1>7, <1>8, <1>10, <1>11, <1>12, CommitType DEF IInv

(* An edit writes no dates and meets no lock; the version of each row      *)
(* grows, or stays where a request has the row locked.                     *)
LEMMA EditIInv ==
  ASSUME IInv, Edit, TypeOK', Born',
         \A t \in Tasks : version[t] <= version'[t],
         \A r \in Requests, t \in Tasks : Holds(r, t) => version'[t] = version[t]
  PROVE  IInv'
<1>1. UNCHANGED <<dates, written, phase, origin, goal, seen, plan, reply>>
  BY DEF Edit, session
<1>2. \A t \in Tasks : version[t] \in Nat /\ version'[t] \in Nat
  BY DEF IInv, TypeOK
<1>3. \A v \in Requests : /\ DOMAIN written[v] \subseteq Tasks
                          /\ DOMAIN seen[v] \subseteq Tasks
                          /\ origin[v] \in Tasks
                          /\ \A u \in DOMAIN seen[v] : seen[v][u].version \in Nat
  BY DEF IInv, TypeOK, Partial, Row
<1>4. LocksHold' /\ SeenVersioned'
  BY <1>1, <1>2, <1>3 DEF IInv, LocksHold, SeenVersioned, Holds
<1>5. Loaded' /\ OriginLocked' /\ OneWinner'
  BY <1>1 DEF IInv, Loaded, OriginLocked, Holds, Moved, OneWinner
<1>6. WinnerPassed'
  BY <1>1, <1>2, <1>3 DEF IInv, WinnerPassed, Moved
<1> QED  BY <1>4, <1>5, <1>6 DEF IInv

LEMMA UpdateTaskIInv ==
  ASSUME IInv, NEW t \in Tasks, UpdateTask(t)
  PROVE  IInv'
<1>1. \A u \in Tasks : /\ version[u] \in Nat
                       /\ version'[u] = IF u = t THEN version[u] + 1 ELSE version[u]
  BY DEF IInv, TypeOK, UpdateTask
<1>2. \A r \in Requests : ~ Holds(r, t)
  BY DEF UpdateTask, Unlocked
<1>3. Born'
  BY <1>1 DEF IInv, TypeOK, Born, UpdateTask
<1>4. \A u \in Tasks : version[u] <= version'[u]
  BY <1>1
<1>5. \A r \in Requests, u \in Tasks : Holds(r, u) => version'[u] = version[u]
  BY <1>1, <1>2
<1>6. TypeOK' /\ Edit
  BY UpdateTaskType DEF IInv, UpdateTask
<1> QED  BY <1>3, <1>4, <1>5, <1>6, EditIInv

LEMMA CreateTaskIInv ==
  ASSUME IInv, NEW t \in Tasks, CreateTask(t)
  PROVE  IInv'
<1>1. \A u \in Tasks : /\ version[u] \in Nat
                       /\ version'[u] = IF u = t THEN version[u] + 1 ELSE version[u]
  BY DEF IInv, TypeOK, CreateTask
<1>2. \A r \in Requests : ~ Holds(r, t)
  BY DEF IInv, TypeOK, Born, CreateTask, Holds
<1>3. Born'
  BY <1>1 DEF IInv, TypeOK, Born, CreateTask
<1>4. \A u \in Tasks : version[u] <= version'[u]
  BY <1>1
<1>5. \A r \in Requests, u \in Tasks : Holds(r, u) => version'[u] = version[u]
  BY <1>1, <1>2
<1>6. TypeOK' /\ Edit
  BY CreateTaskType DEF IInv, CreateTask
<1> QED  BY <1>3, <1>4, <1>5, <1>6, EditIInv

LEMMA DeleteTaskIInv ==
  ASSUME IInv, NEW t \in Tasks, DeleteTask(t)
  PROVE  IInv'
<1>1. version' = version /\ alive' \subseteq alive /\ \A u \in Tasks : version[u] \in Nat
  BY DEF IInv, TypeOK, DeleteTask
<1>2. Born'
  BY <1>1 DEF IInv, Born
<1> QED  BY <1>1, <1>2, DeleteTaskType, EditIInv DEF IInv, DeleteTask

LEMMA AddPredecessorIInv ==
  ASSUME IInv, NEW l \in Links, AddPredecessor(l)
  PROVE  IInv'
<1>1. version' = version /\ alive' = alive /\ \A u \in Tasks : version[u] \in Nat
  BY DEF IInv, TypeOK, AddPredecessor
<1>2. Born'
  BY <1>1 DEF IInv, Born
<1> QED  BY <1>1, <1>2, AddPredecessorType, EditIInv DEF IInv, AddPredecessor

LEMMA NextIInv == IInv /\ [Next]_vars => IInv'
<1> SUFFICES ASSUME IInv, [Next]_vars PROVE IInv'
  OBVIOUS
<1>1. ASSUME NEW r \in Requests, Serve(r) \/ RequestFails(r)
      PROVE  IInv'
  <2>1. ASSUME NEW t \in Tasks, UpdateRow(r, t) PROVE IInv'
    BY <2>1, UpdateRowIInv
  <2>2. CASE \E a \in {"conflict", "error"} : Rollback(r, a)
    BY <2>2, RollbackIInv
  <2> QED
    BY <1>1, <2>1, <2>2, NothingToMoveIInv, ReadTasksIInv, OriginVanishedIInv, ComputeIInv,
       CommitIInv
    DEF Serve, Conflict, CascadeRaises, DeadlockVictim, RequestFails
<1>2. CASE UNCHANGED vars
  <2>1. UNCHANGED <<alive, deps, dates, version, written, phase, origin, goal, seen, plan, reply,
                    moves, edits, known, pinned, overtaken, skewed>>
    BY <1>2 DEF vars, tables, session, history
  <2>2. TypeOK'
    BY <2>1 DEF IInv, TypeOK, Edges
  <2>3. /\ Born' /\ Loaded' /\ OriginLocked' /\ LocksHold' /\ SeenVersioned'
        /\ WinnerPassed' /\ OneWinner'
    BY <2>1 DEF IInv, Born, Loaded, OriginLocked, LocksHold, SeenVersioned, WinnerPassed, OneWinner, Holds, Moved
  <2> QED  BY <2>2, <2>3 DEF IInv
<1> QED
  BY <1>1, <1>2, LoadTaskIInv, UpdateTaskIInv, CreateTaskIInv, DeleteTaskIInv, AddPredecessorIInv
  DEF Next, Idle

LEMMA Invariance == Spec => []IInv
BY InitIInv, NextIInv, PTL DEF Spec

-----------------------------------------------------------------------------
(* Results                                                                 *)

(* Each variable keeps its type; no two requests ever hold the same row.   *)
THEOREM TypeInvariant == Spec => []TypeOK
<1>1. IInv => TypeOK
  BY DEF IInv
<1> QED  BY <1>1, Invariance, PTL

(* Of the requests that move a task from one version, one at most is       *)
(* answered 200, for any number of requests (tests/test_concurrency.py).   *)
THEOREM AtMostOneWinner == Spec => []OneWinner
<1>1. IInv => OneWinner
  BY DEF IInv
<1> QED  BY <1>1, Invariance, PTL

(* Only a successful commit writes dates, over those its request has       *)
(* loaded: the row lock keeps what the version guard has checked           *)
(* (main.py:268-274, 423-428).                                             *)
THEOREM NoDateOverwrittenUnread == Spec => NoLostUpdate
<1> DEFINE A == \A t \in Tasks : dates'[t] # dates[t] =>
                  \E r \in Requests : /\ Succeeds(r)
                                      /\ t \in DOMAIN seen[r]
                                      /\ seen[r][t].date = dates[t]
<1>1. IInv /\ [Next]_vars => A
  <2> SUFFICES ASSUME IInv, [Next]_vars, NEW t \in Tasks, dates'[t] # dates[t]
               PROVE  \E r \in Requests : /\ Succeeds(r)
                                          /\ t \in DOMAIN seen[r]
                                          /\ seen[r][t].date = dates[t]
    OBVIOUS
  <2>1. PICK r \in Requests : Commit(r)
    BY DEF Next, Serve, LoadTask, UpdateRow, NothingToMove, ReadTasks, OriginVanished, Compute,
           Conflict, CascadeRaises, DeadlockVictim, RequestFails, Rollback, UpdateTask, CreateTask,
           DeleteTask, AddPredecessor, Edit, Idle, tables, vars
  <2>2. Succeeds(r)
    BY <2>1 DEF Succeeds, Commit, Goes, IInv, TypeOK
  <2>3. t \in DOMAIN written[r]
    BY <2>1, CommitRows
  <2> QED  BY <2>2, <2>3 DEF IInv, LocksHold, SeenVersioned
<1>2. Spec => [][A]_vars
  BY <1>1, Invariance, PTL DEF Spec
<1> QED  BY <1>2 DEF NoLostUpdate

-----------------------------------------------------------------------------
(* Where a successful request leaves the tasks                             *)

(* What a cascade has read of the dependencies joins tasks that its        *)
(* request has loaded; until then it has read none.                        *)
KnownRead(r) ==
  /\ phase[r] \in {"loaded", "moved", "read"} => DOMAIN known[r] = {}
  /\ phase[r] = "computed" => DOMAIN known[r] \subseteq (DOMAIN seen[r]) \X (DOMAIN seen[r])

(* The dates a request under way has loaded are those of now, where no     *)
(* other request has moved the task since.                                 *)
SeenUnlessOvertaken(r) ==
  phase[r] # "free" => \A t \in DOMAIN seen[r] \ overtaken[r] : seen[r][t].date = dates[t]

(* The dates a request would leave, had nobody else moved anything.        *)
Placed(r) ==
  [t \in DOMAIN seen[r] |-> IF t \in DOMAIN plan[r] THEN plan[r][t] ELSE nodes(r)[t]]

(* A plan makes what follows the origin tight by the dependencies that     *)
(* were read, and moves nothing else.                                      *)
PlanTightens(r) ==
  phase[r] = "computed" =>
    /\ Reschedules(known[r], nodes(r), Placed(r), origin[r])
    /\ DOMAIN plan[r] \subseteq Downstream(DOMAIN known[r], origin[r]) \ {origin[r]}

(* The rows a request has updated hold what it asks for and what it plans. *)
WritesPlan(r) ==
  \A t \in DOMAIN written[r] :
    /\ phase[r] \in {"moved", "read"} => t = origin[r] /\ written[r][t] = goal[r]
    /\ phase[r] = "computed" =>
         t \in DOMAIN plan[r] \cup {origin[r]} /\ written[r][t] = Placed(r)[t]

Sound(r) == KnownRead(r) /\ SeenUnlessOvertaken(r) /\ PlanTightens(r) /\ WritesPlan(r)

(* A dependency that was read is there still, and the same, unless one of  *)
(* its tasks has gone for good.                                            *)
Gone(t) == t \notin alive /\ version[t] # 0
Stands(r, e) == e \in Edges /\ deps[e] = known[r][e]
KnownStands ==
  \A r \in Requests : \A e \in DOMAIN known[r] : Stands(r, e) \/ Gone(e[1]) \/ Gone(e[2])

Placement == KnownStands /\ (\A r \in Requests : Sound(r)) /\ ConvergesUnlessOvertaken

(* A request that has ended is sound, and one that a step passes over      *)
(* stays so.                                                               *)
LEMMA EndedSound ==
  ASSUME NEW r \in Requests, phase[r] = "free", DOMAIN written[r] = {}
  PROVE  Sound(r)
BY DEF Sound, KnownRead, SeenUnlessOvertaken, PlanTightens, WritesPlan

LEMMA PassedOver ==
  ASSUME NEW r \in Requests, Sound(r),
         phase'[r] = phase[r], seen'[r] = seen[r], origin'[r] = origin[r], goal'[r] = goal[r],
         plan'[r] = plan[r], written'[r] = written[r], known'[r] = known[r],
         overtaken[r] \subseteq overtaken'[r],
         \A t \in DOMAIN seen[r] \ overtaken'[r] : dates'[t] = dates[t]
  PROVE  Sound(r)'
<1>1. nodes(r)' = nodes(r)
  BY DEF nodes
<1>2. Placed(r)' = Placed(r)
  BY <1>1 DEF Placed
<1>3. KnownRead(r)' /\ SeenUnlessOvertaken(r)'
  BY DEF Sound, KnownRead, SeenUnlessOvertaken
<1>4. PlanTightens(r)' /\ WritesPlan(r)'
  BY <1>1, <1>2 DEF Sound, PlanTightens, WritesPlan
<1> QED  BY <1>3, <1>4 DEF Sound

(* What a request knows stands as long as dependencies go only with their  *)
(* tasks, and tasks that have gone do not come back.                       *)
LEMMA KnownStandsStep ==
  ASSUME TypeOK, KnownStands,
         \A e \in Edges : (e \in Edges' /\ deps'[e] = deps[e]) \/ Gone(e[1])' \/ Gone(e[2])',
         \A t \in Tasks : Gone(t) => Gone(t)',
         \A r \in Requests :
           \/ known'[r] = known[r]
           \/ DOMAIN known'[r] = {}
           \/ known'[r] = Among(deps, DOMAIN seen[r])
  PROVE  KnownStands'
<1> SUFFICES ASSUME NEW r \in Requests, NEW e \in DOMAIN known'[r]
             PROVE  Stands(r, e)' \/ Gone(e[1])' \/ Gone(e[2])'
  BY DEF KnownStands
<1>1. CASE known'[r] = known[r]
  <2>1. e[1] \in Tasks /\ e[2] \in Tasks
    BY <1>1 DEF TypeOK
  <2>2. Stands(r, e) \/ Gone(e[1]) \/ Gone(e[2])
    BY <1>1 DEF KnownStands
  <2> QED  BY <1>1, <2>1, <2>2 DEF Stands
<1>2. CASE known'[r] = Among(deps, DOMAIN seen[r])
  <2>1. e \in Edges /\ known'[r][e] = deps[e]
    BY <1>2 DEF Among, Edges
  <2> QED  BY <2>1 DEF Stands
<1> QED  BY <1>1, <1>2

LEMMA InitPlacement == Init => Placement
<1> SUFFICES ASSUME Init PROVE Placement
  OBVIOUS
<1>1. \A r \in Requests : phase[r] = "free" /\ DOMAIN written[r] = {} /\ DOMAIN known[r] = {}
  BY DEF Init, Nothing
<1>2. ConvergesUnlessOvertaken
  BY DEF Init, ConvergesUnlessOvertaken
<1>3. KnownStands
  BY <1>1 DEF KnownStands
<1> QED  BY <1>1, <1>2, <1>3, EndedSound DEF Placement

(* Steps of one request that move no task.                                 *)
LEMMA OneSound ==
  ASSUME TypeOK, Placement, NEW r \in Requests, Sound(r)', UNCHANGED <<tables, pinned, skewed>>,
         \/ known'[r] = known[r]
         \/ DOMAIN known'[r] = {}
         \/ known'[r] = Among(deps, DOMAIN seen[r]),
         \A v \in Requests \ {r} :
           /\ phase'[v] = phase[v] /\ seen'[v] = seen[v] /\ origin'[v] = origin[v]
           /\ goal'[v] = goal[v] /\ plan'[v] = plan[v] /\ written'[v] = written[v]
           /\ known'[v] = known[v] /\ overtaken'[v] = overtaken[v]
  PROVE  Placement'
<1>1. alive' = alive /\ deps' = deps /\ dates' = dates /\ version' = version
  BY DEF tables
<1>2. \A v \in Requests \ {r} : Sound(v)'
  BY <1>1, PassedOver DEF Placement
<1>3. ConvergesUnlessOvertaken'
  BY <1>1 DEF Placement, ConvergesUnlessOvertaken, Edges
<1>4. KnownStands'
  <2>1. \A t \in Tasks : Gone(t) => Gone(t)'
    BY <1>1 DEF Gone
  <2>2. \A e \in Edges : e \in Edges' /\ deps'[e] = deps[e]
    BY <1>1 DEF Edges
  <2> QED  BY <2>1, <2>2, KnownStandsStep DEF Placement
<1> QED  BY <1>2, <1>3, <1>4 DEF Placement

LEMMA LoadTaskPlacement ==
  ASSUME IInv, Placement, NEW r \in Requests, NEW t \in Tasks, NEW d \in Moves, LoadTask(r, t, d)
  PROVE  Placement'
<1>1. /\ phase'[r] = "loaded" /\ DOMAIN seen'[r] = {t} /\ seen'[r][t].date = dates[t]
      /\ written'[r] = Nothing /\ known'[r] = Nothing /\ DOMAIN Nothing = {}
      /\ UNCHANGED <<tables, pinned, skewed>>
  BY DEF IInv, TypeOK, LoadTask, Goes, committedRow, Nothing
<1>2. \A v \in Requests \ {r} :
        /\ phase'[v] = phase[v] /\ seen'[v] = seen[v] /\ origin'[v] = origin[v]
        /\ goal'[v] = goal[v] /\ plan'[v] = plan[v] /\ written'[v] = written[v]
        /\ known'[v] = known[v] /\ overtaken'[v] = overtaken[v]
  BY DEF IInv, TypeOK, LoadTask, Goes
<1>3. Sound(r)'
  BY <1>1 DEF Sound, KnownRead, SeenUnlessOvertaken, PlanTightens, WritesPlan, tables
<1> QED  BY <1>1, <1>2, <1>3, OneSound DEF IInv

LEMMA UpdateRowPlacement ==
  ASSUME IInv, Placement, NEW r \in Requests, NEW t \in Tasks, UpdateRow(r, t)
  PROVE  Placement'
<1>1. UNCHANGED <<tables, origin, goal, seen, plan, known, pinned, overtaken, skewed>>
  BY DEF UpdateRow, session, history
<1>2. \A v \in Requests \ {r} : phase'[v] = phase[v] /\ written'[v] = written[v]
  BY DEF IInv, TypeOK, UpdateRow, Goes
<1>3. Sound(r)
  BY DEF Placement
<1>4. nodes(r)' = nodes(r) /\ Placed(r)' = Placed(r)
  <2>1. nodes(r)' = nodes(r)
    BY <1>1 DEF nodes
  <2> QED  BY <1>1, <2>1 DEF Placed
<1>5. DOMAIN written'[r] = DOMAIN written[r] \cup {t}
  BY DEF IInv, TypeOK, UpdateRow
<1>6. CASE phase[r] = "loaded"
  <2>1. phase'[r] = "moved" /\ DOMAIN written[r] = {} /\ t = origin[r] /\ written'[r][t] = goal[r]
    BY <1>6, ToUpdate DEF IInv, TypeOK, OriginLocked, UpdateRow, Goes
  <2>2. Sound(r)'
    BY <1>1, <1>3, <1>5, <1>6, <2>1
    DEF Sound, KnownRead, SeenUnlessOvertaken, PlanTightens, WritesPlan, tables
  <2> QED  BY <1>1, <1>2, <2>2, OneSound DEF IInv
<1>7. CASE phase[r] # "loaded"
  <2>1. phase[r] = "computed" /\ phase'[r] = "computed" /\ t \in DOMAIN plan[r]
    BY <1>7, ToUpdate DEF IInv, TypeOK, UpdateRow, Goes
  <2>2. \A u \in DOMAIN written'[r] : written'[r][u] = IF u # t THEN written[r][u] ELSE plan[r][t]
    BY <1>7 DEF IInv, TypeOK, UpdateRow
  <2>3. Placed(r)[t] = plan[r][t]
    <3>1. t \in DOMAIN seen[r]
      BY <2>1 DEF IInv, Loaded
    <3> QED  BY <2>1, <3>1 DEF Placed
  <2>4. WritesPlan(r)'
    BY <1>1, <1>3, <1>4, <1>5, <2>1, <2>2, <2>3 DEF Sound, WritesPlan
  <2>5. KnownRead(r)' /\ SeenUnlessOvertaken(r)'
    BY <1>1, <1>3, <2>1 DEF Sound, KnownRead, SeenUnlessOvertaken, tables
  <2>6. PlanTightens(r)'
    BY <1>1, <1>3, <1>4, <2>1 DEF Sound, PlanTightens
  <2> QED  BY <1>1, <1>2, <2>4, <2>5, <2>6, OneSound DEF Sound, IInv
<1> QED  BY <1>6, <1>7

LEMMA NothingToMovePlacement ==
  ASSUME IInv, Placement, NEW r \in Requests, NothingToMove(r)
  PROVE  Placement'
<1>1. UNCHANGED <<tables, written, origin, goal, seen, plan, known, pinned, overtaken, skewed>>
  BY DEF NothingToMove, session, history
<1>2. /\ phase[r] = "loaded" /\ phase'[r] = "moved" /\ DOMAIN written[r] = {}
      /\ \A v \in Requests \ {r} : phase'[v] = phase[v]
  BY DEF IInv, TypeOK, OriginLocked, NothingToMove, Goes
<1>3. Sound(r)'
  BY <1>1, <1>2
  DEF Placement, Sound, KnownRead, SeenUnlessOvertaken, PlanTightens, WritesPlan, tables
<1> QED  BY <1>1, <1>2, <1>3, OneSound DEF IInv

LEMMA ReadTasksPlacement ==
  ASSUME IInv, Placement, NEW r \in Requests, ReadTasks(r)
  PROVE  Placement'
<1>1. UNCHANGED <<tables, written, origin, goal, plan, known, pinned, skewed>>
  BY DEF ReadTasks
<1>2. /\ phase[r] = "moved" /\ phase'[r] = "read" /\ DOMAIN seen'[r] = alive
      /\ overtaken'[r] = overtaken[r] \cap {origin[r]}
      /\ \A t \in alive : seen'[r][t] = IF t = origin[r] THEN seen[r][t] ELSE committedRow(t)
      /\ \A v \in Requests \ {r} :
           phase'[v] = phase[v] /\ seen'[v] = seen[v] /\ overtaken'[v] = overtaken[v]
  BY DEF IInv, TypeOK, ReadTasks, Goes
<1>3. Sound(r) /\ origin[r] \in DOMAIN seen[r]
  BY <1>2 DEF Placement, IInv, Loaded
<1>4. SeenUnlessOvertaken(r)'
  <2> SUFFICES ASSUME NEW t \in alive \ overtaken'[r] PROVE seen'[r][t].date = dates[t]
    BY <1>1, <1>2 DEF SeenUnlessOvertaken, tables
  <2>1. CASE t = origin[r]
    BY <1>2, <1>3, <2>1 DEF Sound, SeenUnlessOvertaken
  <2>2. CASE t # origin[r]
    <3>1. seen'[r][t] = committedRow(t)
      BY <1>2, <2>2
    <3>2. committedRow(t).date = dates[t]
      BY DEF committedRow
    <3> QED  BY <3>1, <3>2
  <2> QED  BY <2>1, <2>2
<1>5. Sound(r)'
  BY <1>1, <1>2, <1>3, <1>4 DEF Sound, KnownRead, PlanTightens, WritesPlan
<1> QED  BY <1>1, <1>2, <1>5, OneSound DEF IInv

(* With nothing read, nothing follows the origin, and nothing moves.       *)
LEMMA OriginVanishedPlacement ==
  ASSUME IInv, Placement, NEW r \in Requests, OriginVanished(r)
  PROVE  Placement'
<1>1. UNCHANGED <<tables, written, origin, goal, seen, plan, known, pinned, overtaken, skewed>>
  BY DEF OriginVanished, session, history
<1>2. /\ phase[r] = "moved" /\ phase'[r] = "computed"
      /\ \A v \in Requests \ {r} : phase'[v] = phase[v]
  BY DEF IInv, TypeOK, OriginVanished, Goes
<1>3. /\ Sound(r) /\ DOMAIN known[r] = {} /\ DOMAIN plan[r] = {}
      /\ origin[r] \in Tasks /\ origin[r] \in DOMAIN seen[r]
  BY <1>2 DEF Placement, Sound, KnownRead, IInv, TypeOK, Loaded
<1>4. Placed(r) = nodes(r)
  BY <1>3 DEF Placed, nodes
<1>5. nodes(r)' = nodes(r) /\ Placed(r)' = Placed(r)
  <2>1. nodes(r)' = nodes(r)
    BY <1>1 DEF nodes
  <2> QED  BY <1>1, <2>1 DEF Placed
<1>6. Downstream(DOMAIN known[r], origin[r]) = {}
  <2>1. Succs({}, origin[r]) = {} /\ Closed({}, {})
    BY DEF Succs, Closed
  <2> QED  BY <1>3, <2>1, DownstreamLeast
<1>7. PlanTightens(r)'
  BY <1>1, <1>3, <1>4, <1>5, <1>6 DEF PlanTightens, Reschedules, Tightens
<1>8. WritesPlan(r)'
  <2> SUFFICES ASSUME NEW t \in DOMAIN written[r]
               PROVE  t = origin[r] /\ written[r][t] = Placed(r)[t]
    BY <1>1, <1>2, <1>5 DEF WritesPlan
  <2>1. t = origin[r] /\ written[r][t] = goal[r]
    BY <1>2, <1>3 DEF Sound, WritesPlan
  <2> QED  BY <1>3, <1>4, <2>1 DEF nodes
<1>9. KnownRead(r)' /\ SeenUnlessOvertaken(r)'
  BY <1>1, <1>2, <1>3 DEF Sound, KnownRead, SeenUnlessOvertaken, tables
<1> QED  BY <1>1, <1>2, <1>7, <1>8, <1>9, OneSound DEF Sound, IInv

LEMMA ComputePlacement ==
  ASSUME IInv, Placement, NEW r \in Requests, Compute(r)
  PROVE  Placement'
<1> DEFINE K == Among(deps, DOMAIN seen[r])
           A == Downstream(DOMAIN K, origin[r])
<1>1. UNCHANGED <<tables, written, origin, goal, seen, pinned, overtaken, skewed>>
  BY DEF Compute
<1>2. /\ phase[r] = "read" /\ phase'[r] = "computed" /\ known'[r] = K
      /\ \A v \in Requests \ {r} :
           phase'[v] = phase[v] /\ plan'[v] = plan[v] /\ known'[v] = known[v]
  BY ComputePlan DEF IInv, TypeOK, Compute, Goes
<1>3. Sound(r) /\ origin[r] \in Tasks /\ origin[r] \in DOMAIN seen[r]
  BY <1>2 DEF Placement, IInv, TypeOK, Loaded
<1>4. EdgesRead(r) = K /\ DOMAIN K \subseteq (DOMAIN seen[r]) \X (DOMAIN seen[r])
  <2>1. EdgesRead(r) = K
    BY DEF EdgesRead
  <2>2. deps \in [DOMAIN deps -> DepEdge] /\ DOMAIN deps \subseteq Tasks \X Tasks
    BY DEF IInv, TypeOK, Edges
  <2>3. DOMAIN K = DOMAIN deps \cap ((DOMAIN seen[r]) \X (DOMAIN seen[r]))
    BY <2>2, AmongType
  <2> HIDE DEF K
  <2> QED  BY <2>1, <2>3
<1> HIDE DEF K
<1>5. PICK n \in Results(K, nodes(r), origin[r]) :
        plan' = [plan EXCEPT ![r] = Changed(n, nodes(r))]
  BY <1>4 DEF Compute
<1>6. nodes(r)' = nodes(r) /\ DOMAIN nodes(r) = DOMAIN seen[r]
  BY <1>1 DEF nodes
<1>7. DOMAIN n = DOMAIN seen[r] /\ n = [t \in DOMAIN seen[r] |-> n[t]]
  BY <1>6 DEF Results, SlidTo
<1>8. plan'[r] = Changed(n, nodes(r))
  BY <1>5 DEF IInv, TypeOK
<1>9. Placed(r)' = n
  <2>1. \A t \in DOMAIN seen[r] : Placed(r)'[t] = n[t]
    BY <1>1, <1>6, <1>7, <1>8 DEF Placed, Changed
  <2>2. Placed(r)' = [t \in DOMAIN seen[r] |-> Placed(r)'[t]]
    BY <1>1 DEF Placed
  <2> QED  BY <1>7, <2>1, <2>2
<1>10. Tightens(K, nodes(r), n, A)
  BY <1>5, ResultTightens
<1>11. origin[r] \notin A
  BY <1>3, <1>4, RootNotDownstream DEF Compute, Raises
<1>12. DOMAIN plan'[r] \subseteq A \ {origin[r]}
  <2>1. \A t \in DOMAIN plan'[r] : t \in DOMAIN seen[r] /\ n[t] # nodes(r)[t]
    BY <1>7, <1>8 DEF Changed
  <2> QED  BY <1>6, <1>10, <1>11, <2>1 DEF Tightens
<1>13. PlanTightens(r)'
  BY <1>1, <1>2, <1>6, <1>9, <1>10, <1>12 DEF PlanTightens, Reschedules
<1>14. WritesPlan(r)'
  <2> SUFFICES ASSUME NEW t \in DOMAIN written[r]
               PROVE  t = origin[r] /\ written[r][t] = Placed(r)'[t]
    BY <1>1, <1>2 DEF WritesPlan
  <2>1. t = origin[r] /\ written[r][t] = goal[r]
    BY <1>2, <1>3 DEF Sound, WritesPlan
  <2>2. nodes(r)[t] = goal[r]
    BY <1>3, <2>1 DEF nodes
  <2>3. n[t] = nodes(r)[t]
    BY <1>3, <1>6, <1>10, <1>11, <2>1 DEF Tightens
  <2> QED  BY <1>9, <2>1, <2>2, <2>3
<1>15. KnownRead(r)' /\ SeenUnlessOvertaken(r)'
  BY <1>1, <1>2, <1>3, <1>4 DEF Sound, KnownRead, SeenUnlessOvertaken, tables
<1> QED  BY <1>1, <1>2, <1>13, <1>14, <1>15, OneSound DEF Sound, IInv, K

(* A commit leaves a task that no one has overtaken where its request      *)
(* placed it: it has written the row, or the row is as it was read.        *)
LEMMA CommitPlaces ==
  ASSUME IInv, Placement, NEW r \in Requests, Commit(r),
         NEW t \in DOMAIN seen[r], t \notin overtaken[r]
  PROVE  dates'[t] = Placed(r)[t]
<1>1. Sound(r) /\ phase[r] = "computed" /\ DOMAIN plan[r] \subseteq DOMAIN written[r]
  BY DEF Placement, Commit, Unwritten
<1>2. t \in Tasks /\ seen[r][t].date = dates[t]
  BY <1>1 DEF Sound, SeenUnlessOvertaken, IInv, TypeOK, Partial
<1>3. CASE Holds(r, t)
  BY <1>1, <1>2, <1>3 DEF Commit, Holds, Sound, WritesPlan
<1>4. CASE ~ Holds(r, t)
  <2>1. dates'[t] = dates[t] /\ Placed(r)[t] = nodes(r)[t]
    BY <1>1, <1>2, <1>4 DEF Commit, Holds, Placed
  <2>2. nodes(r)[t] = dates[t]
    <3>1. CASE t = origin[r]
      <4>1. goal[r] = seen[r][t].date
        BY <1>1, <1>4, <3>1 DEF IInv, OriginLocked, Moved
      <4> QED  BY <1>2, <3>1, <4>1 DEF nodes
    <3>2. CASE t # origin[r]
      BY <1>2, <3>2 DEF nodes
    <3> QED  BY <3>1, <3>2
  <2> QED  BY <2>1, <2>2
<1> QED  BY <1>3, <1>4

(* What was to be recomputed is tight then, unless overtaken: it has the   *)
(* predecessors it was placed by, and they are joined to it as they were.  *)
LEMMA CommitTightens ==
  ASSUME IInv, Placement, NEW r \in Requests, Commit(r),
         NEW t \in Recomputed(r), Around(t) \cap overtaken[r] = {}
  PROVE  Tight(deps, dates', t)
<1> DEFINE K == known[r]
<1>1. /\ t \in Tasks /\ t \in Downstream(DOMAIN K, origin[r]) /\ origin[r] \in Tasks
      /\ Preds(DOMAIN deps, t) = Preds(DOMAIN K, t)
  BY DEF Recomputed, Current, Downstream, Edges, IInv, TypeOK
<1>2. Sound(r) /\ phase[r] = "computed"
  BY DEF Placement, Commit
<1>3. DOMAIN K \subseteq (DOMAIN seen[r]) \X (DOMAIN seen[r])
  BY <1>2 DEF Sound, KnownRead
<1>4. \A p \in Preds(DOMAIN K, t) : p \in DOMAIN seen[r] /\ t \in DOMAIN seen[r]
  <2> TAKE p \in Preds(DOMAIN K, t)
  <2>1. <<p, t>> \in DOMAIN K
    BY DEF Preds
  <2>2. <<p, t>> \in (DOMAIN seen[r]) \X (DOMAIN seen[r])
    BY <1>3, <2>1
  <2> QED  BY <2>2
<1>5. t \in DOMAIN seen[r]
  <2>1. Preds(DOMAIN K, t) # {}
    BY <1>1, DownstreamFollows
  <2> QED  BY <1>4, <2>1
<1>6. Tight(K, Placed(r), t)
  <2>1. DOMAIN nodes(r) = DOMAIN seen[r]
    BY DEF nodes
  <2> QED  BY <1>1, <1>2, <1>5, <2>1 DEF Sound, PlanTightens, Reschedules, Tightens
<1>7. \A p \in Preds(DOMAIN K, t) : deps[<<p, t>>] = K[<<p, t>>]
  <2> SUFFICES ASSUME NEW p \in Preds(DOMAIN K, t) PROVE deps[<<p, t>>] = K[<<p, t>>]
    OBVIOUS
  <2>1. <<p, t>> \in DOMAIN K /\ <<p, t>> \in Edges
    BY <1>1 DEF Preds, Edges
  <2>2. p \in alive /\ t \in alive
    BY <2>1 DEF IInv, TypeOK
  <2>3. Stands(r, <<p, t>>) \/ Gone(<<p, t>>[1]) \/ Gone(<<p, t>>[2])
    BY <2>1 DEF Placement, KnownStands
  <2> QED  BY <2>2, <2>3 DEF Stands, Gone
<1>8. Tight(deps, Placed(r), t)
  BY <1>1, <1>6, <1>7, TightSameEdges
<1>9. \A u \in Preds(DOMAIN deps, t) \cup {t} : dates'[u] = Placed(r)[u]
  <2>1. \A u \in Preds(DOMAIN deps, t) \cup {t} : u \in DOMAIN seen[r] /\ u \notin overtaken[r]
    BY <1>1, <1>4, <1>5 DEF Around, Edges
  <2> QED  BY <2>1, CommitPlaces
<1> QED  BY <1>8, <1>9, TightAgrees

LEMMA CommitConverges ==
  ASSUME IInv, Placement, NEW r \in Requests, Commit(r)
  PROVE  ConvergesUnlessOvertaken'
<1> DEFINE A == Downstream(DOMAIN known[r], origin[r])
<1>1. /\ deps' = deps /\ Edges' = Edges /\ origin[r] \in Tasks
      /\ pinned' = (pinned \ (Recomputed(r) \ overtaken[r])) \cup {t \in {origin[r]} : Holds(r, t)}
      /\ skewed' = (skewed \ Recomputed(r)) \cup Misplaced(r)
  BY DEF IInv, TypeOK, Commit, Edges
<1> SUFFICES ASSUME NEW t \in Tasks, t \notin pinned', t \notin skewed', Preds(Edges, t) # {}
             PROVE  Tight(deps, dates', t)
  BY <1>1 DEF ConvergesUnlessOvertaken
<1>2. CASE t \in Recomputed(r)
  <2>1. Around(t) \cap overtaken[r] = {}
    BY <1>1, <1>2 DEF Misplaced
  <2> QED  BY <1>2, <2>1, CommitTightens
<1>3. CASE t \notin Recomputed(r)
  <2>1. Tight(deps, dates, t)
    BY <1>1, <1>3 DEF Placement, ConvergesUnlessOvertaken
  <2>2. \A u \in Tasks : Holds(r, u) => u \in A \cup {origin[r]}
    BY DEF Placement, Sound, WritesPlan, PlanTightens, Commit, Holds
  <2>3. ASSUME NEW u \in Around(t), Holds(r, u) PROVE FALSE
    <3>1. Current(r, t)
      BY <1>1, <2>3 DEF Misplaced
    <3>2. CASE u = t
      BY <1>1, <1>3, <2>2, <2>3, <3>1, <3>2 DEF Recomputed
    <3>3. CASE u \in Preds(Edges, t)
      <4>1. u \in Tasks /\ t \in Succs(DOMAIN known[r], u)
        BY <3>1, <3>3 DEF Current, Preds, Succs
      <4>2. u \in A \cup {origin[r]}
        BY <2>2, <2>3, <4>1
      <4>3. t \in A
        BY <1>1, <4>1, <4>2, DownstreamClosed
      <4> QED  BY <1>3, <3>1, <4>3 DEF Recomputed
    <3> QED  BY <3>2, <3>3 DEF Around
  <2>4. \A u \in Preds(DOMAIN deps, t) \cup {t} : dates'[u] = dates[u]
    <3>1. \A u \in Around(t) : u \in Tasks /\ u \notin DOMAIN written[r]
      BY <2>3 DEF Around, Preds, Holds
    <3> QED  BY <3>1, CommitRows DEF Around, Edges
  <2> QED  BY <2>1, <2>4, TightAgrees
<1> QED  BY <1>2, <1>3

LEMMA CommitPlacement ==
  ASSUME IInv, Placement, NEW r \in Requests, Commit(r)
  PROVE  Placement'
<1>1. phase'[r] = "free" /\ DOMAIN written'[r] = {}
  BY DEF IInv, TypeOK, Commit, Goes, Released, Nothing
<1>2. Sound(r)'
  BY <1>1 DEF Sound, KnownRead, SeenUnlessOvertaken, PlanTightens, WritesPlan
<1>3. ASSUME NEW v \in Requests \ {r} PROVE Sound(v)'
  <2>1. /\ phase'[v] = phase[v] /\ seen'[v] = seen[v] /\ origin'[v] = origin[v]
        /\ goal'[v] = goal[v] /\ plan'[v] = plan[v] /\ written'[v] = written[v]
        /\ known'[v] = known[v]
    BY DEF IInv, TypeOK, Commit, Goes, Released, session
  <2>2. overtaken'[v] = overtaken[v] \cup {t \in Tasks : dates'[t] # dates[t]}
    BY DEF Commit
  <2>3. DOMAIN seen[v] \subseteq Tasks
    BY DEF IInv, TypeOK, Partial
  <2>4. \A t \in DOMAIN seen[v] \ overtaken'[v] : dates'[t] = dates[t]
    BY <2>2, <2>3
  <2>5. Sound(v)
    BY DEF Placement
  <2> QED  BY <2>1, <2>2, <2>4, <2>5, PassedOver
<1>4. KnownStands'
  <2>1. alive' = alive /\ deps' = deps /\ known' = known
    BY DEF Commit
  <2>2. \A t \in Tasks : version[t] \in Nat /\ (version'[t] = version[t] \/ version'[t] = version[t] + 1)
    BY CommitRows DEF IInv, TypeOK
  <2>3. \A t \in Tasks : Gone(t) => Gone(t)'
    BY <2>1, <2>2 DEF Gone
  <2>4. \A e \in Edges : e \in Edges' /\ deps'[e] = deps[e]
    BY <2>1 DEF Edges
  <2> QED  BY <2>1, <2>3, <2>4, KnownStandsStep DEF Placement, IInv
<1> QED  BY <1>2, <1>3, <1>4, CommitConverges DEF Placement

LEMMA RollbackPlacement ==
  ASSUME IInv, Placement, NEW r \in Requests, NEW a, Rollback(r, a)
  PROVE  Placement'
<1>1. /\ phase'[r] = "free" /\ DOMAIN written'[r] = {}
      /\ UNCHANGED <<tables, origin, goal, seen, plan, known, pinned, overtaken, skewed>>
      /\ \A v \in Requests \ {r} : phase'[v] = phase[v] /\ written'[v] = written[v]
  BY DEF IInv, TypeOK, Rollback, Goes, Released, Nothing, session, history
<1>2. Sound(r)'
  BY <1>1 DEF Sound, KnownRead, SeenUnlessOvertaken, PlanTightens, WritesPlan
<1> QED  BY <1>1, <1>2, OneSound DEF IInv

(* An edit moves no task, and puts out of place only what it pins: the     *)
(* others keep their dependencies.                                         *)
LEMMA EditPlacement ==
  ASSUME IInv, Placement, Edit, pinned \subseteq pinned',
         \A e \in Edges : (e \in Edges' /\ deps'[e] = deps[e]) \/ Gone(e[1])' \/ Gone(e[2])',
         \A t \in Tasks : Gone(t) => Gone(t)',
         \A t \in Tasks \ pinned' :
           Preds(Edges', t) # {} =>
             /\ Preds(Edges', t) = Preds(Edges, t)
             /\ \A p \in Preds(Edges, t) : deps'[<<p, t>>] = deps[<<p, t>>]
  PROVE  Placement'
<1>1. /\ UNCHANGED <<dates, written, phase, origin, goal, seen, plan, overtaken, skewed>>
      /\ known' = known
  BY DEF Edit, session
<1>2. \A r \in Requests : Sound(r)'
  BY <1>1, PassedOver DEF Placement
<1>3. KnownStands'
  BY <1>1, KnownStandsStep DEF Placement, IInv
<1>4. ConvergesUnlessOvertaken'
  <2> SUFFICES ASSUME NEW t \in Tasks, t \notin pinned', t \notin skewed', Preds(Edges', t) # {}
               PROVE  Tight(deps', dates, t)
    BY <1>1 DEF ConvergesUnlessOvertaken
  <2>1. Tight(deps, dates, t)
    BY <1>1 DEF Placement, ConvergesUnlessOvertaken
  <2>2. /\ Preds(DOMAIN deps', t) = Preds(DOMAIN deps, t)
        /\ \A p \in Preds(DOMAIN deps, t) : deps'[<<p, t>>] = deps[<<p, t>>]
    BY DEF Edges
  <2> QED  BY <2>1, <2>2, TightSameEdges
<1> QED  BY <1>2, <1>3, <1>4 DEF Placement

LEMMA UpdateTaskPlacement ==
  ASSUME IInv, Placement, NEW t \in Tasks, UpdateTask(t)
  PROVE  Placement'
<1>1. Edit /\ alive' = alive /\ deps' = deps /\ Edges' = Edges /\ pinned' = pinned
  BY DEF UpdateTask, Edges
<1>2. \A u \in Tasks : Gone(u) => Gone(u)'
  BY <1>1 DEF IInv, TypeOK, UpdateTask, Gone
<1> QED  BY <1>1, <1>2, EditPlacement

LEMMA CreateTaskPlacement ==
  ASSUME IInv, Placement, NEW t \in Tasks, CreateTask(t)
  PROVE  Placement'
<1>1. Edit /\ deps' = deps /\ Edges' = Edges /\ pinned' = pinned
  BY DEF CreateTask, Edges
<1>2. \A u \in Tasks : Gone(u) => Gone(u)'
  BY <1>1 DEF IInv, TypeOK, CreateTask, Gone
<1> QED  BY <1>1, <1>2, EditPlacement

LEMMA DeleteTaskPlacement ==
  ASSUME IInv, Placement, NEW t \in Tasks, DeleteTask(t)
  PROVE  Placement'
<1>1. /\ Edit /\ version' = version /\ alive' = alive \ Subtree(t)
      /\ pinned' = pinned \cup UNION {Succs(Edges, u) : u \in Subtree(t)}
  BY DEF DeleteTask
<1>2. Edges' = Edges \cap (alive' \X alive') /\ \A e \in Edges' : deps'[e] = deps[e]
  BY DEF DeleteTask, Among, Edges
<1>3. Edges \subseteq alive \X alive /\ alive \subseteq Tasks
  BY DEF IInv, TypeOK
<1>4. \A u \in Tasks : Gone(u) => Gone(u)'
  BY <1>1 DEF Gone
<1>5. \A e \in Edges : (e \in Edges' /\ deps'[e] = deps[e]) \/ Gone(e[1])' \/ Gone(e[2])'
  <2> SUFFICES ASSUME NEW e \in Edges, e \notin Edges' PROVE Gone(e[1])' \/ Gone(e[2])'
    BY <1>2
  <2>1. e \in alive \X alive /\ version[e[1]] # 0 /\ version[e[2]] # 0
    BY <1>3 DEF IInv, Born
  <2>2. e[1] \notin alive' \/ e[2] \notin alive'
    BY <1>2, <2>1
  <2> QED  BY <1>1, <2>1, <2>2 DEF Gone
<1>6. ASSUME NEW u \in Tasks \ pinned', Preds(Edges', u) # {}
      PROVE  /\ Preds(Edges', u) = Preds(Edges, u)
             /\ \A p \in Preds(Edges, u) : deps'[<<p, u>>] = deps[<<p, u>>]
  <2>1. u \in alive'
    BY <1>2, <1>6 DEF Preds
  <2>2. \A p \in Preds(Edges, u) : p \in alive'
    <3> SUFFICES ASSUME NEW p \in Preds(Edges, u), p \notin alive' PROVE FALSE
      OBVIOUS
    <3>1. p \in Subtree(t)
      BY <1>1, <1>3 DEF Preds
    <3>2. u \in Succs(Edges, p)
      BY DEF Preds, Succs
    <3> QED  BY <1>1, <1>6, <3>1, <3>2
  <2>3. \A p \in Tasks : <<p, u>> \in Edges' <=> <<p, u>> \in Edges
    BY <1>2, <2>1, <2>2 DEF Preds
  <2>4. Preds(Edges', u) = Preds(Edges, u)
    BY <2>3 DEF Preds
  <2> QED  BY <1>2, <2>4 DEF Preds
<1> QED  BY <1>1, <1>4, <1>5, <1>6, EditPlacement

LEMMA AddPredecessorPlacement ==
  ASSUME IInv, Placement, NEW l \in Links, AddPredecessor(l)
  PROVE  Placement'
<1>1. /\ Edit /\ alive' = alive /\ version' = version /\ pinned' = pinned \cup {l[1][2]}
      /\ l[1] \in Tasks \X Tasks
  BY InlineAssumption DEF AddPredecessor
<1>2. Edges' = Edges \cup {l[1]} /\ \A e \in Edges : deps'[e] = deps[e]
  BY DEF AddPredecessor, Edges
<1>3. \A u \in Tasks : Gone(u) => Gone(u)'
  BY <1>1 DEF Gone
<1>4. ASSUME NEW u \in Tasks \ pinned'
      PROVE  /\ Preds(Edges', u) = Preds(Edges, u)
             /\ \A p \in Preds(Edges, u) : deps'[<<p, u>>] = deps[<<p, u>>]
  <2>1. \A p \in Tasks : <<p, u>> # l[1]
    BY <1>1, <1>4
  <2> QED  BY <1>2, <2>1 DEF Preds
<1> QED  BY <1>1, <1>2, <1>3, <1>4, EditPlacement

LEMMA NextPlacement == IInv /\ Placement /\ [Next]_vars => Placement'
<1> SUFFICES ASSUME IInv, Placement, [Next]_vars PROVE Placement'
  OBVIOUS
<1>1. ASSUME NEW r \in Requests, Serve(r) \/ RequestFails(r)
      PROVE  Placement'
  <2>1. ASSUME NEW t \in Tasks, UpdateRow(r, t) PROVE Placement'
    BY <2>1, UpdateRowPlacement
  <2>2. CASE \E a : Rollback(r, a)
    BY <2>2, RollbackPlacement
  <2> QED
    BY <1>1, <2>1, <2>2, NothingToMovePlacement, ReadTasksPlacement, OriginVanishedPlacement,
       ComputePlacement, CommitPlacement
    DEF Serve, Conflict, CascadeRaises, DeadlockVictim, RequestFails
<1>2. CASE UNCHANGED vars
  <2>1. /\ UNCHANGED <<tables, written, phase, origin, goal, seen, plan, pinned, overtaken, skewed>>
        /\ known' = known
    BY <1>2 DEF vars, session, history
  <2>2. alive' = alive /\ deps' = deps /\ dates' = dates /\ version' = version
    BY <2>1 DEF tables
  <2>3. \A r \in Requests : Sound(r)'
    BY <2>1, <2>2, PassedOver DEF Placement
  <2>4. ConvergesUnlessOvertaken' /\ KnownStands'
    BY <2>1, <2>2 DEF Placement, ConvergesUnlessOvertaken, KnownStands, Stands, Gone, Edges
  <2> QED  BY <2>3, <2>4 DEF Placement
<1> QED
  BY <1>1, <1>2, LoadTaskPlacement, UpdateTaskPlacement, CreateTaskPlacement, DeleteTaskPlacement,
     AddPredecessorPlacement
  DEF Next, Idle

LEMMA PlacementInvariance == Spec => []Placement
<1>1. Init => Placement
  BY InitPlacement
<1>2. IInv /\ Placement /\ [Next]_vars => Placement'
  BY NextPlacement
<1> QED  BY <1>1, <1>2, Invariance, PTL DEF Spec

(* A request answered 200 has put what follows its task where it belongs,  *)
(* by the dependencies its cascade read, whatever handlers run beside it:  *)
(* all but a task whose dependencies have changed since, and one that      *)
(* others have moved since, or a predecessor of which they have.  What it  *)
(* did not write was in place already (main.py:393-428).                   *)
THEOREM SuccessTightens == Spec => TightUnlessOvertaken
<1> DEFINE A == \A r \in Requests : Succeeds(r) =>
                  \A t \in Recomputed(r) :
                    Around(t) \cap overtaken[r] = {} => Tight(deps, dates', t)
<1>1. IInv /\ Placement /\ [Next]_vars => A
  <2> SUFFICES ASSUME IInv, Placement, [Next]_vars, NEW r \in Requests, Succeeds(r)
               PROVE  Commit(r)
    BY CommitTightens
  <2>1. phase[r] = "computed" /\ phase'[r] = "free" /\ reply'[r] = "ok"
    BY DEF Succeeds
  <2>2. ASSUME NEW v \in Requests, Serve(v) \/ RequestFails(v) PROVE Commit(r)
    <3>1. CASE \E a \in {"conflict", "error"} : Rollback(v, a)
      <4>1. PICK a \in {"conflict", "error"} : Rollback(v, a)
        BY <3>1
      <4>2. v = r => reply'[r] # "ok"
        BY <4>1 DEF Rollback, IInv, TypeOK
      <4>3. v # r => phase'[r] = phase[r]
        BY <4>1 DEF Rollback, Goes, IInv, TypeOK
      <4> QED  BY <2>1, <4>2, <4>3
    <3>2. CASE Commit(v)
      BY <2>1, <3>2 DEF Commit, Goes, IInv, TypeOK
    <3>3. CASE \/ \E t \in Tasks : UpdateRow(v, t)
               \/ NothingToMove(v) \/ ReadTasks(v) \/ OriginVanished(v) \/ Compute(v)
      BY <2>1, <3>3
      DEF UpdateRow, NothingToMove, ReadTasks, OriginVanished, Compute, Goes, IInv, TypeOK
    <3> QED
      BY <2>2, <3>1, <3>2, <3>3 DEF Serve, Conflict, CascadeRaises, DeadlockVictim, RequestFails
  <2>3. CASE \E v \in Requests, t \in Tasks, d \in Moves : LoadTask(v, t, d)
    BY <2>1, <2>3 DEF LoadTask, Goes, IInv, TypeOK
  <2>4. CASE UNCHANGED vars \/ Edit
    BY <2>1, <2>4 DEF vars, Edit
  <2> QED
    BY <2>2, <2>3, <2>4 DEF Next, Idle, UpdateTask, CreateTask, DeleteTask, AddPredecessor
<1>2. Spec => [][A]_vars
  BY <1>1, Invariance, PlacementInvariance, PTL DEF Spec
<1> QED  BY <1>2 DEF TightUnlessOvertaken

(* At every moment only what someone has moved or joined by hand, and what *)
(* a request has placed by dates or dependencies that were overtaken, is   *)
(* out of place: a dependency that is added or deleted beside a request    *)
(* puts its successor out of place, and nothing else does but races        *)
(* (main.py:209-347, 393-428).                                             *)
THEOREM OnlyRacesMisplace == Spec => []ConvergesUnlessOvertaken
<1>1. Placement => ConvergesUnlessOvertaken
  BY DEF Placement
<1> QED  BY <1>1, PlacementInvariance, PTL
=============================================================================
