-------------------------- MODULE SchedulePipeline --------------------------
(***************************************************************************)
(* The full pipeline for the moves of one project's tasks:                 *)
(*                                                                         *)
(*   api: reschedule_task commits the move and an outbox row together;     *)
(*   Debezium relays outbox rows to the task.schedule.changed topic;       *)
(*   worker-fleet: a consumer group whose members run consumer.run() and,  *)
(*   for each message, handler.process_schedule_changed in a transaction.  *)
(*                                                                         *)
(* A project is one partition of the topic (the partition key), so one     *)
(* partition is modelled.  Postgres runs at READ COMMITTED: each statement *)
(* of a worker reads the rows committed when it runs, its updates lock     *)
(* rows and re-check their version, and all it writes appears at its       *)
(* commit.                                                                 *)
(***************************************************************************)
EXTENDS CascadeResults, Sequences

CONSTANTS
  Workers,     \* members of the consumer group
  Parents,     \* which task is whose: a set of <<parent, child>>
  Later,       \* the tasks that are yet to be created
  Moves,       \* the dates a human may give to a task
  Links,       \* the dependencies a human may add: a set of <<pair, DepEdge>>
  Faults,      \* which faults happen: a subset of FaultKinds
  MaxMoves,    \* bound on the moves
  MaxEdits,    \* bound on the other edits
  MaxFaults,   \* bound on the faults
  MaxUpsets    \* bound on these edits and faults together

FaultKinds == {"crash", "rebalance", "database", "relay", "commit"}

(* A task has one parent at most; a row is there before those that name it. *)
ASSUME PipelineAssumption ==
  /\ Parents \subseteq Tasks \X Tasks /\ \A x, y \in Parents : x[2] = y[2] => x = y
  /\ Later \subseteq Tasks /\ Closed(Parents, Later)
  /\ \A g \in Graphs : DOMAIN g \subseteq (Tasks \ Later) \X (Tasks \ Later)
  /\ Moves \subseteq TaskNode
  /\ \A l \in Links : l[1] \in Tasks \X Tasks /\ l[2] \in DepEdge
  /\ Faults \subseteq FaultKinds
  /\ MaxMoves \in Nat /\ MaxEdits \in Nat /\ MaxFaults \in Nat /\ MaxUpsets \in Nat

VARIABLES
  (* Postgres *)
  alive,      \* the tasks that have a row
  dates,      \* planned_start and planned_completion
  version,    \* version_id_col; 0 before a task is created
  deps,       \* the predecessor table
  outbox,     \* task.schedule.changed rows, in commit order: the task moved
  processed,  \* processed_event rows of the worker-fleet group
  announced,  \* project.changed outbox rows: the event each stems from
  (* Debezium and Kafka *)
  relayed,    \* outbox rows relayed so far
  topic,      \* task.schedule.changed: the id of the outbox row
  owner,      \* the member the partition is assigned to
  position,   \* its fetch position: messages fetched so far
  committed,  \* the committed offset
  dlq,        \* the dead-letter topic
  (* the workers *)
  phase,      \* how far each is with its message
  msg,        \* the offset of the message it holds
  seen,       \* what it has read: dates and versions of tasks
  plan,       \* the new dates it is about to write
  (* budgets *)
  moves, edits, faults,
  (* history, read by no action's guard *)
  pinned,     \* tasks a human has set against their dependencies since
              \* they were last recomputed
  fresh,      \* tasks a worker has read, then recomputed, and that no
              \* human has touched since it read them
  neglected   \* events dead-lettered without having taken effect

tables   == <<alive, dates, version, deps>>
inbox    == <<processed, announced>>
kafka    == <<topic, owner, position, committed, dlq>>
sessions == <<phase, msg, seen, plan>>
history  == <<pinned, fresh, neglected>>
vars     == <<tables, outbox, inbox, relayed, kafka, sessions, moves, edits, faults, history>>

Nothing == <<>>   \* the empty function
Row     == [date : TaskNode, version : Nat]
Partial(f, S) == DOMAIN f \subseteq Tasks /\ f \in [DOMAIN f -> S]

Edges == DOMAIN deps

Init ==
  /\ alive = Tasks \ Later
  /\ deps \in Graphs
  /\ dates \in Schedules
  /\ version = [t \in Tasks |-> IF t \in Later THEN 0 ELSE 1]
  /\ outbox = <<>>
  /\ processed = {}
  /\ announced = <<>>
  /\ relayed = 0
  /\ topic = <<>>
  /\ owner \in Workers
  /\ position = 0
  /\ committed = 0
  /\ dlq = <<>>
  /\ phase = [w \in Workers |-> "idle"]
  /\ msg = [w \in Workers |-> 0]
  /\ seen = [w \in Workers |-> Nothing]
  /\ plan = [w \in Workers |-> Nothing]
  /\ moves = 0
  /\ edits = 0
  /\ faults = 0
  /\ pinned = {t \in Tasks : Preds(Edges, t) # {} /\ ~ Tight(deps, dates, t)}
  /\ fresh = [w \in Workers |-> {}]
  /\ neglected = {}

-----------------------------------------------------------------------------
(* The api: each request is one transaction, with the version the client   *)
(* holds equal to the row's (the others are refused and change nothing).   *)

(* A human has set the dates of the tasks S, or what constrains them.      *)
Touched(S) ==
  /\ pinned' = pinned \cup S
  /\ fresh' = [w \in Workers |-> fresh[w] \ S]
  /\ UNCHANGED neglected

(* The outbox row of a move.                                               *)
Record(t) ==
  /\ moves < MaxMoves
  /\ moves' = moves + 1
  /\ outbox' = Append(outbox, t)
  /\ UNCHANGED <<inbox, relayed, kafka, sessions, edits, faults>>

(* reschedule_task, INLINE_CASCADE=false.                                  *)
RescheduleTask(t, d) ==
  /\ Record(t)
  /\ t \in alive
  /\ d # dates[t]
  /\ dates' = [dates EXCEPT ![t] = d]
  /\ version' = [version EXCEPT ![t] = @ + 1]
  /\ Touched({t})
  /\ UNCHANGED <<alive, deps>>

(* The same with the dates that the request has loaded: there is no        *)
(* UPDATE, so neither a new version nor a check that the row is still the  *)
(* one loaded, or still there, but the outbox row is written all the same. *)
ConfirmTask(t) ==
  /\ Record(t)
  /\ version[t] > 0
  /\ UNCHANGED <<tables, history>>

Edit ==
  /\ edits < MaxEdits /\ edits + faults < MaxUpsets
  /\ edits' = edits + 1
  /\ UNCHANGED <<outbox, inbox, relayed, kafka, sessions, moves, faults>>

(* update_task: name and status.                                           *)
UpdateTask(t) ==
  /\ Edit
  /\ t \in alive
  /\ version' = [version EXCEPT ![t] = @ + 1]
  /\ UNCHANGED <<alive, dates, deps, history>>

(* create_task, with the dates that the initial schedule has for t.  The   *)
(* key is new: no row ever had it.                                         *)
CreateTask(t) ==
  /\ Edit
  /\ version[t] = 0
  /\ Preds(Parents, t) \subseteq alive
  /\ alive' = alive \cup {t}
  /\ version' = [version EXCEPT ![t] = @ + 1]
  /\ UNCHANGED <<dates, deps, history>>

(* The foreign keys: the children of a task go with it, and theirs.        *)
Subtree(t) == {t} \cup Downstream(Parents, t)

(* delete_task.  The version asked for is that of t alone.  Dependencies   *)
(* go with the tasks they join; no event: the successors stay where they   *)
(* are.                                                                    *)
DeleteTask(t) ==
  /\ Edit
  /\ t \in alive
  /\ alive' = alive \ Subtree(t)
  /\ deps' = Among(deps, alive')
  /\ Touched(UNION {{u} \cup Succs(Edges, u) : u \in Subtree(t)})
  /\ UNCHANGED <<dates, version>>

(* add_predecessor: no check for a cycle, and no event.                    *)
AddPredecessor(l) ==
  /\ Edit
  /\ l[1] \notin Edges
  /\ l[1][1] \in alive /\ l[1][2] \in alive
  /\ deps' = [e \in Edges \cup {l[1]} |-> IF e = l[1] THEN l[2] ELSE deps[e]]
  /\ Touched({l[1][2]})
  /\ UNCHANGED <<alive, dates, version>>

-----------------------------------------------------------------------------
(* Debezium: relays the outbox in commit order, at least once.             *)

Relay ==
  /\ relayed < Len(outbox)
  /\ relayed' = relayed + 1
  /\ topic' = Append(topic, relayed + 1)
  /\ UNCHANGED <<tables, outbox, inbox, owner, position, committed, dlq, sessions,
                 moves, edits, faults, history>>

Fault(kind) ==
  /\ kind \in Faults
  /\ faults < MaxFaults /\ edits + faults < MaxUpsets
  /\ faults' = faults + 1
  /\ UNCHANGED <<moves, edits>>

(* A restart resumes from an older position of the log.                    *)
RelayRestart ==
  /\ Fault("relay")
  /\ relayed > 0
  /\ relayed' = relayed - 1
  /\ UNCHANGED <<tables, outbox, inbox, kafka, sessions, history>>

-----------------------------------------------------------------------------
(* A worker's message.                                                     *)

event(w) == topic[msg[w]]
origin(w) == outbox[event(w)]

Goes(w, p) == phase' = [phase EXCEPT ![w] = p]

(* The worker drops its session and what it has read.                      *)
Reset(w, p) ==
  /\ Goes(w, p)
  /\ seen' = [seen EXCEPT ![w] = Nothing]
  /\ plan' = [plan EXCEPT ![w] = Nothing]
  /\ fresh' = [fresh EXCEPT ![w] = {}]

(* What a worker's step leaves alone unless it says otherwise.             *)
outside == <<outbox, relayed, topic, moves, edits>>

Poll(w) ==
  /\ phase[w] = "idle"
  /\ owner = w
  /\ position < Len(topic)
  /\ position' = position + 1
  /\ msg' = [msg EXCEPT ![w] = position + 1]
  /\ Goes(w, "polled")
  /\ UNCHANGED <<tables, inbox, owner, committed, dlq, seen, plan, faults, history, outside>>

(* already_processed: a redelivery, skip.                                  *)
Skip(w) ==
  /\ phase[w] = "polled"
  /\ event(w) \in processed
  /\ Goes(w, "handled")
  /\ UNCHANGED <<tables, inbox, owner, position, committed, dlq, msg, seen, plan, faults,
                 history, outside>>

(* s.get(Task, task_id): the origin is read before the other tasks, and    *)
(* the later query does not refresh it.                                    *)
ReadOrigin(w) ==
  /\ phase[w] = "polled"
  /\ event(w) \notin processed
  /\ origin(w) \in alive
  /\ seen' = [seen EXCEPT ![w] = [t \in {origin(w)} |->
                                    [date |-> dates[t], version |-> version[t]]]]
  /\ fresh' = [fresh EXCEPT ![w] = {origin(w)}]
  /\ Goes(w, "begun")
  /\ UNCHANGED <<tables, inbox, owner, position, committed, dlq, msg, plan, faults,
                 pinned, neglected, outside>>

(* origin is None: only the dedup marker is written.                       *)
OriginGone(w) ==
  /\ phase[w] = "polled"
  /\ event(w) \notin processed
  /\ origin(w) \notin alive
  /\ Goes(w, "computed")
  /\ UNCHANGED <<tables, inbox, owner, position, committed, dlq, msg, seen, plan, faults,
                 history, outside>>

ReadTasks(w) ==
  /\ phase[w] = "begun"
  /\ seen' = [seen EXCEPT ![w] = [t \in alive |-> IF t = origin(w) THEN seen[w][t]
                                    ELSE [date |-> dates[t], version |-> version[t]]]]
  /\ fresh' = [fresh EXCEPT ![w] = alive \ ({origin(w)} \ fresh[w])]
  /\ Goes(w, "read")
  /\ UNCHANGED <<tables, inbox, owner, position, committed, dlq, msg, plan, faults,
                 pinned, neglected, outside>>

(* The dependencies among the tasks seen.  The first form is a slip the    *)
(* properties must catch: only the origin's own are loaded.                *)
KnownOfOrigin(w) == [e \in {e \in Edges : e[1] = origin(w)} |-> deps[e]]
Known(w) == Among(deps, DOMAIN seen[w])

seenDates(w) == [t \in DOMAIN seen[w] |-> seen[w][t].date]

(* casc.cascade returns; its changes are what differs from what was read.  *)
Compute(w) ==
  /\ phase[w] = "read"
  /\ origin(w) \in DOMAIN seen[w]
  /\ ~ Raises(Known(w), seenDates(w), origin(w))
  /\ \E n \in Results(Known(w), seenDates(w), origin(w)) :
       plan' = [plan EXCEPT ![w] = Changed(n, seenDates(w))]
  /\ fresh' = [fresh EXCEPT ![w] = @ \cap Downstream(DOMAIN Known(w), origin(w))]
  /\ Goes(w, "computed")
  /\ UNCHANGED <<tables, inbox, owner, position, committed, dlq, msg, seen, faults,
                 pinned, neglected, outside>>

(* The origin was deleted between the two reads: str(origin.id) not in     *)
(* nodes.                                                                  *)
OriginVanished(w) ==
  /\ phase[w] = "read"
  /\ origin(w) \notin DOMAIN seen[w]
  /\ Reset(w, "computed")
  /\ UNCHANGED <<tables, inbox, owner, position, committed, dlq, msg, faults,
                 pinned, neglected, outside>>

(* casc.cascade raises.                                                    *)
CascadeRaises(w) ==
  /\ phase[w] = "read"
  /\ origin(w) \in DOMAIN seen[w]
  /\ Raises(Known(w), seenDates(w), origin(w))
  /\ Reset(w, "poison")
  /\ UNCHANGED <<tables, inbox, owner, position, committed, dlq, msg, faults,
                 pinned, neglected, outside>>

-----------------------------------------------------------------------------
(* The end of the transaction.                                             *)

(* UPDATE ... WHERE version = ? matches every row to be changed.  The      *)
(* first form is a slip: the rows are matched by id alone.                 *)
RowsMatch(w) == DOMAIN plan[w] \subseteq alive
VersionsMatch(w) ==
  \A t \in DOMAIN plan[w] : t \in alive /\ version[t] = seen[w][t].version

(* The primary key of processed_event accepts the marker.  The first form  *)
(* is a slip: the key is not unique.                                       *)
MarkerUnchecked(w) == TRUE
MarkerFree(w) == event(w) \notin processed

(* s.flush() and session.commit(): dates, dedup marker and project.changed *)
(* row appear together.                                                    *)
Effect(w) ==
  /\ phase[w] = "computed"
  /\ VersionsMatch(w)
  /\ MarkerFree(w)
  /\ dates' = [t \in Tasks |-> IF t \in DOMAIN plan[w] THEN plan[w][t] ELSE dates[t]]
  /\ version' = [t \in Tasks |-> IF t \in DOMAIN plan[w] THEN version[t] + 1 ELSE version[t]]
  /\ processed' = processed \cup {event(w)}
  /\ announced' = IF plan[w] = Nothing THEN announced ELSE Append(announced, event(w))
  /\ pinned' = pinned \ fresh[w]
  /\ UNCHANGED <<alive, deps, owner, position, committed, dlq, msg, neglected, outside>>

Commit(w) ==
  /\ Effect(w)
  /\ Reset(w, "handled")
  /\ UNCHANGED faults

(* consumer.seek: the position before the message a worker holds.  The     *)
(* first form is a slip: the position after it.                            *)
AfterMessage(w) == msg[w]
BeforeMessage(w) == msg[w] - 1

(* StaleDataError: roll back and seek back to the message.  A worker that  *)
(* no longer owns the partition cannot seek: it leaves its loop and        *)
(* restarts.                                                               *)
Conflict(w) ==
  /\ phase[w] = "computed"
  /\ ~ VersionsMatch(w)
  /\ position' = IF owner = w THEN BeforeMessage(w) ELSE position
  /\ msg' = [msg EXCEPT ![w] = 0]
  /\ Reset(w, "idle")
  /\ UNCHANGED <<tables, inbox, owner, committed, dlq, faults, pinned, neglected, outside>>

(* IntegrityError: another worker has committed the marker since.          *)
Duplicate(w) ==
  /\ phase[w] = "computed"
  /\ VersionsMatch(w)
  /\ ~ MarkerFree(w)
  /\ Reset(w, "duplicate")
  /\ UNCHANGED <<tables, inbox, owner, position, committed, dlq, msg, faults,
                 pinned, neglected, outside>>

(* Any other exception of the transaction: the connection is lost, say.    *)
DatabaseFails(w) ==
  /\ Fault("database")
  /\ phase[w] \in {"polled", "begun", "read", "computed"}
  /\ Reset(w, "failed")
  /\ UNCHANGED <<tables, inbox, owner, position, committed, dlq, msg, pinned, neglected,
                 outbox, relayed, topic>>

(* The connection is lost after the server has committed.                  *)
CommitUnanswered(w) ==
  /\ Fault("database")
  /\ Effect(w)
  /\ Reset(w, "failed")

Raised == {"poison", "duplicate", "failed"}

(* except Exception: the message goes to the dead-letter topic.            *)
DeadLetter(w) ==
  /\ phase[w] \in Raised
  /\ dlq' = Append(dlq, [event |-> event(w), why |-> phase[w]])
  /\ neglected' = neglected \cup ({event(w)} \ processed)
  /\ Goes(w, "handled")
  /\ UNCHANGED <<tables, inbox, owner, position, committed, msg, seen, plan, faults,
                 pinned, fresh, outside>>

(* consumer.commit(msg): the broker ignores it when the partition has been *)
(* assigned to another member.                                             *)
Ack(w) ==
  /\ phase[w] = "handled"
  /\ committed' = IF owner = w THEN msg[w] ELSE committed
  /\ msg' = [msg EXCEPT ![w] = 0]
  /\ Goes(w, "idle")
  /\ UNCHANGED <<tables, inbox, owner, position, dlq, seen, plan, faults, history, outside>>

(* The commit is asynchronous and its failure goes unnoticed.              *)
AckLost(w) ==
  /\ Fault("commit")
  /\ phase[w] = "handled"
  /\ msg' = [msg EXCEPT ![w] = 0]
  /\ Goes(w, "idle")
  /\ UNCHANGED <<tables, inbox, kafka, seen, plan, history, outbox, relayed>>

-----------------------------------------------------------------------------
(* The consumer group.                                                     *)

(* The member that is given the partition starts at the committed offset.  *)
(* The first form is a slip: one message further.                          *)
AssignNext(w) ==
  /\ owner' = w
  /\ position' = committed + 1
Assign(w) ==
  /\ owner' = w
  /\ position' = committed

(* A worker stops and is started again; its partition may move.            *)
Crash(w) ==
  /\ Fault("crash")
  /\ phase[w] # "idle"
  /\ msg' = [msg EXCEPT ![w] = 0]
  /\ Reset(w, "idle")
  /\ IF owner = w THEN \E v \in Workers : Assign(v) ELSE UNCHANGED <<owner, position>>
  /\ UNCHANGED <<tables, inbox, committed, dlq, pinned, neglected, outbox, relayed, topic>>

(* The partition moves while its old owner may still be at work: it has    *)
(* gone max.poll.interval.ms without a poll, or lost its heartbeat.  The   *)
(* client library takes an assignment in a thread of its own, so the new   *)
(* owner may be at work too, on a message it was given before.             *)
Rebalance(w) ==
  /\ Fault("rebalance")
  /\ owner # w
  /\ Assign(w)
  /\ UNCHANGED <<tables, inbox, topic, committed, dlq, sessions, history, outbox, relayed>>

-----------------------------------------------------------------------------
Human ==
  \/ \E t \in Tasks, d \in Moves : RescheduleTask(t, d)
  \/ \E t \in Tasks : ConfirmTask(t)
  \/ \E t \in Tasks : CreateTask(t) \/ UpdateTask(t) \/ DeleteTask(t)
  \/ \E l \in Links : AddPredecessor(l)

Work(w) ==
  \/ Poll(w)
  \/ Skip(w)
  \/ ReadOrigin(w)
  \/ OriginGone(w)
  \/ ReadTasks(w)
  \/ Compute(w)
  \/ OriginVanished(w)
  \/ CascadeRaises(w)
  \/ Commit(w)
  \/ Conflict(w)
  \/ Duplicate(w)
  \/ DeadLetter(w)
  \/ Ack(w)

Fail(w) ==
  \/ DatabaseFails(w)
  \/ CommitUnanswered(w)
  \/ AckLost(w)
  \/ Crash(w)
  \/ Rebalance(w)

(* Nothing is left to relay, to fetch or to finish.                        *)
Drained ==
  /\ relayed = Len(outbox)
  /\ position = Len(topic)
  /\ \A w \in Workers : phase[w] = "idle"
  /\ UNCHANGED vars

Next ==
  \/ Human
  \/ Relay
  \/ RelayRestart
  \/ \E w \in Workers : Work(w) \/ Fail(w)
  \/ Drained

(* Debezium and the workers keep running, and are restarted when they      *)
(* stop; nobody has to move a task.                                        *)
Fairness == WF_vars(Relay) /\ \A w \in Workers : WF_vars(Work(w))

Spec == Init /\ [][Next]_vars /\ Fairness

-----------------------------------------------------------------------------
(* Properties                                                              *)

Phases == {"idle", "polled", "begun", "read", "computed", "handled"} \cup Raised

RowsOK ==
  /\ alive \subseteq Tasks
  /\ dates \in [Tasks -> TaskNode]
  /\ version \in [Tasks -> Nat]
  /\ Edges \subseteq Tasks \X Tasks /\ deps \in [Edges -> DepEdge]

LogsOK ==
  /\ outbox \in Seq(Tasks)
  /\ processed \subseteq 1 .. Len(outbox)
  /\ announced \in Seq(1 .. Len(outbox))
  /\ relayed \in 0 .. Len(outbox)
  /\ topic \in Seq(1 .. Len(outbox))
  /\ dlq \in Seq([event : 1 .. Len(outbox), why : Raised])
  /\ neglected \subseteq 1 .. Len(outbox)

GroupOK ==
  /\ owner \in Workers
  /\ position \in 0 .. Len(topic)
  /\ committed \in 0 .. Len(topic)
  /\ phase \in [Workers -> Phases]
  /\ msg \in [Workers -> 0 .. Len(topic)]
  /\ \A w \in Workers : phase[w] = "idle" <=> msg[w] = 0

SessionsOK ==
  /\ DOMAIN seen = Workers /\ \A w \in Workers : Partial(seen[w], Row)
  /\ DOMAIN plan = Workers /\ \A w \in Workers : Partial(plan[w], TaskNode)
  /\ pinned \subseteq Tasks
  /\ fresh \in [Workers -> SUBSET Tasks]

BudgetsOK == moves \in 0 .. MaxMoves /\ edits \in 0 .. MaxEdits /\ faults \in 0 .. MaxFaults

(* Each variable has its type; offsets stay within the topic, the ids on   *)
(* the topic within the outbox, and a worker holds a message exactly when  *)
(* it is not idle.                                                         *)
TypeOK == RowsOK /\ LogsOK /\ GroupOK /\ SessionsOK /\ BudgetsOK

abandoned == {dlq[i].event : i \in DOMAIN dlq}

(* The pipeline keeps the ledger of moves: each takes effect and is        *)
(* announced at most once, in the order of the moves, none is skipped by   *)
(* an offset that was committed too far, and each is dealt with in the     *)
(* end, whatever is redelivered (handler.py:4-8, 46-52, 99-111;            *)
(* consumer.py:4-6, 92-105).                                               *)
Ledger == INSTANCE EventLedger WITH recorded <- Len(outbox), applied <- processed
ImplementsLedger == Ledger!Spec

Decided(e) == e \in processed \cup abandoned

(* A committed offset never passes a message that was neither applied nor  *)
(* dead-lettered: a restart, which resumes there, loses nothing            *)
(* (consumer.py:92-93, 96-105).                                            *)
NothingSkipped == \A i \in 1 .. committed : Decided(topic[i])

(* A cascade replaces only dates it has read: one that a human has changed *)
(* meanwhile is never overwritten from stale data, the version check sends *)
(* the message back to be recomputed (handler.py:85-87,                    *)
(* consumer.py:95-100).                                                    *)
HumanEditsSurvive ==
  [][\A w \in Workers : phase[w] = "computed" /\ phase'[w] # "computed" =>
       \A t \in Tasks : dates'[t] # dates[t] =>
         t \in DOMAIN seen[w] /\ dates[t] = seen[w][t].date]_vars

(* The event of a move of task t that no worker has applied yet.           *)
Pending(t) == \E e \in 1 .. Len(outbox) : outbox[e] = t /\ e \notin processed

(* As long as no event was lost to the dead-letter topic, a dependent task *)
(* is where its predecessors put it, unless a human has put it elsewhere   *)
(* since, or one of its predecessors has moved and the cascade is still to *)
(* come.  Once everything is processed only what humans pinned can be out  *)
(* of place (handler.py:34-112).                                           *)
Converges ==
  neglected = {} =>
    \A t \in alive \ pinned :
      \/ Preds(Edges, t) = {}
      \/ Tight(deps, dates, t)
      \/ \E p \in Preds(Edges, t) : Pending(p)

(* The consumer's documentation: only poison messages, those that fail     *)
(* every time, are dead-lettered (consumer.py:4-5).                        *)
OnlyPoisonDeadLettered == \A i \in DOMAIN dlq : dlq[i].why = "poison"
=============================================================================
