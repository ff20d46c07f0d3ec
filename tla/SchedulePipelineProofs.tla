----------------------- MODULE SchedulePipelineProofs -----------------------
(***************************************************************************)
(* Theorems about SchedulePipeline, for any tasks, workers, dates, links,  *)
(* faults and bounds: no message is skipped, no human edit lost, the       *)
(* ledger kept, and only humans leave a task out of place.                 *)
(***************************************************************************)
EXTENDS SchedulePipeline, CascadeFacts

USE DEF tables, inbox, kafka, sessions, history, outside, Goes, Reset

-----------------------------------------------------------------------------
(* Types                                                                   *)

LEMMA SeqWiden ==
  ASSUME NEW S, NEW T, S \subseteq T, NEW s \in Seq(S)
  PROVE  s \in Seq(T)
  OBVIOUS

LEMMA SeqAppend ==
  ASSUME NEW S, NEW s \in Seq(S), NEW x \in S
  PROVE  Append(s, x) \in Seq(S)
  OBVIOUS

LEMMA Holding ==
  ASSUME TypeOK, NEW w \in Workers, phase[w] # "idle"
  PROVE  /\ msg[w] \in 1 .. Len(topic)
         /\ event(w) \in 1 .. Len(outbox)
         /\ origin(w) \in Tasks
<1>1. msg[w] \in 1 .. Len(topic)
  BY DEF TypeOK, GroupOK, LogsOK
<1>2. event(w) \in 1 .. Len(outbox)
  BY <1>1 DEF TypeOK, LogsOK, event
<1> QED  BY <1>1, <1>2 DEF TypeOK, LogsOK, origin

LEMMA RecordType ==
  ASSUME TypeOK, NEW t \in Tasks, Record(t)
  PROVE  /\ UNCHANGED neglected => LogsOK'
         /\ BudgetsOK'
         /\ GroupOK'
<1>1. outbox' \in Seq(Tasks) /\ Len(outbox') = Len(outbox) + 1
  BY DEF Record, TypeOK, LogsOK
<1>2. 1 .. Len(outbox) \subseteq 1 .. Len(outbox') /\ Len(outbox) \in Nat
  BY <1>1 DEF TypeOK, LogsOK
<1>3. announced \in Seq(1 .. Len(outbox')) /\ topic \in Seq(1 .. Len(outbox'))
  BY <1>2, SeqWiden DEF TypeOK, LogsOK
<1>4. dlq \in Seq([event : 1 .. Len(outbox'), why : Raised])
  <2>1. [event : 1 .. Len(outbox), why : Raised]
          \subseteq [event : 1 .. Len(outbox'), why : Raised]
    BY <1>2
  <2> QED  BY <2>1, SeqWiden DEF TypeOK, LogsOK
<1>5. UNCHANGED neglected => LogsOK'
  BY <1>1, <1>2, <1>3, <1>4 DEF Record, TypeOK, LogsOK
<1>6. BudgetsOK'
  BY PipelineAssumption DEF Record, TypeOK, BudgetsOK
<1>7. GroupOK'
  BY DEF Record, TypeOK, GroupOK
<1> QED  BY <1>5, <1>6, <1>7

LEMMA RescheduleTaskType ==
  ASSUME TypeOK, NEW t \in Tasks, NEW d \in Moves, RescheduleTask(t, d)
  PROVE  TypeOK'
<1>1. LogsOK' /\ BudgetsOK' /\ GroupOK'
  BY RecordType DEF RescheduleTask, Touched
<1>2. RowsOK'
  BY PipelineAssumption DEF RescheduleTask, TypeOK, RowsOK, Edges
<1>3. SessionsOK'
  BY DEF RescheduleTask, Record, Touched, TypeOK, SessionsOK
<1> QED  BY <1>1, <1>2, <1>3 DEF TypeOK

LEMMA ConfirmTaskType ==
  ASSUME TypeOK, NEW t \in Tasks, ConfirmTask(t)
  PROVE  TypeOK'
<1>1. LogsOK' /\ BudgetsOK' /\ GroupOK'
  BY RecordType DEF ConfirmTask
<1>2. RowsOK' /\ SessionsOK'
  BY DEF ConfirmTask, Record, TypeOK, RowsOK, Edges, SessionsOK
<1> QED  BY <1>1, <1>2 DEF TypeOK

LEMMA UpdateTaskType ==
  ASSUME TypeOK, NEW t \in Tasks, UpdateTask(t)
  PROVE  TypeOK'
<1>1. RowsOK' /\ LogsOK'
  BY DEF TypeOK, UpdateTask, Edit, RowsOK, Edges, LogsOK,
     Raised
<1>2. BudgetsOK'
  BY PipelineAssumption DEF TypeOK, UpdateTask, Edit, BudgetsOK
<1>3. GroupOK'
  BY DEF TypeOK, UpdateTask, Edit, GroupOK, LogsOK, Phases, Raised
<1>4. SessionsOK'
  BY DEF TypeOK, UpdateTask, Edit, SessionsOK, RowsOK, Partial, Row, Nothing,
     Succs
<1> QED  BY <1>1, <1>2, <1>3, <1>4 DEF TypeOK

LEMMA CreateTaskType ==
  ASSUME TypeOK, NEW t \in Tasks, CreateTask(t)
  PROVE  TypeOK'
<1>1. RowsOK' /\ LogsOK'
  BY DEF TypeOK, CreateTask, Edit, RowsOK, Edges, LogsOK, Raised
<1>2. BudgetsOK'
  BY PipelineAssumption DEF TypeOK, CreateTask, Edit, BudgetsOK
<1>3. GroupOK'
  BY DEF TypeOK, CreateTask, Edit, GroupOK, LogsOK, Phases, Raised
<1>4. SessionsOK'
  BY DEF TypeOK, CreateTask, Edit, SessionsOK, RowsOK, Partial, Row, Nothing, Succs
<1> QED  BY <1>1, <1>2, <1>3, <1>4 DEF TypeOK

LEMMA DeleteTaskType ==
  ASSUME TypeOK, NEW t \in Tasks, DeleteTask(t)
  PROVE  TypeOK'
<1>1. RowsOK' /\ LogsOK'
  <2>1. DOMAIN deps' \subseteq DOMAIN deps /\ \A e \in DOMAIN deps' : deps'[e] = deps[e]
    BY DEF DeleteTask, Among
  <2>2. deps' = [e \in DOMAIN deps' |-> deps'[e]]
    BY DEF DeleteTask, Among
  <2>3. RowsOK'
    BY <2>1, <2>2 DEF TypeOK, DeleteTask, RowsOK, Edges
  <2>4. LogsOK'
    BY DEF TypeOK, DeleteTask, Edit, Touched, LogsOK, Raised
  <2> QED  BY <2>3, <2>4
<1>2. BudgetsOK'
  BY PipelineAssumption DEF TypeOK, DeleteTask, Edit, Touched, BudgetsOK
<1>3. GroupOK'
  BY DEF TypeOK, DeleteTask, Edit, Touched, GroupOK, LogsOK, Phases, Raised
<1>4. SessionsOK'
  <2>1. \A u \in Subtree(t) : u \in Tasks /\ Succs(Edges, u) \subseteq Tasks
    BY DEF Subtree, Downstream, Succs
  <2>2. UNION {{u} \cup Succs(Edges, u) : u \in Subtree(t)} \subseteq Tasks
    BY <2>1
  <2>3. pinned' \subseteq Tasks /\ fresh' \in [Workers -> SUBSET Tasks]
    BY <2>2 DEF TypeOK, DeleteTask, Touched, SessionsOK
  <2> QED  BY <2>3 DEF TypeOK, DeleteTask, Edit, SessionsOK, Partial
<1> QED  BY <1>1, <1>2, <1>3, <1>4 DEF TypeOK

LEMMA AddPredecessorType ==
  ASSUME TypeOK, NEW l \in Links, AddPredecessor(l)
  PROVE  TypeOK'
<1>1. RowsOK' /\ LogsOK'
  BY PipelineAssumption DEF TypeOK, AddPredecessor, Edit, Touched, RowsOK,
     Edges, LogsOK, Raised
<1>2. BudgetsOK'
  BY PipelineAssumption DEF TypeOK, AddPredecessor, Edit, Touched, BudgetsOK
<1>3. GroupOK'
  BY DEF TypeOK, AddPredecessor, Edit, Touched, GroupOK, LogsOK, Phases,
     Raised
<1>4. SessionsOK'
  BY DEF TypeOK, AddPredecessor, Edit, Touched, SessionsOK, RowsOK, Partial,
     Row, Nothing, Succs
<1> QED  BY <1>1, <1>2, <1>3, <1>4 DEF TypeOK

LEMMA RelayType ==
  ASSUME TypeOK, Relay
  PROVE  TypeOK'
<1>1. RowsOK'
  BY DEF TypeOK, Relay, RowsOK, Edges
<1>2. LogsOK'
  BY DEF TypeOK, Relay, LogsOK, Raised
<1>3. BudgetsOK'
  BY PipelineAssumption DEF TypeOK, Relay, BudgetsOK
<1>4. GroupOK'
  BY DEF TypeOK, Relay, GroupOK, LogsOK, Phases, Raised
<1>5. SessionsOK'
  BY DEF TypeOK, Relay, SessionsOK, RowsOK, Partial, Row, Nothing, Succs
<1> QED  BY <1>1, <1>2, <1>3, <1>4, <1>5 DEF TypeOK

LEMMA RelayRestartType ==
  ASSUME TypeOK, RelayRestart
  PROVE  TypeOK'
<1>1. RowsOK'
  BY DEF TypeOK, RelayRestart, Fault, RowsOK, Edges
<1>2. LogsOK'
  BY DEF TypeOK, RelayRestart, Fault, LogsOK, Raised
<1>3. BudgetsOK'
  BY PipelineAssumption DEF TypeOK, RelayRestart, Fault, BudgetsOK
<1>4. GroupOK'
  BY DEF TypeOK, RelayRestart, Fault, GroupOK, LogsOK, Phases, Raised
<1>5. SessionsOK'
  BY DEF TypeOK, RelayRestart, Fault, SessionsOK, RowsOK, Partial, Row,
     Nothing, Succs
<1> QED  BY <1>1, <1>2, <1>3, <1>4, <1>5 DEF TypeOK

LEMMA PollType ==
  ASSUME TypeOK, NEW w \in Workers, Poll(w)
  PROVE  TypeOK'
<1>1. RowsOK' /\ LogsOK' /\ BudgetsOK'
  BY PipelineAssumption DEF TypeOK, Poll, RowsOK, Edges, LogsOK, Raised,
     BudgetsOK
<1>2. GroupOK'
  BY DEF TypeOK, Poll, GroupOK, LogsOK, Phases, Raised
<1>3. SessionsOK'
  BY DEF TypeOK, Poll, SessionsOK, RowsOK, Partial, Row, Nothing, Succs
<1> QED  BY <1>1, <1>2, <1>3 DEF TypeOK

LEMMA SkipType ==
  ASSUME TypeOK, NEW w \in Workers, Skip(w)
  PROVE  TypeOK'
<1>1. RowsOK' /\ LogsOK' /\ BudgetsOK'
  BY PipelineAssumption DEF TypeOK, Skip, RowsOK, Edges, LogsOK, Raised,
     BudgetsOK
<1>2. GroupOK'
  BY DEF TypeOK, Skip, GroupOK, LogsOK, Phases, Raised
<1>3. SessionsOK'
  BY DEF TypeOK, Skip, SessionsOK, RowsOK, Partial, Row, Nothing, Succs
<1> QED  BY <1>1, <1>2, <1>3 DEF TypeOK

LEMMA ReadOriginType ==
  ASSUME TypeOK, NEW w \in Workers, ReadOrigin(w)
  PROVE  TypeOK'
<1>1. RowsOK' /\ LogsOK' /\ BudgetsOK'
  BY PipelineAssumption DEF TypeOK, ReadOrigin, RowsOK, Edges, LogsOK,
     Raised, BudgetsOK
<1>2. GroupOK'
  BY DEF TypeOK, ReadOrigin, GroupOK, LogsOK, Phases, Raised
<1>3. SessionsOK'
  BY DEF TypeOK, ReadOrigin, SessionsOK, RowsOK, Partial, Row, Nothing, Succs
<1> QED  BY <1>1, <1>2, <1>3 DEF TypeOK

LEMMA OriginGoneType ==
  ASSUME TypeOK, NEW w \in Workers, OriginGone(w)
  PROVE  TypeOK'
<1>1. RowsOK' /\ LogsOK' /\ BudgetsOK'
  BY PipelineAssumption DEF TypeOK, OriginGone, RowsOK, Edges, LogsOK,
     Raised, BudgetsOK
<1>2. GroupOK'
  BY DEF TypeOK, OriginGone, GroupOK, LogsOK, Phases, Raised
<1>3. SessionsOK'
  BY DEF TypeOK, OriginGone, SessionsOK, RowsOK, Partial, Row, Nothing, Succs
<1> QED  BY <1>1, <1>2, <1>3 DEF TypeOK

LEMMA ReadTasksType ==
  ASSUME TypeOK, NEW w \in Workers, origin(w) \in DOMAIN seen[w], ReadTasks(w)
  PROVE  TypeOK'
<1>1. SessionsOK'
  <2> DEFINE read(t) == IF t = origin(w) THEN seen[w][t]
                        ELSE [date |-> dates[t], version |-> version[t]]
  <2>1. ASSUME NEW t \in alive PROVE read(t) \in Row
    <3>1. CASE t = origin(w)
      BY <3>1 DEF TypeOK, SessionsOK, Partial
    <3>2. CASE t # origin(w)
      BY <3>2 DEF Row, TypeOK, RowsOK
    <3> QED  BY <3>1, <3>2
  <2> HIDE DEF read
  <2>2. Partial([t \in alive |-> read(t)], Row)
    BY <2>1 DEF TypeOK, RowsOK, Partial
  <2>3. seen' = [seen EXCEPT ![w] = [t \in alive |-> read(t)]]
    BY DEF ReadTasks, read
  <2>4. DOMAIN seen' = Workers /\ \A v \in Workers : Partial(seen'[v], Row)
    BY <2>2, <2>3 DEF TypeOK, SessionsOK
  <2>5. fresh' \in [Workers -> SUBSET Tasks]
    BY DEF ReadTasks, TypeOK, SessionsOK, RowsOK
  <2> QED  BY <2>4, <2>5 DEF ReadTasks, TypeOK, SessionsOK
<1>2. RowsOK' /\ LogsOK'
  BY DEF TypeOK, ReadTasks, RowsOK, Edges, LogsOK, Raised
<1>3. BudgetsOK'
  BY PipelineAssumption DEF TypeOK, ReadTasks, BudgetsOK
<1>4. GroupOK'
  BY DEF TypeOK, ReadTasks, GroupOK, LogsOK, Phases,
     Raised
<1> QED  BY <1>1, <1>2, <1>3, <1>4 DEF TypeOK

LEMMA PlanType ==
  ASSUME TypeOK, NEW w \in Workers, Compute(w)
  PROVE  \E p : /\ Partial(p, TaskNode)
                /\ DOMAIN p \subseteq DOMAIN seen[w]
                /\ plan' = [plan EXCEPT ![w] = p]
<1>1. PICK n \in Results(Known(w), seenDates(w), origin(w)) :
        plan' = [plan EXCEPT ![w] = Changed(n, seenDates(w))]
  BY DEF Compute
<1>2. /\ DOMAIN seen[w] \subseteq Tasks
      /\ \A t \in DOMAIN seen[w] : seen[w][t].date \in TaskNode
  BY DEF TypeOK, SessionsOK, Partial, Row
<1>3. /\ DOMAIN seenDates(w) = DOMAIN seen[w]
      /\ \A t \in DOMAIN seenDates(w) : seenDates(w)[t] \in TaskNode
  BY <1>2 DEF seenDates
<1>4. DOMAIN n = DOMAIN seen[w] /\ \A t \in DOMAIN n : n[t] \in TaskNode
  BY <1>1, <1>3, ResultType
<1>5. /\ Partial(Changed(n, seenDates(w)), TaskNode)
      /\ DOMAIN Changed(n, seenDates(w)) \subseteq DOMAIN seen[w]
  BY <1>2, <1>4 DEF Changed, Partial
<1> QED  BY <1>1, <1>5

LEMMA ComputeType ==
  ASSUME TypeOK, NEW w \in Workers, Compute(w)
  PROVE  TypeOK'
<1>1. SessionsOK'
  BY PlanType DEF Compute, TypeOK, SessionsOK
<1>2. RowsOK' /\ LogsOK'
  BY DEF TypeOK, Compute, RowsOK, Edges, LogsOK, Raised
<1>3. BudgetsOK'
  BY PipelineAssumption DEF TypeOK, Compute, BudgetsOK
<1>4. GroupOK'
  BY DEF TypeOK, Compute, GroupOK, LogsOK, Phases, Raised
<1> QED  BY <1>1, <1>2, <1>3, <1>4 DEF TypeOK

LEMMA OriginVanishedType ==
  ASSUME TypeOK, NEW w \in Workers, OriginVanished(w)
  PROVE  TypeOK'
<1>1. RowsOK' /\ LogsOK' /\ BudgetsOK'
  BY PipelineAssumption DEF TypeOK, OriginVanished, RowsOK, Edges, LogsOK,
     Raised, BudgetsOK
<1>2. GroupOK'
  BY DEF TypeOK, OriginVanished, GroupOK, LogsOK, Phases, Raised
<1>3. SessionsOK'
  BY DEF TypeOK, OriginVanished, SessionsOK, RowsOK, Partial, Row, Nothing,
     Succs
<1> QED  BY <1>1, <1>2, <1>3 DEF TypeOK

LEMMA CascadeRaisesType ==
  ASSUME TypeOK, NEW w \in Workers, CascadeRaises(w)
  PROVE  TypeOK'
<1>1. RowsOK' /\ LogsOK' /\ BudgetsOK'
  BY PipelineAssumption DEF TypeOK, CascadeRaises, RowsOK, Edges, LogsOK,
     Raised, BudgetsOK
<1>2. GroupOK'
  BY DEF TypeOK, CascadeRaises, GroupOK, LogsOK, Phases, Raised
<1>3. SessionsOK'
  BY DEF TypeOK, CascadeRaises, SessionsOK, RowsOK, Partial, Row, Nothing,
     Succs
<1> QED  BY <1>1, <1>2, <1>3 DEF TypeOK

LEMMA EffectType ==
  ASSUME TypeOK, NEW w \in Workers, Effect(w)
  PROVE  RowsOK' /\ LogsOK'
<1>0. phase[w] # "idle" /\ Partial(plan[w], TaskNode)
  BY DEF Effect, TypeOK, SessionsOK
<1>1. RowsOK'
  <2>1. \A t \in DOMAIN plan[w] : plan[w][t] \in TaskNode
    BY <1>0 DEF Partial
  <2>2. dates' \in [Tasks -> TaskNode]
    BY <2>1 DEF Effect, TypeOK, RowsOK
  <2>3. version' \in [Tasks -> Nat]
    BY DEF Effect, TypeOK, RowsOK
  <2> QED  BY <2>2, <2>3 DEF Effect, TypeOK, RowsOK, Edges
<1>2. LogsOK'
  <2>1. event(w) \in 1 .. Len(outbox)
    BY <1>0, Holding
  <2>2. announced' \in Seq(1 .. Len(outbox))
    <3>1. announced \in Seq(1 .. Len(outbox))
      BY DEF TypeOK, LogsOK
    <3>2. Append(announced, event(w)) \in Seq(1 .. Len(outbox))
      BY <2>1, <3>1, SeqAppend
    <3> QED  BY <3>1, <3>2 DEF Effect
  <2> QED  BY <2>1, <2>2 DEF Effect, TypeOK, LogsOK
<1> QED  BY <1>1, <1>2

LEMMA CommitType ==
  ASSUME TypeOK, NEW w \in Workers, Commit(w)
  PROVE  TypeOK'
<1>1. RowsOK' /\ LogsOK'
  BY EffectType DEF Commit
<1>2. BudgetsOK'
  BY PipelineAssumption DEF TypeOK, Commit, Effect, BudgetsOK
<1>3. GroupOK'
  BY DEF TypeOK, Commit, Effect, GroupOK, LogsOK, Phases, Raised
<1>4. SessionsOK'
  BY DEF TypeOK, Commit, Effect, SessionsOK, RowsOK, Partial, Row, Nothing,
     Succs
<1> QED  BY <1>1, <1>2, <1>3, <1>4 DEF TypeOK

LEMMA ConflictType ==
  ASSUME TypeOK, NEW w \in Workers, Conflict(w)
  PROVE  TypeOK'
<1>1. GroupOK'
  <2>1. msg[w] \in 1 .. Len(topic)
    BY Holding DEF Conflict
  <2>2. position' \in 0 .. Len(topic)
    BY <2>1 DEF Conflict, BeforeMessage, TypeOK, GroupOK, LogsOK
  <2> QED  BY <2>2 DEF Conflict, TypeOK, GroupOK, LogsOK, Phases
<1>2. RowsOK' /\ LogsOK'
  BY DEF TypeOK, Conflict, BeforeMessage, RowsOK, Edges,
     LogsOK, Raised
<1>3. BudgetsOK'
  BY PipelineAssumption DEF TypeOK, Conflict, BeforeMessage, BudgetsOK
<1>4. SessionsOK'
  BY DEF TypeOK, Conflict, BeforeMessage, SessionsOK,
     RowsOK, Partial, Row, Nothing, Succs
<1> QED  BY <1>1, <1>2, <1>3, <1>4 DEF TypeOK

LEMMA DuplicateType ==
  ASSUME TypeOK, NEW w \in Workers, Duplicate(w)
  PROVE  TypeOK'
<1>1. RowsOK' /\ LogsOK' /\ BudgetsOK'
  BY PipelineAssumption DEF TypeOK, Duplicate, RowsOK, Edges, LogsOK, Raised,
     BudgetsOK
<1>2. GroupOK'
  BY DEF TypeOK, Duplicate, GroupOK, LogsOK, Phases, Raised
<1>3. SessionsOK'
  BY DEF TypeOK, Duplicate, SessionsOK, RowsOK, Partial, Row, Nothing, Succs
<1> QED  BY <1>1, <1>2, <1>3 DEF TypeOK

LEMMA DatabaseFailsType ==
  ASSUME TypeOK, NEW w \in Workers, DatabaseFails(w)
  PROVE  TypeOK'
<1>1. RowsOK' /\ LogsOK'
  BY DEF TypeOK, DatabaseFails, Fault, RowsOK, Edges,
     LogsOK, Raised
<1>2. BudgetsOK'
  BY PipelineAssumption DEF TypeOK, DatabaseFails, Fault, BudgetsOK
<1>3. GroupOK'
  BY DEF TypeOK, DatabaseFails, Fault, GroupOK, LogsOK, Phases, Raised
<1>4. SessionsOK'
  BY DEF TypeOK, DatabaseFails, Fault, SessionsOK, RowsOK, Partial, Row,
     Nothing, Succs
<1> QED  BY <1>1, <1>2, <1>3, <1>4 DEF TypeOK

LEMMA CommitUnansweredType ==
  ASSUME TypeOK, NEW w \in Workers, CommitUnanswered(w)
  PROVE  TypeOK'
<1>1. RowsOK' /\ LogsOK'
  BY EffectType DEF CommitUnanswered
<1>2. BudgetsOK'
  BY PipelineAssumption DEF TypeOK, CommitUnanswered, Effect, Fault,
     BudgetsOK
<1>3. GroupOK'
  BY DEF TypeOK, CommitUnanswered, Effect, Fault, GroupOK, LogsOK, Phases,
     Raised
<1>4. SessionsOK'
  BY DEF TypeOK, CommitUnanswered, Effect, Fault, SessionsOK, RowsOK,
     Partial, Row, Nothing, Succs
<1> QED  BY <1>1, <1>2, <1>3, <1>4 DEF TypeOK

LEMMA DeadLetterType ==
  ASSUME TypeOK, NEW w \in Workers, DeadLetter(w)
  PROVE  TypeOK'
<1>1. LogsOK'
  <2>1. event(w) \in 1 .. Len(outbox) /\ phase[w] \in Raised
    BY Holding DEF DeadLetter, Raised
  <2>2. [event |-> event(w), why |-> phase[w]] \in [event : 1 .. Len(outbox), why : Raised]
    BY <2>1
  <2>3. dlq' \in Seq([event : 1 .. Len(outbox), why : Raised])
    BY <2>2, SeqAppend DEF DeadLetter, TypeOK, LogsOK
  <2> QED  BY <2>1, <2>3 DEF DeadLetter, TypeOK, LogsOK
<1>2. RowsOK'
  BY DEF TypeOK, DeadLetter, RowsOK, Edges
<1>3. BudgetsOK'
  BY PipelineAssumption DEF TypeOK, DeadLetter, BudgetsOK
<1>4. GroupOK'
  BY DEF TypeOK, DeadLetter, GroupOK, LogsOK, Phases, Raised
<1>5. SessionsOK'
  BY DEF TypeOK, DeadLetter, SessionsOK, RowsOK, Partial, Row, Nothing, Succs
<1> QED  BY <1>1, <1>2, <1>3, <1>4, <1>5 DEF TypeOK

LEMMA AckType ==
  ASSUME TypeOK, NEW w \in Workers, Ack(w)
  PROVE  TypeOK'
<1>1. RowsOK' /\ LogsOK' /\ BudgetsOK'
  BY PipelineAssumption DEF TypeOK, Ack, RowsOK, Edges, LogsOK, Raised,
     BudgetsOK
<1>2. GroupOK'
  BY DEF TypeOK, Ack, GroupOK, LogsOK, Phases, Raised
<1>3. SessionsOK'
  BY DEF TypeOK, Ack, SessionsOK, RowsOK, Partial, Row, Nothing, Succs
<1> QED  BY <1>1, <1>2, <1>3 DEF TypeOK

LEMMA AckLostType ==
  ASSUME TypeOK, NEW w \in Workers, AckLost(w)
  PROVE  TypeOK'
<1>1. RowsOK' /\ LogsOK'
  BY DEF TypeOK, AckLost, Fault, RowsOK, Edges, LogsOK,
     Raised
<1>2. BudgetsOK'
  BY PipelineAssumption DEF TypeOK, AckLost, Fault, BudgetsOK
<1>3. GroupOK'
  BY DEF TypeOK, AckLost, Fault, GroupOK, LogsOK, Phases, Raised
<1>4. SessionsOK'
  BY DEF TypeOK, AckLost, Fault, SessionsOK, RowsOK, Partial, Row, Nothing,
     Succs
<1> QED  BY <1>1, <1>2, <1>3, <1>4 DEF TypeOK

LEMMA CrashType ==
  ASSUME TypeOK, NEW w \in Workers, Crash(w)
  PROVE  TypeOK'
<1>1. RowsOK' /\ LogsOK'
  BY DEF TypeOK, Crash, Fault, Assign, RowsOK, Edges,
     LogsOK, Raised
<1>2. BudgetsOK'
  BY PipelineAssumption DEF TypeOK, Crash, Fault, Assign, BudgetsOK
<1>3. GroupOK'
  BY DEF TypeOK, Crash, Fault, Assign, GroupOK, LogsOK, Phases, Raised
<1>4. SessionsOK'
  BY DEF TypeOK, Crash, Fault, Assign, SessionsOK, RowsOK, Partial, Row,
     Nothing, Succs
<1> QED  BY <1>1, <1>2, <1>3, <1>4 DEF TypeOK

LEMMA RebalanceType ==
  ASSUME TypeOK, NEW w \in Workers, Rebalance(w)
  PROVE  TypeOK'
<1>1. RowsOK' /\ LogsOK'
  BY DEF TypeOK, Rebalance, Fault, Assign, RowsOK, Edges,
     LogsOK, Raised
<1>2. BudgetsOK'
  BY PipelineAssumption DEF TypeOK, Rebalance, Fault, Assign, BudgetsOK
<1>3. GroupOK'
  BY DEF TypeOK, Rebalance, Fault, Assign, GroupOK, LogsOK, Phases, Raised
<1>4. SessionsOK'
  BY DEF TypeOK, Rebalance, Fault, Assign, SessionsOK, RowsOK, Partial, Row,
     Nothing, Succs
<1> QED  BY <1>1, <1>2, <1>3, <1>4 DEF TypeOK

LEMMA InitType == Init => TypeOK
<1> SUFFICES ASSUME Init PROVE TypeOK
  OBVIOUS
<1>1. RowsOK
  BY GraphsAssumption, SchedulesAssumption DEF Init, RowsOK, Edges
<1>2. LogsOK /\ GroupOK
  BY DEF Init, LogsOK, GroupOK, Phases
<1>3. SessionsOK
  BY DEF Init, SessionsOK, Partial, Nothing, Preds
<1>4. BudgetsOK
  BY PipelineAssumption DEF Init, BudgetsOK
<1> QED  BY <1>1, <1>2, <1>3, <1>4 DEF TypeOK

-----------------------------------------------------------------------------
(* What is on the topic, what has been fetched and what is decided         *)

(* Every id the relay has passed is on the topic.                          *)
RelayedArrived == \A f \in 1 .. relayed : \E j \in DOMAIN topic : topic[j] = f

(* However often the relay restarts, an id comes first after all the       *)
(* smaller ones.                                                           *)
FirstInOrder ==
  \A i \in DOMAIN topic : \A f \in 1 .. topic[i] - 1 :
    \E j \in 1 .. i - 1 : topic[j] = f

(* All messages before the one a worker holds are decided, and that one is *)
(* too when the worker is about to acknowledge it.                         *)
HeldDue ==
  \A w \in Workers :
    phase[w] # "idle" => \A i \in 1 .. msg[w] - 1 : Decided(topic[i])
HandledDecided == \A w \in Workers : phase[w] = "handled" => Decided(event(w))

(* All messages the partition's owner has fetched are decided, but for the *)
(* one it is working on.                                                   *)
FetchedDecided ==
  \A i \in 1 .. position :
    Decided(topic[i]) \/ (phase[owner] # "idle" /\ i = msg[owner])

(* Each move has written one outbox row.                                   *)
RowPerMove == Len(outbox) = moves

Order ==
  /\ RelayedArrived
  /\ FirstInOrder
  /\ HeldDue
  /\ HandledDecided
  /\ FetchedDecided
  /\ NothingSkipped
  /\ RowPerMove

(* The logs only grow, and so do the decisions.                            *)
Grows ==
  /\ DOMAIN outbox \subseteq DOMAIN outbox' /\ \A i \in DOMAIN outbox : outbox'[i] = outbox[i]
  /\ DOMAIN topic \subseteq DOMAIN topic' /\ \A i \in DOMAIN topic : topic'[i] = topic[i]
  /\ processed \subseteq processed'
  /\ abandoned \subseteq abandoned'

(* What writes the logs: a move, the relay, a worker's commit and its      *)
(* dead-lettering.                                                         *)
LEMMA LogWriters ==
  ASSUME [Next]_vars
  PROVE  \/ UNCHANGED <<outbox, processed, announced, topic, dlq>>
         \/ \E t \in Tasks : Record(t)
         \/ Relay
         \/ \E w \in Workers : Effect(w) /\ UNCHANGED dlq
         \/ \E w \in Workers : DeadLetter(w)
<1>1. ASSUME NEW t \in Tasks, CreateTask(t) \/ UpdateTask(t) \/ DeleteTask(t)
      PROVE  UNCHANGED <<outbox, processed, announced, topic, dlq>>
  BY <1>1 DEF CreateTask, UpdateTask, DeleteTask, Edit
<1>2. ASSUME NEW l \in Links, AddPredecessor(l)
      PROVE  UNCHANGED <<outbox, processed, announced, topic, dlq>>
  BY <1>2 DEF AddPredecessor, Edit
<1>3. ASSUME NEW w \in Workers, Work(w) \/ Fail(w)
      PROVE  \/ UNCHANGED <<outbox, processed, announced, topic, dlq>>
             \/ Effect(w) /\ UNCHANGED dlq
             \/ DeadLetter(w)
  BY <1>3 DEF Work, Fail, Poll, Skip, ReadOrigin, OriginGone, ReadTasks, Compute,
              OriginVanished, CascadeRaises, Commit, Conflict, Duplicate, DatabaseFails,
              CommitUnanswered, Ack, AckLost, Crash, Rebalance, Effect
<1>4. RelayRestart \/ Drained \/ UNCHANGED vars =>
        UNCHANGED <<outbox, processed, announced, topic, dlq>>
  BY DEF RelayRestart, Drained, vars
<1> QED  BY <1>1, <1>2, <1>3, <1>4 DEF Next, Human, RescheduleTask, ConfirmTask

(* A record added to the dead-letter topic abandons its event.             *)
LEMMA DeadLetterAbandons ==
  ASSUME TypeOK, NEW w \in Workers, DeadLetter(w)
  PROVE  abandoned' = abandoned \cup {event(w)}
<1> DEFINE r == [event |-> event(w), why |-> phase[w]]
<1>1. dlq' = Append(dlq, r)
  BY DEF DeadLetter
<1>2. /\ DOMAIN dlq' = DOMAIN dlq \cup {Len(dlq) + 1}
      /\ dlq'[Len(dlq) + 1] = r /\ \A i \in DOMAIN dlq : dlq'[i] = dlq[i]
  BY <1>1 DEF TypeOK, LogsOK
<1>3. r.event = event(w)
  OBVIOUS
<1> HIDE DEF r
<1> QED  BY <1>2, <1>3 DEF abandoned

LEMMA Growth ==
  ASSUME TypeOK, [Next]_vars
  PROVE  Grows
<1>1. CASE UNCHANGED <<outbox, processed, topic, dlq>>
  BY <1>1 DEF Grows, abandoned
<1>2. ASSUME NEW t \in Tasks, Record(t)
      PROVE  Grows
  BY <1>2 DEF Record, Grows, abandoned, TypeOK, LogsOK
<1>3. CASE Relay
  BY <1>3 DEF Relay, Grows, abandoned, TypeOK, LogsOK
<1>4. ASSUME NEW w \in Workers, Effect(w), UNCHANGED dlq
      PROVE  Grows
  BY <1>4 DEF Effect, Grows, abandoned, TypeOK, LogsOK
<1>5. ASSUME NEW w \in Workers, DeadLetter(w)
      PROVE  Grows
  BY <1>5, DeadLetterAbandons DEF DeadLetter, Grows
<1> QED  BY <1>1, <1>2, <1>3, <1>4, <1>5, LogWriters

(* Steps that leave the logs, the offsets and the messages held alone and   *)
(* acknowledge nothing.                                                    *)
LEMMA StillAtWork ==
  ASSUME TypeOK, Order, UNCHANGED <<outbox, processed, relayed, kafka, msg, moves>>,
         \A w \in Workers : /\ phase'[w] = "idle" <=> phase[w] = "idle"
                            /\ phase'[w] = "handled" => phase[w] = "handled"
  PROVE  Order'
<1>1. abandoned' = abandoned
  BY DEF abandoned
<1>2. RelayedArrived' /\ FirstInOrder' /\ RowPerMove'
  BY DEF Order, RelayedArrived, FirstInOrder, RowPerMove
<1>3. HeldDue' /\ HandledDecided'
  BY <1>1 DEF Order, HeldDue, HandledDecided, Decided, event
<1>4. FetchedDecided' /\ NothingSkipped'
  BY <1>1 DEF Order, FetchedDecided, NothingSkipped, Decided, TypeOK, GroupOK
<1> QED  BY <1>2, <1>3, <1>4 DEF Order

LEMMA RecordOrder ==
  ASSUME TypeOK, Order, NEW t \in Tasks, Record(t), Grows
  PROVE  Order'
<1>1. RelayedArrived' /\ RowPerMove'
  <2>1. RelayedArrived'
    BY DEF Order, RelayedArrived, Record
  <2>2. RowPerMove'
    BY DEF TypeOK, LogsOK, Order, RowPerMove, Record
  <2> QED  BY <2>1, <2>2
<1>2. FirstInOrder'
  BY DEF TypeOK, LogsOK, Order, Grows, FirstInOrder, Record
<1>3. HeldDue'
  BY DEF TypeOK, LogsOK, GroupOK, Raised, Order, Grows, HeldDue, Decided,
     Record
<1>4. HandledDecided'
  BY DEF TypeOK, LogsOK, GroupOK, Raised, Order, Grows, HandledDecided,
     Decided, event, Record
<1>5. FetchedDecided'
  BY DEF TypeOK, LogsOK, GroupOK, Raised, Order, Grows, FetchedDecided,
     HeldDue, HandledDecided, NothingSkipped, Decided, event, Record
<1>6. NothingSkipped'
  BY DEF TypeOK, LogsOK, GroupOK, Raised, Order, Grows, NothingSkipped,
     HeldDue, HandledDecided, Decided, event, Record
<1> QED  BY <1>1, <1>2, <1>3, <1>4, <1>5, <1>6 DEF Order

LEMMA RelayOrder ==
  ASSUME TypeOK, Order, Relay, Grows
  PROVE  Order'
<1>0. /\ Len(topic') = Len(topic) + 1
      /\ topic'[Len(topic')] = relayed + 1
      /\ \A i \in 1 .. Len(topic) : topic'[i] = topic[i]
      /\ relayed \in Nat /\ Len(topic) \in Nat /\ relayed' = relayed + 1
  BY DEF TypeOK, LogsOK, Relay
<1>1. RelayedArrived' /\ RowPerMove'
  <2>1. RelayedArrived'
    <3> SUFFICES ASSUME NEW f \in 1 .. relayed'
                 PROVE  \E j \in DOMAIN topic' : topic'[j] = f
      BY DEF RelayedArrived
    <3>1. CASE f = relayed + 1
      BY <1>0, <3>1, Len(topic') \in DOMAIN topic' DEF TypeOK, LogsOK, Relay
    <3>2. CASE f # relayed + 1
      <4>1. PICK j \in DOMAIN topic : topic[j] = f
        BY <1>0, <3>2 DEF Order, RelayedArrived
      <4> QED  BY <4>1 DEF Grows
    <3> QED  BY <3>1, <3>2
  <2> QED  BY <2>1 DEF Order, RowPerMove, Relay
<1>2. FirstInOrder'
  <2> SUFFICES ASSUME NEW i \in DOMAIN topic', NEW f \in 1 .. topic'[i] - 1
               PROVE  \E j \in 1 .. i - 1 : topic'[j] = f
    BY DEF FirstInOrder
  <2>1. CASE i \in DOMAIN topic
    <3>1. PICK j \in 1 .. i - 1 : topic[j] = f
      BY <1>0, <2>1 DEF Order, FirstInOrder, Grows
    <3>2. j \in 1 .. Len(topic) /\ i - 1 \in Nat
      BY <1>0, <2>1, <3>1 DEF TypeOK, LogsOK
    <3> QED  BY <1>0, <3>1, <3>2
  <2>2. CASE i \notin DOMAIN topic
    <3>1. i = Len(topic) + 1 /\ topic'[i] = relayed + 1
      BY <1>0, <2>2 DEF TypeOK, LogsOK, Relay
    <3>2. f \in 1 .. relayed
      BY <1>0, <3>1
    <3>3. PICK j \in DOMAIN topic : topic[j] = f
      BY <3>2 DEF Order, RelayedArrived
    <3>4. j \in 1 .. Len(topic)
      BY <3>3 DEF TypeOK, LogsOK
    <3> QED  BY <1>0, <3>1, <3>3, <3>4
  <2> QED  BY <2>1, <2>2
<1>3. HeldDue'
  <2> SUFFICES ASSUME NEW w \in Workers, phase[w] # "idle", NEW i \in 1 .. msg[w] - 1
               PROVE  Decided(topic[i])'
    BY DEF HeldDue, Relay
  <2>1. i \in 1 .. Len(topic) /\ Decided(topic[i])
    BY DEF TypeOK, GroupOK, LogsOK, Order, HeldDue
  <2> QED  BY <1>0, <2>1 DEF Decided, Grows
<1>4. HandledDecided'
  BY DEF TypeOK, LogsOK, GroupOK, Raised, Order, Grows, HandledDecided,
     Decided, event, Relay
<1>5. FetchedDecided'
  BY DEF TypeOK, LogsOK, GroupOK, Raised, Order, Grows, FetchedDecided,
     HeldDue, HandledDecided, NothingSkipped, Decided, event, Relay
<1>6. NothingSkipped'
  BY DEF TypeOK, LogsOK, GroupOK, Raised, Order, Grows, NothingSkipped,
     HeldDue, HandledDecided, Decided, event, Relay
<1> QED  BY <1>1, <1>2, <1>3, <1>4, <1>5, <1>6 DEF Order

LEMMA RelayRestartOrder ==
  ASSUME TypeOK, Order, RelayRestart, Grows
  PROVE  Order'
<1>1. RelayedArrived' /\ RowPerMove'
  BY DEF TypeOK, LogsOK, Order, Grows, RelayedArrived, RowPerMove,
     RelayRestart, Fault
<1>2. FirstInOrder'
  BY DEF TypeOK, LogsOK, Order, Grows, FirstInOrder, RelayRestart, Fault
<1>3. HeldDue'
  BY DEF TypeOK, LogsOK, GroupOK, Raised, Order, Grows, HeldDue, Decided,
     RelayRestart, Fault
<1>4. HandledDecided'
  BY DEF TypeOK, LogsOK, GroupOK, Raised, Order, Grows, HandledDecided,
     Decided, event, RelayRestart, Fault
<1>5. FetchedDecided'
  BY DEF TypeOK, LogsOK, GroupOK, Raised, Order, Grows, FetchedDecided,
     HeldDue, HandledDecided, NothingSkipped, Decided, event, RelayRestart,
     Fault
<1>6. NothingSkipped'
  BY DEF TypeOK, LogsOK, GroupOK, Raised, Order, Grows, NothingSkipped,
     HeldDue, HandledDecided, Decided, event, RelayRestart, Fault
<1> QED  BY <1>1, <1>2, <1>3, <1>4, <1>5, <1>6 DEF Order

LEMMA PollOrder ==
  ASSUME TypeOK, Order, NEW w \in Workers, Poll(w), Grows
  PROVE  Order'
<1>1. RelayedArrived' /\ RowPerMove'
  BY DEF TypeOK, LogsOK, Order, Grows, RelayedArrived, RowPerMove, Poll
<1>2. FirstInOrder'
  BY DEF TypeOK, LogsOK, Order, Grows, FirstInOrder, Poll
<1>3. HeldDue'
  <2> SUFFICES ASSUME NEW v \in Workers, phase'[v] # "idle", NEW i \in 1 .. msg'[v] - 1
               PROVE  Decided(topic[i])'
    BY DEF HeldDue, Poll
  <2>1. Decided(topic[i]) => Decided(topic[i])'
    BY DEF Decided, Grows, Poll
  <2>2. CASE v = w
    <3>1. i \in 1 .. position
      BY <2>2 DEF Poll, TypeOK, GroupOK
    <3> QED  BY <2>1, <3>1 DEF Poll, Order, FetchedDecided
  <2>3. CASE v # w
    BY <2>1, <2>3 DEF Poll, Order, HeldDue, TypeOK, GroupOK
  <2> QED  BY <2>2, <2>3
<1>4. HandledDecided'
  BY DEF TypeOK, LogsOK, GroupOK, Raised, Order, Grows, HandledDecided,
     Decided, event, Poll
<1>5. FetchedDecided'
  BY DEF TypeOK, LogsOK, GroupOK, Raised, Order, Grows, FetchedDecided,
     HeldDue, HandledDecided, NothingSkipped, Decided, event, Poll
<1>6. NothingSkipped'
  BY DEF TypeOK, LogsOK, GroupOK, Raised, Order, Grows, NothingSkipped,
     HeldDue, HandledDecided, Decided, event, Poll
<1> QED  BY <1>1, <1>2, <1>3, <1>4, <1>5, <1>6 DEF Order

LEMMA SkipOrder ==
  ASSUME TypeOK, Order, NEW w \in Workers, Skip(w), Grows
  PROVE  Order'
<1>1. RelayedArrived' /\ RowPerMove'
  BY DEF TypeOK, LogsOK, Order, Grows, RelayedArrived, RowPerMove, Skip
<1>2. FirstInOrder'
  BY DEF TypeOK, LogsOK, Order, Grows, FirstInOrder, Skip
<1>3. HeldDue'
  BY DEF TypeOK, LogsOK, GroupOK, Raised, Order, Grows, HeldDue, Decided,
     Skip
<1>4. HandledDecided'
  BY DEF TypeOK, LogsOK, GroupOK, Raised, Order, Grows, HandledDecided,
     Decided, event, Skip
<1>5. FetchedDecided'
  BY DEF TypeOK, LogsOK, GroupOK, Raised, Order, Grows, FetchedDecided,
     HeldDue, HandledDecided, NothingSkipped, Decided, event, Skip
<1>6. NothingSkipped'
  BY DEF TypeOK, LogsOK, GroupOK, Raised, Order, Grows, NothingSkipped,
     HeldDue, HandledDecided, Decided, event, Skip
<1> QED  BY <1>1, <1>2, <1>3, <1>4, <1>5, <1>6 DEF Order

LEMMA CommitOrder ==
  ASSUME TypeOK, Order, NEW w \in Workers, Commit(w), Grows
  PROVE  Order'
<1>1. RelayedArrived' /\ RowPerMove'
  BY DEF TypeOK, LogsOK, Order, Grows, RelayedArrived, RowPerMove, Commit,
     Effect
<1>2. FirstInOrder'
  BY DEF TypeOK, LogsOK, Order, Grows, FirstInOrder, Commit, Effect
<1>3. HeldDue'
  BY DEF TypeOK, LogsOK, GroupOK, Raised, Order, Grows, HeldDue, Decided,
     Commit, Effect
<1>4. HandledDecided'
  BY DEF TypeOK, LogsOK, GroupOK, Raised, Order, Grows, HandledDecided,
     Decided, event, Commit, Effect
<1>5. FetchedDecided'
  BY DEF TypeOK, LogsOK, GroupOK, Raised, Order, Grows, FetchedDecided,
     HeldDue, HandledDecided, NothingSkipped, Decided, event, Commit, Effect
<1>6. NothingSkipped'
  BY DEF TypeOK, LogsOK, GroupOK, Raised, Order, Grows, NothingSkipped,
     HeldDue, HandledDecided, Decided, event, Commit, Effect
<1> QED  BY <1>1, <1>2, <1>3, <1>4, <1>5, <1>6 DEF Order

LEMMA ConflictOrder ==
  ASSUME TypeOK, Order, NEW w \in Workers, Conflict(w), Grows
  PROVE  Order'
<1>1. RelayedArrived' /\ RowPerMove'
  BY DEF TypeOK, LogsOK, Order, Grows, RelayedArrived, RowPerMove, Conflict,
     BeforeMessage
<1>2. FirstInOrder'
  BY DEF TypeOK, LogsOK, Order, Grows, FirstInOrder, Conflict, BeforeMessage
<1>3. HeldDue'
  BY DEF TypeOK, LogsOK, GroupOK, Raised, Order, Grows, HeldDue, Decided,
     Conflict, BeforeMessage
<1>4. HandledDecided'
  BY DEF TypeOK, LogsOK, GroupOK, Raised, Order, Grows, HandledDecided,
     Decided, event, Conflict, BeforeMessage
<1>5. FetchedDecided'
  BY DEF TypeOK, LogsOK, GroupOK, Raised, Order, Grows, FetchedDecided,
     HeldDue, HandledDecided, NothingSkipped, Decided, event, Conflict,
     BeforeMessage
<1>6. NothingSkipped'
  BY DEF TypeOK, LogsOK, GroupOK, Raised, Order, Grows, NothingSkipped,
     HeldDue, HandledDecided, Decided, event, Conflict, BeforeMessage
<1> QED  BY <1>1, <1>2, <1>3, <1>4, <1>5, <1>6 DEF Order

LEMMA CommitUnansweredOrder ==
  ASSUME TypeOK, Order, NEW w \in Workers, CommitUnanswered(w), Grows
  PROVE  Order'
<1>1. RelayedArrived' /\ RowPerMove'
  BY DEF TypeOK, LogsOK, Order, Grows, RelayedArrived, RowPerMove,
     CommitUnanswered, Effect, Fault
<1>2. FirstInOrder'
  BY DEF TypeOK, LogsOK, Order, Grows, FirstInOrder, CommitUnanswered,
     Effect, Fault
<1>3. HeldDue'
  BY DEF TypeOK, LogsOK, GroupOK, Raised, Order, Grows, HeldDue, Decided,
     CommitUnanswered, Effect, Fault
<1>4. HandledDecided'
  BY DEF TypeOK, LogsOK, GroupOK, Raised, Order, Grows, HandledDecided,
     Decided, event, CommitUnanswered, Effect, Fault
<1>5. FetchedDecided'
  BY DEF TypeOK, LogsOK, GroupOK, Raised, Order, Grows, FetchedDecided,
     HeldDue, HandledDecided, NothingSkipped, Decided, event,
     CommitUnanswered, Effect, Fault
<1>6. NothingSkipped'
  BY DEF TypeOK, LogsOK, GroupOK, Raised, Order, Grows, NothingSkipped,
     HeldDue, HandledDecided, Decided, event, CommitUnanswered, Effect, Fault
<1> QED  BY <1>1, <1>2, <1>3, <1>4, <1>5, <1>6 DEF Order

LEMMA DeadLetterOrder ==
  ASSUME TypeOK, Order, NEW w \in Workers, DeadLetter(w), Grows
  PROVE  Order'
<1>1. RelayedArrived' /\ RowPerMove'
  BY DEF TypeOK, LogsOK, Order, Grows, RelayedArrived, RowPerMove, DeadLetter
<1>2. FirstInOrder'
  BY DEF TypeOK, LogsOK, Order, Grows, FirstInOrder, DeadLetter
<1>3. HeldDue'
  BY DEF TypeOK, LogsOK, GroupOK, Raised, Order, Grows, HeldDue, Decided,
     DeadLetter
<1>4. HandledDecided'
  <2> SUFFICES ASSUME NEW v \in Workers, phase'[v] = "handled"
               PROVE  Decided(event(v))'
    BY DEF HandledDecided
  <2>1. event(v)' = event(v)
    BY DEF event, DeadLetter
  <2>2. CASE v = w
    BY <2>1, <2>2, DeadLetterAbandons DEF Decided
  <2>3. CASE v # w
    BY <2>1, <2>3 DEF DeadLetter, Order, HandledDecided, TypeOK, GroupOK, Decided, Grows
  <2> QED  BY <2>2, <2>3
<1>5. FetchedDecided'
  BY DEF TypeOK, LogsOK, GroupOK, Raised, Order, Grows, FetchedDecided,
     HeldDue, HandledDecided, NothingSkipped, Decided, event, DeadLetter
<1>6. NothingSkipped'
  BY DEF TypeOK, LogsOK, GroupOK, Raised, Order, Grows, NothingSkipped,
     HeldDue, HandledDecided, Decided, event, DeadLetter
<1> QED  BY <1>1, <1>2, <1>3, <1>4, <1>5, <1>6 DEF Order

LEMMA AckOrder ==
  ASSUME TypeOK, Order, NEW w \in Workers, Ack(w), Grows
  PROVE  Order'
<1>1. RelayedArrived' /\ RowPerMove'
  BY DEF TypeOK, LogsOK, Order, Grows, RelayedArrived, RowPerMove, Ack
<1>2. FirstInOrder'
  BY DEF TypeOK, LogsOK, Order, Grows, FirstInOrder, Ack
<1>3. HeldDue'
  BY DEF TypeOK, LogsOK, GroupOK, Raised, Order, Grows, HeldDue, Decided, Ack
<1>4. HandledDecided'
  BY DEF TypeOK, LogsOK, GroupOK, Raised, Order, Grows, HandledDecided,
     Decided, event, Ack
<1>5. FetchedDecided'
  BY DEF TypeOK, LogsOK, GroupOK, Raised, Order, Grows, FetchedDecided,
     HeldDue, HandledDecided, NothingSkipped, Decided, event, Ack
<1>6. NothingSkipped'
  <2> SUFFICES ASSUME NEW i \in 1 .. committed'
               PROVE  Decided(topic[i])'
    BY DEF NothingSkipped, Ack
  <2>1. Decided(topic[i]) => Decided(topic[i])'
    BY DEF Decided, Grows, Ack
  <2>2. CASE committed' = committed
    BY <2>1, <2>2 DEF Order, NothingSkipped
  <2>3. CASE committed' = msg[w]
    <3>1. CASE i = msg[w]
      BY <2>1, <3>1 DEF Ack, Order, HandledDecided, event
    <3>2. CASE i # msg[w]
      BY <2>1, <2>3, <3>2 DEF Ack, Order, HeldDue, TypeOK, GroupOK
    <3> QED  BY <3>1, <3>2
  <2> QED  BY <2>2, <2>3 DEF Ack
<1> QED  BY <1>1, <1>2, <1>3, <1>4, <1>5, <1>6 DEF Order

LEMMA AckLostOrder ==
  ASSUME TypeOK, Order, NEW w \in Workers, AckLost(w), Grows
  PROVE  Order'
<1>1. RelayedArrived' /\ RowPerMove'
  BY DEF TypeOK, LogsOK, Order, Grows, RelayedArrived, RowPerMove, AckLost,
     Fault
<1>2. FirstInOrder'
  BY DEF TypeOK, LogsOK, Order, Grows, FirstInOrder, AckLost, Fault
<1>3. HeldDue'
  BY DEF TypeOK, LogsOK, GroupOK, Raised, Order, Grows, HeldDue, Decided,
     AckLost, Fault
<1>4. HandledDecided'
  BY DEF TypeOK, LogsOK, GroupOK, Raised, Order, Grows, HandledDecided,
     Decided, event, AckLost, Fault
<1>5. FetchedDecided'
  BY DEF TypeOK, LogsOK, GroupOK, Raised, Order, Grows, FetchedDecided,
     HeldDue, HandledDecided, NothingSkipped, Decided, event, AckLost, Fault
<1>6. NothingSkipped'
  BY DEF TypeOK, LogsOK, GroupOK, Raised, Order, Grows, NothingSkipped,
     HeldDue, HandledDecided, Decided, event, AckLost, Fault
<1> QED  BY <1>1, <1>2, <1>3, <1>4, <1>5, <1>6 DEF Order

LEMMA CrashOrder ==
  ASSUME TypeOK, Order, NEW w \in Workers, Crash(w), Grows
  PROVE  Order'
<1>1. RelayedArrived' /\ RowPerMove'
  BY DEF TypeOK, LogsOK, Order, Grows, RelayedArrived, RowPerMove, Crash,
     Fault, Assign
<1>2. FirstInOrder'
  BY DEF TypeOK, LogsOK, Order, Grows, FirstInOrder, Crash, Fault, Assign
<1>3. HeldDue'
  BY DEF TypeOK, LogsOK, GroupOK, Raised, Order, Grows, HeldDue, Decided,
     Crash, Fault, Assign
<1>4. HandledDecided'
  BY DEF TypeOK, LogsOK, GroupOK, Raised, Order, Grows, HandledDecided,
     Decided, event, Crash, Fault, Assign
<1>5. FetchedDecided'
  BY DEF TypeOK, LogsOK, GroupOK, Raised, Order, Grows, FetchedDecided,
     HeldDue, HandledDecided, NothingSkipped, Decided, event, Crash, Fault,
     Assign
<1>6. NothingSkipped'
  BY DEF TypeOK, LogsOK, GroupOK, Raised, Order, Grows, NothingSkipped,
     HeldDue, HandledDecided, Decided, event, Crash, Fault, Assign
<1> QED  BY <1>1, <1>2, <1>3, <1>4, <1>5, <1>6 DEF Order

LEMMA RebalanceOrder ==
  ASSUME TypeOK, Order, NEW w \in Workers, Rebalance(w), Grows
  PROVE  Order'
<1>1. RelayedArrived' /\ RowPerMove'
  BY DEF TypeOK, LogsOK, Order, Grows, RelayedArrived, RowPerMove, Rebalance,
     Fault, Assign
<1>2. FirstInOrder'
  BY DEF TypeOK, LogsOK, Order, Grows, FirstInOrder, Rebalance, Fault, Assign
<1>3. HeldDue'
  BY DEF TypeOK, LogsOK, GroupOK, Raised, Order, Grows, HeldDue, Decided,
     Rebalance, Fault, Assign
<1>4. HandledDecided'
  BY DEF TypeOK, LogsOK, GroupOK, Raised, Order, Grows, HandledDecided,
     Decided, event, Rebalance, Fault, Assign
<1>5. FetchedDecided'
  BY DEF TypeOK, LogsOK, GroupOK, Raised, Order, Grows, FetchedDecided,
     HeldDue, HandledDecided, NothingSkipped, Decided, event, Rebalance,
     Fault, Assign
<1>6. NothingSkipped'
  BY DEF TypeOK, LogsOK, GroupOK, Raised, Order, Grows, NothingSkipped,
     HeldDue, HandledDecided, Decided, event, Rebalance, Fault, Assign
<1> QED  BY <1>1, <1>2, <1>3, <1>4, <1>5, <1>6 DEF Order

-----------------------------------------------------------------------------
(* What the workers have read                                              *)

(* A worker that has begun has read its origin.                            *)
BegunRead == \A w \in Workers : phase[w] = "begun" => origin(w) \in DOMAIN seen[w]

(* A row whose version is the one a worker has read has the dates it has   *)
(* read.                                                                   *)
ReadsVersioned ==
  \A w \in Workers : \A t \in DOMAIN seen[w] :
    /\ seen[w][t].version <= version[t]
    /\ seen[w][t].version = version[t] => seen[w][t].date = dates[t]

(* A worker plans to move only tasks it has read, and has a plan only when *)
(* it has computed one.                                                    *)
PlansRead ==
  \A w \in Workers :
    /\ DOMAIN plan[w] \subseteq DOMAIN seen[w]
    /\ phase[w] # "computed" => DOMAIN plan[w] = {}

Reading == BegunRead /\ ReadsVersioned /\ PlansRead

(* Steps that leave the rows and the sessions' data alone.                 *)
LEMMA NothingRead ==
  ASSUME TypeOK, Reading, Grows, UNCHANGED <<dates, version, seen, plan>>,
         \A w \in Workers :
           /\ phase'[w] = "begun" => phase[w] = "begun" /\ msg'[w] = msg[w]
           /\ phase[w] = "computed" => phase'[w] = "computed"
  PROVE  Reading'
<1>1. BegunRead'
  <2> SUFFICES ASSUME NEW w \in Workers, phase'[w] = "begun"
               PROVE  origin(w)' \in DOMAIN seen[w]
    BY DEF BegunRead
  <2>1. msg'[w] = msg[w] /\ origin(w) \in DOMAIN seen[w] /\ phase[w] # "idle"
    BY DEF Reading, BegunRead
  <2>2. msg[w] \in 1 .. Len(topic) /\ event(w) \in 1 .. Len(outbox)
    BY <2>1, Holding
  <2>3. msg[w] \in DOMAIN topic /\ event(w) \in DOMAIN outbox
    BY <2>2 DEF TypeOK, LogsOK
  <2> QED  BY <2>1, <2>3 DEF Grows, event, origin
<1>2. ReadsVersioned' /\ PlansRead'
  BY DEF Reading, ReadsVersioned, PlansRead
<1> QED  BY <1>1, <1>2 DEF Reading

(* Steps at which a worker drops its session.                              *)
LEMMA SessionDropped ==
  ASSUME TypeOK, Reading, NEW w \in Workers, NEW p \in Phases \ {"begun"}, Reset(w, p),
         UNCHANGED <<dates, version, outbox, topic>>,
         \A v \in Workers \ {w} : msg'[v] = msg[v]
  PROVE  Reading'
<1>1. BegunRead'
  BY DEF TypeOK, GroupOK, SessionsOK, Reading, BegunRead, event, origin
<1>2. ReadsVersioned' /\ PlansRead'
  BY DEF TypeOK, GroupOK, SessionsOK, Reading, ReadsVersioned, PlansRead, Nothing
<1> QED  BY <1>1, <1>2 DEF Reading

LEMMA RescheduleTaskReading ==
  ASSUME TypeOK, Reading, NEW t \in Tasks, NEW d \in Moves, RescheduleTask(t, d)
  PROVE  Reading'
<1>1. BegunRead'
  BY DEF TypeOK, LogsOK, GroupOK, Phases, Raised, Reading, BegunRead,
     SessionsOK, event, origin, Record, RescheduleTask,
     Touched
<1>2. ReadsVersioned'
  BY DEF TypeOK, RowsOK, GroupOK, SessionsOK, Partial, Row, Nothing, Raised,
     Reading, ReadsVersioned, PlansRead, Record, RescheduleTask,
     Touched
<1>3. PlansRead'
  BY DEF TypeOK, RowsOK, GroupOK, SessionsOK, Partial, Row, Nothing, Raised,
     Reading, PlansRead, Record, RescheduleTask,
     Touched
<1> QED  BY <1>1, <1>2, <1>3 DEF Reading

LEMMA CreateTaskReading ==
  ASSUME TypeOK, Reading, NEW t \in Tasks, CreateTask(t)
  PROVE  Reading'
<1>1. BegunRead'
  BY DEF TypeOK, LogsOK, GroupOK, Phases, Raised, Reading, BegunRead, SessionsOK, event,
         origin, CreateTask, Edit
<1>2. ReadsVersioned'
  BY DEF TypeOK, RowsOK, SessionsOK, Partial, Row, Reading, ReadsVersioned, CreateTask, Edit
<1>3. PlansRead'
  BY DEF Reading, PlansRead, CreateTask, Edit
<1> QED  BY <1>1, <1>2, <1>3 DEF Reading

LEMMA UpdateTaskReading ==
  ASSUME TypeOK, Reading, NEW t \in Tasks, UpdateTask(t)
  PROVE  Reading'
<1>1. BegunRead'
  BY DEF TypeOK, LogsOK, GroupOK, Phases, Raised, Reading, BegunRead,
     SessionsOK, event, origin, UpdateTask, Edit
<1>2. ReadsVersioned'
  BY DEF TypeOK, RowsOK, GroupOK, SessionsOK, Partial, Row, Nothing, Raised,
     Reading, ReadsVersioned, PlansRead, UpdateTask, Edit
<1>3. PlansRead'
  BY DEF TypeOK, RowsOK, GroupOK, SessionsOK, Partial, Row, Nothing, Raised,
     Reading, PlansRead, UpdateTask, Edit
<1> QED  BY <1>1, <1>2, <1>3 DEF Reading

LEMMA ReadOriginReading ==
  ASSUME TypeOK, Reading, NEW w \in Workers, ReadOrigin(w)
  PROVE  Reading'
<1>1. BegunRead'
  BY DEF TypeOK, LogsOK, GroupOK, Phases, Raised, Reading, BegunRead,
     SessionsOK, event, origin, ReadOrigin
<1>2. ReadsVersioned'
  BY DEF TypeOK, RowsOK, GroupOK, SessionsOK, Partial, Row, Nothing, Raised,
     Reading, ReadsVersioned, PlansRead, ReadOrigin
<1>3. PlansRead'
  BY DEF TypeOK, RowsOK, GroupOK, SessionsOK, Partial, Row, Nothing, Raised,
     Reading, PlansRead, ReadOrigin
<1> QED  BY <1>1, <1>2, <1>3 DEF Reading

LEMMA ReadTasksReading ==
  ASSUME TypeOK, Reading, NEW w \in Workers, ReadTasks(w)
  PROVE  Reading'
<1>1. BegunRead'
  BY DEF TypeOK, LogsOK, GroupOK, Phases, Raised, Reading, BegunRead,
     SessionsOK, event, origin, ReadTasks
<1>2. ReadsVersioned'
  <2> SUFFICES ASSUME NEW v \in Workers, NEW t \in DOMAIN seen'[v]
               PROVE  /\ seen'[v][t].version <= version[t]
                      /\ seen'[v][t].version = version[t] => seen'[v][t].date = dates[t]
    BY DEF ReadsVersioned, ReadTasks
  <2>1. CASE v # w
    BY <2>1 DEF ReadTasks, Reading, ReadsVersioned, TypeOK, SessionsOK
  <2>2. CASE v = w
    <3>1. DOMAIN seen'[w] = alive /\ t \in alive /\ version[t] \in Nat
      BY <2>2 DEF ReadTasks, TypeOK, RowsOK, SessionsOK
    <3>2. CASE t = origin(w)
      BY <2>2, <3>1, <3>2
         DEF ReadTasks, Reading, ReadsVersioned, BegunRead, TypeOK, SessionsOK
    <3>3. CASE t # origin(w)
      BY <2>2, <3>1, <3>3 DEF ReadTasks, TypeOK, SessionsOK
    <3> QED  BY <3>2, <3>3
  <2> QED  BY <2>1, <2>2
<1>3. PlansRead'
  BY DEF TypeOK, RowsOK, GroupOK, SessionsOK, Partial, Row, Nothing, Raised,
     Reading, PlansRead, ReadTasks
<1> QED  BY <1>1, <1>2, <1>3 DEF Reading

LEMMA ComputeReading ==
  ASSUME TypeOK, Reading, NEW w \in Workers, Compute(w)
  PROVE  Reading'
<1>1. BegunRead'
  BY DEF TypeOK, LogsOK, GroupOK, Phases, Raised, Reading, BegunRead,
     SessionsOK, event, origin, Compute
<1>2. ReadsVersioned'
  BY DEF TypeOK, RowsOK, GroupOK, SessionsOK, Partial, Row, Nothing, Raised,
     Reading, ReadsVersioned, PlansRead, Compute
<1>3. PlansRead'
  BY PlanType DEF Compute, TypeOK, GroupOK, SessionsOK, Reading, PlansRead
<1> QED  BY <1>1, <1>2, <1>3 DEF Reading

LEMMA CommitReading ==
  ASSUME TypeOK, Reading, NEW w \in Workers, Commit(w)
  PROVE  Reading'
<1>1. BegunRead'
  BY DEF TypeOK, LogsOK, GroupOK, Phases, Raised, Reading, BegunRead,
     SessionsOK, event, origin, Commit, Effect
<1>2. ReadsVersioned'
  BY DEF TypeOK, RowsOK, GroupOK, SessionsOK, Partial, Row, Nothing, Raised,
     Reading, ReadsVersioned, PlansRead, Commit, Effect
<1>3. PlansRead'
  BY DEF TypeOK, RowsOK, GroupOK, SessionsOK, Partial, Row, Nothing, Raised,
     Reading, PlansRead, Commit, Effect
<1> QED  BY <1>1, <1>2, <1>3 DEF Reading

LEMMA CommitUnansweredReading ==
  ASSUME TypeOK, Reading, NEW w \in Workers, CommitUnanswered(w)
  PROVE  Reading'
<1>1. BegunRead'
  BY DEF TypeOK, LogsOK, GroupOK, Phases, Raised, Reading, BegunRead,
     SessionsOK, event, origin, CommitUnanswered, Effect, Fault
<1>2. ReadsVersioned'
  BY DEF TypeOK, RowsOK, GroupOK, SessionsOK, Partial, Row, Nothing, Raised,
     Reading, ReadsVersioned, PlansRead, CommitUnanswered, Effect, Fault
<1>3. PlansRead'
  BY DEF TypeOK, RowsOK, GroupOK, SessionsOK, Partial, Row, Nothing, Raised,
     Reading, PlansRead, CommitUnanswered, Effect, Fault
<1> QED  BY <1>1, <1>2, <1>3 DEF Reading

-----------------------------------------------------------------------------
(* The inductive invariant                                                 *)

IInv == TypeOK /\ Order /\ Reading

LEMMA InitIInv == Init => IInv
<1> SUFFICES ASSUME Init PROVE IInv
  OBVIOUS
<1>1. TypeOK
  BY InitType
<1>2. RelayedArrived /\ FirstInOrder /\ HeldDue /\ HandledDecided /\ FetchedDecided
  BY DEF Init, RelayedArrived, FirstInOrder, HeldDue, HandledDecided, FetchedDecided
<1>3. NothingSkipped /\ RowPerMove
  BY DEF Init, NothingSkipped, RowPerMove
<1>4. Reading
  BY DEF Init, Reading, BegunRead, ReadsVersioned, PlansRead, Nothing
<1> QED  BY <1>1, <1>2, <1>3, <1>4 DEF IInv, Order

LEMMA HumanIInv ==
  ASSUME IInv, Human
  PROVE  IInv'
<1> USE DEF IInv
<1>1. Grows
  BY Growth DEF Next
<1>2. ASSUME NEW t \in Tasks, NEW d \in Moves, RescheduleTask(t, d)
      PROVE  IInv'
  <2>1. Order'
    BY <1>1, <1>2, RecordOrder DEF RescheduleTask
  <2> QED  BY <1>2, <2>1, RescheduleTaskType, RescheduleTaskReading
<1>3. ASSUME NEW t \in Tasks, UpdateTask(t)
      PROVE  IInv'
  <2>1. Order'
    BY <1>3, StillAtWork DEF UpdateTask, Edit
  <2> QED  BY <1>3, <2>1, UpdateTaskType, UpdateTaskReading
<1>4. ASSUME NEW t \in Tasks, DeleteTask(t)
      PROVE  IInv'
  <2>1. Order'
    BY <1>4, StillAtWork DEF DeleteTask, Edit
  <2>2. Reading'
    BY <1>1, <1>4, NothingRead DEF DeleteTask, Edit
  <2> QED  BY <1>4, <2>1, <2>2, DeleteTaskType
<1>5. ASSUME NEW l \in Links, AddPredecessor(l)
      PROVE  IInv'
  <2>1. Order'
    BY <1>5, StillAtWork DEF AddPredecessor, Edit
  <2>2. Reading'
    BY <1>1, <1>5, NothingRead DEF AddPredecessor, Edit
  <2> QED  BY <1>5, <2>1, <2>2, AddPredecessorType
<1>6. ASSUME NEW t \in Tasks, ConfirmTask(t)
      PROVE  IInv'
  <2>1. Order'
    BY <1>1, <1>6, RecordOrder DEF ConfirmTask
  <2>2. Reading'
    BY <1>1, <1>6, NothingRead DEF ConfirmTask, Record
  <2> QED  BY <1>6, <2>1, <2>2, ConfirmTaskType
<1>7. ASSUME NEW t \in Tasks, CreateTask(t)
      PROVE  IInv'
  <2>1. Order'
    BY <1>7, StillAtWork DEF CreateTask, Edit
  <2> QED  BY <1>7, <2>1, CreateTaskType, CreateTaskReading
<1> QED  BY <1>2, <1>3, <1>4, <1>5, <1>6, <1>7 DEF Human

LEMMA RelaysIInv ==
  ASSUME IInv, Relay \/ RelayRestart
  PROVE  IInv'
<1> USE DEF IInv
<1>1. Grows
  BY Growth DEF Next
<1>2. CASE Relay
  <2>1. Reading'
    BY <1>1, <1>2, NothingRead DEF Relay
  <2> QED  BY <1>1, <1>2, <2>1, RelayType, RelayOrder
<1>3. CASE RelayRestart
  <2>1. Reading'
    BY <1>1, <1>3, NothingRead DEF RelayRestart, Fault
  <2> QED  BY <1>1, <1>3, <2>1, RelayRestartType, RelayRestartOrder
<1> QED  BY <1>2, <1>3

LEMMA WorkIInv ==
  ASSUME IInv, NEW w \in Workers, Work(w)
  PROVE  IInv'
<1> USE DEF IInv
<1>1. Grows
  BY Growth DEF Next
<1>2. CASE Poll(w)
  <2>1. Reading'
    BY <1>1, <1>2, NothingRead DEF TypeOK, GroupOK, Poll
  <2> QED  BY <1>1, <1>2, <2>1, PollType, PollOrder
<1>3. CASE Skip(w)
  <2>1. Reading'
    BY <1>1, <1>3, NothingRead DEF TypeOK, GroupOK, Skip
  <2> QED  BY <1>1, <1>3, <2>1, SkipType, SkipOrder
<1>4. CASE ReadOrigin(w)
  <2>1. Order'
    BY <1>4, StillAtWork DEF TypeOK, GroupOK, Raised, ReadOrigin
  <2> QED  BY <1>1, <1>4, <2>1, ReadOriginType, ReadOriginReading
<1>5. CASE OriginGone(w)
  <2>1. Order'
    BY <1>5, StillAtWork DEF TypeOK, GroupOK, Raised, OriginGone
  <2>2. Reading'
    BY <1>1, <1>5, NothingRead DEF TypeOK, GroupOK, OriginGone
  <2> QED  BY <1>1, <1>5, <2>1, <2>2, OriginGoneType
<1>6. CASE ReadTasks(w)
  <2>1. Order'
    BY <1>6, StillAtWork DEF TypeOK, GroupOK, Raised, ReadTasks
  <2> QED  BY <1>1, <1>6, <2>1, ReadTasksType, ReadTasksReading DEF Reading, BegunRead, ReadTasks
<1>7. CASE Compute(w)
  <2>1. Order'
    BY <1>7, StillAtWork DEF TypeOK, GroupOK, Raised, Compute
  <2> QED  BY <1>1, <1>7, <2>1, ComputeType, ComputeReading
<1>8. CASE OriginVanished(w)
  <2>1. Order'
    BY <1>8, StillAtWork DEF TypeOK, GroupOK, Raised, OriginVanished
  <2>2. Reading'
    BY <1>8, SessionDropped, "computed" \in Phases \ {"begun"} DEF OriginVanished, Phases, Raised
  <2> QED  BY <1>1, <1>8, <2>1, <2>2, OriginVanishedType
<1>9. CASE CascadeRaises(w)
  <2>1. Order'
    BY <1>9, StillAtWork DEF TypeOK, GroupOK, Raised, CascadeRaises
  <2>2. Reading'
    BY <1>9, SessionDropped, "poison" \in Phases \ {"begun"} DEF CascadeRaises, Phases, Raised
  <2> QED  BY <1>1, <1>9, <2>1, <2>2, CascadeRaisesType
<1>10. CASE Commit(w)
  <2> QED  BY <1>1, <1>10, CommitType, CommitOrder, CommitReading
<1>11. CASE Conflict(w)
  <2>1. Reading'
    BY <1>11, SessionDropped, "idle" \in Phases \ {"begun"} DEF TypeOK, GroupOK, Conflict, Phases, Raised
  <2> QED  BY <1>1, <1>11, <2>1, ConflictType, ConflictOrder
<1>12. CASE Duplicate(w)
  <2>1. Order'
    BY <1>12, StillAtWork DEF TypeOK, GroupOK, Raised, Duplicate
  <2>2. Reading'
    BY <1>12, SessionDropped, "duplicate" \in Phases \ {"begun"} DEF Duplicate, Phases, Raised
  <2> QED  BY <1>1, <1>12, <2>1, <2>2, DuplicateType
<1>13. CASE DeadLetter(w)
  <2>1. Reading'
    BY <1>1, <1>13, NothingRead DEF TypeOK, GroupOK, DeadLetter, Raised
  <2> QED  BY <1>1, <1>13, <2>1, DeadLetterType, DeadLetterOrder
<1>14. CASE Ack(w)
  <2>1. Reading'
    BY <1>1, <1>14, NothingRead DEF TypeOK, GroupOK, Ack
  <2> QED  BY <1>1, <1>14, <2>1, AckType, AckOrder
<1> QED
  BY <1>2, <1>3, <1>4, <1>5, <1>6, <1>7, <1>8, <1>9, <1>10, <1>11, <1>12, <1>13, <1>14 DEF Work

LEMMA FailIInv ==
  ASSUME IInv, NEW w \in Workers, Fail(w)
  PROVE  IInv'
<1> USE DEF IInv
<1>1. Grows
  BY Growth DEF Next
<1>2. CASE DatabaseFails(w)
  <2>1. Order'
    BY <1>2, StillAtWork DEF TypeOK, GroupOK, Raised, DatabaseFails, Fault
  <2>2. Reading'
    BY <1>2, SessionDropped, "failed" \in Phases \ {"begun"} DEF DatabaseFails, Fault, Phases, Raised
  <2> QED  BY <1>1, <1>2, <2>1, <2>2, DatabaseFailsType
<1>3. CASE CommitUnanswered(w)
  <2> QED  BY <1>1, <1>3, CommitUnansweredType, CommitUnansweredOrder, CommitUnansweredReading
<1>4. CASE AckLost(w)
  <2>1. Reading'
    BY <1>1, <1>4, NothingRead DEF TypeOK, GroupOK, AckLost, Fault
  <2> QED  BY <1>1, <1>4, <2>1, AckLostType, AckLostOrder
<1>5. CASE Crash(w)
  <2>1. Reading'
    BY <1>5, SessionDropped, "idle" \in Phases \ {"begun"} DEF TypeOK, GroupOK, Crash, Fault, Phases, Raised
  <2> QED  BY <1>1, <1>5, <2>1, CrashType, CrashOrder
<1>6. CASE Rebalance(w)
  <2>1. Reading'
    BY <1>1, <1>6, NothingRead DEF TypeOK, GroupOK, Rebalance, Fault
  <2> QED  BY <1>1, <1>6, <2>1, RebalanceType, RebalanceOrder
<1> QED
  BY <1>2, <1>3, <1>4, <1>5, <1>6 DEF Fail

LEMMA NextIInv == IInv /\ [Next]_vars => IInv'
<1> SUFFICES ASSUME IInv, [Next]_vars PROVE IInv'
  OBVIOUS
<1>1. CASE UNCHANGED vars
  <2>1. TypeOK'
    BY <1>1 DEF vars, IInv, TypeOK, RowsOK, LogsOK, GroupOK, SessionsOK, BudgetsOK, Edges
  <2>2. Order'
    BY <1>1, StillAtWork DEF vars, IInv
  <2>3. Reading'
    BY <1>1, NothingRead, Growth DEF vars, IInv
  <2> QED  BY <2>1, <2>2, <2>3 DEF IInv
<1>2. Drained => UNCHANGED vars
  BY DEF Drained
<1> QED
  BY <1>1, <1>2, HumanIInv, RelaysIInv, WorkIInv, FailIInv DEF Next

THEOREM Invariance == Spec => []IInv
<1>1. Init => IInv
  BY InitIInv
<1>2. IInv /\ [Next]_vars => IInv'
  BY NextIInv
<1> QED  BY <1>1, <1>2, PTL DEF Spec

(* Type correctness, for any workers, tasks, dates and bounds.             *)
THEOREM TypeCorrect == Spec => []TypeOK
<1>1. IInv => TypeOK
  BY DEF IInv
<1> QED  BY <1>1, Invariance, PTL

(* Whatever is redelivered, lost or restarted, a committed offset never    *)
(* passes a message that is undecided.                                     *)
THEOREM NoMessageSkipped == Spec => []NothingSkipped
<1>1. IInv => NothingSkipped
  BY DEF IInv, Order
<1> QED  BY <1>1, Invariance, PTL

-----------------------------------------------------------------------------
(* Who writes dates                                                        *)

(* Only a move, or the commit of a worker that had computed, writes dates; *)
(* only a worker's own step changes its phase.                             *)
LEMMA WhoWrites ==
  ASSUME TypeOK, [Next]_vars
  PROVE  \/ UNCHANGED phase
         \/ \E w \in Workers : /\ \A v \in Workers \ {w} : phase'[v] = phase[v]
                               /\ Effect(w) \/ UNCHANGED dates
<1>1. Human \/ Relay \/ RelayRestart => UNCHANGED phase
  BY DEF Human, Record, RescheduleTask, ConfirmTask, CreateTask, UpdateTask, DeleteTask,
         AddPredecessor, Edit, Relay, RelayRestart, Fault
<1>2. Drained \/ UNCHANGED vars => UNCHANGED phase
  BY DEF Drained, vars
<1>3. ASSUME NEW w \in Workers, Work(w) \/ Fail(w)
      PROVE  /\ \A v \in Workers \ {w} : phase'[v] = phase[v]
             /\ Effect(w) \/ UNCHANGED dates
  <2>1. \A v \in Workers \ {w} : phase'[v] = phase[v]
    BY <1>3 DEF TypeOK, GroupOK, Work, Fail, Poll, Skip, ReadOrigin, OriginGone, ReadTasks,
                Compute, OriginVanished, CascadeRaises, Commit, Conflict, Duplicate,
                DatabaseFails, CommitUnanswered, DeadLetter, Ack, AckLost, Crash, Rebalance
  <2>2. Effect(w) \/ UNCHANGED dates
    BY <1>3 DEF Work, Fail, Poll, Skip, ReadOrigin, OriginGone, ReadTasks,
                Compute, OriginVanished, CascadeRaises, Commit, Conflict, Duplicate,
                DatabaseFails, CommitUnanswered, DeadLetter, Ack, AckLost, Crash, Rebalance
  <2> QED  BY <2>1, <2>2
<1> QED  BY <1>1, <1>2, <1>3 DEF Next

(* A cascade never overwrites dates it has not read: the version guard of  *)
(* every update finds the human's change, whatever workers and humans do.  *)
THEOREM HumanEditsAreKept == Spec => HumanEditsSurvive
<1> DEFINE A == \A w \in Workers : phase[w] = "computed" /\ phase'[w] # "computed" =>
                  \A t \in Tasks : dates'[t] # dates[t] =>
                    t \in DOMAIN seen[w] /\ dates[t] = seen[w][t].date
<1>1. IInv /\ [Next]_vars => A
  <2> SUFFICES ASSUME IInv, [Next]_vars,
                      NEW w \in Workers, phase[w] = "computed", phase'[w] # "computed",
                      NEW t \in Tasks, dates'[t] # dates[t]
               PROVE  t \in DOMAIN seen[w] /\ dates[t] = seen[w][t].date
    OBVIOUS
  <2>1. Effect(w)
    BY WhoWrites DEF IInv
  <2>2. t \in DOMAIN plan[w]
    BY <2>1 DEF Effect
  <2>3. t \in DOMAIN seen[w] /\ version[t] = seen[w][t].version
    BY <2>1, <2>2 DEF Effect, VersionsMatch, IInv, Reading, PlansRead
  <2> QED  BY <2>3 DEF IInv, Reading, ReadsVersioned
<1>2. Spec => [][A]_vars
  BY <1>1, Invariance, PTL DEF Spec
<1> QED  BY <1>2 DEF HumanEditsSurvive

-----------------------------------------------------------------------------
(* The pipeline implements the ledger of moves                             *)

(* Whatever precedes the message a worker holds, and every smaller id, is  *)
(* decided.                                                                *)
LEMMA HeldIsDue ==
  ASSUME IInv, NEW w \in Workers, phase[w] # "idle"
  PROVE  event(w) \in 1 .. Len(outbox) /\ \A f \in 1 .. event(w) - 1 : Decided(f)
<1>1. msg[w] \in 1 .. Len(topic) /\ event(w) \in 1 .. Len(outbox)
  BY Holding DEF IInv
<1>2. ASSUME NEW f \in 1 .. event(w) - 1
      PROVE  Decided(f)
  <2>0. msg[w] \in DOMAIN topic /\ f \in 1 .. topic[msg[w]] - 1
    BY <1>1 DEF IInv, TypeOK, LogsOK, event
  <2>1. PICK j \in 1 .. msg[w] - 1 : topic[j] = f
    BY <2>0 DEF IInv, Order, FirstInOrder
  <2> QED  BY <2>1 DEF IInv, Order, HeldDue
<1> QED  BY <1>1, <1>2

(* Relayed twice, delivered twice, abandoned half-way or processed by two  *)
(* workers at once, the moves take effect and are announced as the ledger  *)
(* says: at most once each, in the order in which they were made.          *)
THEOREM ImplementsLedgerSafety == Spec => Ledger!Safety
<1>1. Init => Ledger!Init
  BY DEF Init, Ledger!Init, abandoned
<1>2. IInv /\ [Next]_vars => [Ledger!Next]_(Ledger!vars)
  <2> SUFFICES ASSUME IInv, [Next]_vars
               PROVE  Ledger!Next \/ UNCHANGED Ledger!vars
    OBVIOUS
  <2>1. CASE UNCHANGED <<outbox, processed, announced, dlq>>
    BY <2>1 DEF Ledger!vars, abandoned
  <2>2. ASSUME NEW t \in Tasks, Record(t)
        PROVE  Ledger!Record
    <3>1. Len(outbox) = moves /\ moves < MaxMoves
      BY <2>2 DEF Record, IInv, Order, RowPerMove
    <3>2. Len(outbox') = Len(outbox) + 1 /\ UNCHANGED <<processed, announced, dlq>>
      BY <2>2 DEF Record, IInv, TypeOK, LogsOK
    <3> QED  BY <3>1, <3>2 DEF Ledger!Record, abandoned
  <2>3. ASSUME NEW w \in Workers, Effect(w), UNCHANGED dlq
        PROVE  Ledger!Next
    <3>1. event(w) \in 1 .. Len(outbox) /\ \A f \in 1 .. event(w) - 1 : Decided(f)
      BY <2>3, HeldIsDue DEF Effect
    <3>2. Ledger!Apply(event(w))
      BY <2>3, <3>1 DEF Effect, MarkerFree, Ledger!Apply, Ledger!Due, Ledger!Settled, Decided,
                        abandoned
    <3> QED  BY <3>1, <3>2 DEF Ledger!Next
  <2>4. ASSUME NEW w \in Workers, DeadLetter(w)
        PROVE  Ledger!Next
    <3>1. event(w) \in 1 .. Len(outbox) /\ \A f \in 1 .. event(w) - 1 : Decided(f)
      BY <2>4, HeldIsDue DEF DeadLetter, Raised
    <3>2. abandoned' = abandoned \cup {event(w)}
      BY <2>4, DeadLetterAbandons DEF IInv
    <3>3. Ledger!Abandon(event(w))
      BY <2>4, <3>1, <3>2 DEF DeadLetter, Ledger!Abandon, Ledger!Due, Ledger!Settled, Decided
    <3> QED  BY <3>1, <3>3 DEF Ledger!Next
  <2>5. Relay => UNCHANGED <<outbox, processed, announced, dlq>>
    BY DEF Relay
  <2> QED
    BY <2>1, <2>2, <2>3, <2>4, <2>5, LogWriters DEF Ledger!Next
<1> QED  BY <1>1, <1>2, Invariance, PTL DEF Spec, Ledger!Safety

-----------------------------------------------------------------------------
(* Where the pipeline leaves the tasks                                     *)

(* A dependency joins two tasks that have a row.                           *)
JoinedAlive == Edges \subseteq alive \X alive

(* Whatever has a row, was moved or was read has been created.             *)
Born ==
  /\ \A t \in alive : version[t] > 0
  /\ \A e \in DOMAIN outbox : version[outbox[e]] > 0
  /\ \A w \in Workers : \A t \in DOMAIN seen[w] : version[t] > 0

(* An event set aside has taken effect or is counted as neglected.         *)
NeglectedCounted == abandoned \subseteq processed \cup neglected

(* Unless one is, the events take effect in their order.                   *)
AppliedInOrder ==
  neglected = {} => \A e \in processed : \A f \in 1 .. e - 1 : f \in processed

Busy == {"begun", "read", "computed"}

(* A worker remembers what it has read during a transaction only.          *)
Clean(w) == phase[w] \notin Busy => fresh[w] = {} /\ DOMAIN seen[w] = {}

(* w works on an event whose effect is not yet there.                      *)
Deciding(w) == neglected = {} /\ phase[w] \in Busy /\ event(w) \notin processed

(* What w has read is current, or a human has moved the task since: that   *)
(* event comes after the one w works on.                                   *)
SeenOrMoved(w) ==
  \A t \in DOMAIN seen[w] :
    \/ seen[w][t].date = dates[t]
    \/ t \notin fresh[w] /\ \E e \in event(w) + 1 .. Len(outbox) : outbox[e] = t

(* It has read the predecessors of the tasks it may recompute.             *)
FreshSeen(w) ==
  phase[w] \in {"read", "computed"} =>
    \A t \in fresh[w] : Preds(Edges, t) \cup {t} \subseteq DOMAIN seen[w]

(* It has read every task; of those created since, none has predecessors   *)
(* that a human has not added.                                             *)
AllRead(w) ==
  phase[w] = "read" =>
    /\ origin(w) \in alive => origin(w) \in DOMAIN seen[w]
    /\ \A t \in alive \ pinned :
         IF t \in DOMAIN seen[w] THEN t \in fresh[w] \cup {origin(w)} ELSE Preds(Edges, t) = {}

(* The dates its plan would leave, had nobody moved anything since.        *)
Placed(w) ==
  [t \in DOMAIN seen[w] |-> IF t \in DOMAIN plan[w] THEN plan[w][t] ELSE seen[w][t].date]

(* The plan makes what it recomputes tight ...                             *)
PlanSettles(w) ==
  phase[w] = "computed" => \A t \in fresh[w] : Tight(deps, Placed(w), t)

(* ... and disturbs nothing else that no human has touched.                *)
PlanSpares(w) ==
  phase[w] = "computed" =>
    \A t \in alive \ (pinned \cup fresh[w]) :
      /\ (Preds(Edges, t) \cup {t}) \cap DOMAIN plan[w] = {}
      /\ origin(w) \notin Preds(Edges, t)

Attentive(w) ==
  Deciding(w) => SeenOrMoved(w) /\ FreshSeen(w) /\ AllRead(w) /\ PlanSettles(w) /\ PlanSpares(w)

Settling ==
  /\ JoinedAlive /\ Born /\ NeglectedCounted /\ AppliedInOrder /\ Converges
  /\ \A w \in Workers : Clean(w) /\ Attentive(w)

-----------------------------------------------------------------------------
(* Unless an event is neglected, those before a worker's have all taken    *)
(* effect.                                                                 *)
LEMMA BeforeApplied ==
  ASSUME IInv, NeglectedCounted, neglected = {}, NEW w \in Workers, phase[w] # "idle",
         NEW f \in 1 .. event(w) - 1
  PROVE  f \in processed
<1>1. msg[w] \in 1 .. Len(topic) /\ msg[w] \in DOMAIN topic
  BY Holding DEF IInv, TypeOK, LogsOK
<1>2. PICK j \in 1 .. msg[w] - 1 : topic[j] = f
  BY <1>1 DEF IInv, Order, FirstInOrder, event
<1>3. Decided(f)
  BY <1>2 DEF IInv, Order, HeldDue
<1> QED  BY <1>3 DEF Decided, NeglectedCounted

(* So two workers whose events have not taken effect hold the same event,  *)
(* and none after it has.                                                  *)
LEMMA SameEvent ==
  ASSUME IInv, NeglectedCounted, NEW v \in Workers, NEW w \in Workers, Deciding(v), Deciding(w)
  PROVE  event(v) = event(w)
<1>1. event(v) \in 1 .. Len(outbox) /\ event(w) \in 1 .. Len(outbox) /\ Len(outbox) \in Nat
  BY Holding DEF IInv, TypeOK, LogsOK, Deciding, Busy
<1>2. ~ (event(v) \in 1 .. event(w) - 1) /\ ~ (event(w) \in 1 .. event(v) - 1)
  BY BeforeApplied DEF Deciding, Busy
<1> QED  BY <1>1, <1>2

LEMMA LaterPending ==
  ASSUME IInv, AppliedInOrder, NEW w \in Workers, Deciding(w),
         NEW e \in event(w) + 1 .. Len(outbox)
  PROVE  e \in 1 .. Len(outbox) /\ e # event(w) /\ e \notin processed
<1>1. event(w) \in 1 .. Len(outbox) /\ Len(outbox) \in Nat
  BY Holding DEF IInv, TypeOK, LogsOK, Deciding, Busy
<1>2. e \in 1 .. Len(outbox) /\ e # event(w) /\ event(w) \in 1 .. e - 1
  BY <1>1
<1> QED  BY <1>2 DEF AppliedInOrder, Deciding

(* A worker's event and origin are its own as long as it holds it.         *)
LEMMA EventKept ==
  ASSUME TypeOK, Grows, NEW w \in Workers, phase[w] # "idle", msg'[w] = msg[w]
  PROVE  event(w)' = event(w) /\ origin(w)' = origin(w)
<1>1. msg[w] \in DOMAIN topic /\ event(w) \in DOMAIN outbox
  BY Holding DEF TypeOK, LogsOK
<1>2. event(w)' = event(w)
  BY <1>1 DEF Grows, event
<1> QED  BY <1>1, <1>2 DEF Grows, origin

(* A step at which no event takes effect and only a human, if anyone,      *)
(* changes dates or dependencies: he touches the tasks S.                  *)
Spares(S) ==
  /\ S \subseteq Tasks
  /\ UNCHANGED processed /\ neglected \subseteq neglected'
  /\ \A t \in alive' : t \in alive \/ version[t] = 0
  /\ pinned' = pinned \cup S
  /\ \A t \in Tasks \ S :
       /\ Preds(Edges', t) = Preds(Edges, t)
       /\ \A p \in Preds(Edges, t) : deps'[<<p, t>>] = deps[<<p, t>>]
  /\ \A t \in Tasks : dates'[t] = dates[t] \/ (t \in S /\ outbox' = Append(outbox, t))

SameSession(w, S) ==
  /\ phase'[w] = phase[w] /\ msg'[w] = msg[w] /\ seen'[w] = seen[w] /\ plan'[w] = plan[w]
  /\ fresh'[w] = fresh[w] \ S

(* The event of a move stays pending.                                      *)
LEMMA StaysPending ==
  ASSUME TypeOK, Grows, UNCHANGED processed, NEW p, Pending(p)
  PROVE  Pending(p)'
<1>1. PICK e \in 1 .. Len(outbox) : outbox[e] = p /\ e \notin processed
  BY DEF Pending
<1>2. e \in DOMAIN outbox
  BY DEF TypeOK, LogsOK
<1>3. e \in DOMAIN outbox' /\ outbox'[e] = p
  BY <1>1, <1>2 DEF Grows
<1> QED  BY <1>1, <1>3 DEF Pending

LEMMA NewPending ==
  ASSUME TypeOK, TypeOK', UNCHANGED processed, NEW p \in Tasks, outbox' = Append(outbox, p)
  PROVE  /\ Pending(p)'
         /\ Len(outbox') = Len(outbox) + 1 /\ outbox'[Len(outbox) + 1] = p
<1>1. /\ Len(outbox') = Len(outbox) + 1 /\ outbox'[Len(outbox) + 1] = p
      /\ Len(outbox) \in Nat /\ Len(outbox) + 1 \notin processed
  BY DEF TypeOK, LogsOK
<1> QED  BY <1>1 DEF Pending

LEMMA SparesConverges ==
  ASSUME TypeOK, TypeOK', Grows, JoinedAlive, Born, Converges, NEW S, Spares(S)
  PROVE  Converges'
<1> SUFFICES ASSUME neglected' = {}, NEW t \in alive', t \notin pinned',
                    ~ (Preds(Edges', t) = {}),
                    \A p \in Preds(Edges', t) : ~ Pending(p)'
             PROVE  Tight(deps', dates', t)
  BY DEF Converges
<1>1. t \in Tasks \ S /\ neglected = {} /\ t \notin pinned
  BY DEF TypeOK, RowsOK, Spares
<1>2. Preds(Edges', t) = Preds(Edges, t) /\ \A p \in Preds(Edges, t) : deps'[<<p, t>>] = deps[<<p, t>>]
  BY <1>1 DEF Spares
<1>3. t \in alive
  BY <1>2 DEF JoinedAlive, Preds
<1>4. Tight(deps, dates, t)
  BY <1>1, <1>2, <1>3, StaysPending DEF Converges, Spares
<1>5. \A p \in Preds(Edges, t) \cup {t} : dates'[p] = dates[p]
  <2>1. dates'[t] = dates[t]
    BY <1>1 DEF Spares
  <2>2. ASSUME NEW p \in Preds(Edges, t) PROVE dates'[p] = dates[p]
    BY <1>2, <2>2, NewPending DEF Spares, Preds
  <2> QED  BY <2>1, <2>2
<1>6. Tight(deps, dates', t)
  BY <1>4, <1>5, TightAgrees DEF Edges
<1> QED  BY <1>2, <1>6, TightSameEdges DEF Edges

LEMMA SparesAttentive ==
  ASSUME TypeOK, TypeOK', Reading, Grows, JoinedAlive, Born, NEW S, Spares(S),
         NEW w \in Workers, SameSession(w, S), Attentive(w)
  PROVE  Attentive(w)'
<1> SUFFICES ASSUME Deciding(w)' PROVE Attentive(w)'
  BY DEF Attentive
<1>1. /\ phase'[w] = phase[w] /\ msg'[w] = msg[w] /\ seen'[w] = seen[w] /\ plan'[w] = plan[w]
      /\ fresh'[w] = fresh[w] \ S /\ phase[w] # "idle"
  BY DEF SameSession, Deciding, Busy
<1>2. event(w)' = event(w) /\ origin(w)' = origin(w) /\ event(w) \in 1 .. Len(outbox)
      /\ origin(w) \in Tasks
  BY <1>1, EventKept, Holding
<1>3. Deciding(w)
  BY <1>1, <1>2 DEF Deciding, Spares
<1>4. SeenOrMoved(w) /\ FreshSeen(w) /\ AllRead(w) /\ PlanSettles(w) /\ PlanSpares(w)
  BY <1>3 DEF Attentive
<1>5. SeenOrMoved(w)'
  <2> SUFFICES ASSUME NEW t \in DOMAIN seen[w], seen[w][t].date # dates'[t]
               PROVE  t \notin fresh'[w] /\ \E e \in event(w) + 1 .. Len(outbox') : outbox'[e] = t
    BY <1>1, <1>2 DEF SeenOrMoved
  <2>1. t \in Tasks
    BY DEF TypeOK, SessionsOK, Partial
  <2>2. CASE dates'[t] = dates[t]
    <3>1. PICK e \in event(w) + 1 .. Len(outbox) : outbox[e] = t
      BY <1>4, <2>2 DEF SeenOrMoved
    <3>2. e \in DOMAIN outbox /\ e \in event(w) + 1 .. Len(outbox')
      BY <1>2 DEF TypeOK, LogsOK, Grows
    <3>3. outbox'[e] = t
      BY <3>1, <3>2 DEF Grows
    <3>4. t \notin fresh[w]
      BY <1>4, <2>2 DEF SeenOrMoved
    <3> QED  BY <1>1, <3>2, <3>3, <3>4
  <2>3. CASE dates'[t] # dates[t]
    <3>1. t \in S /\ outbox' = Append(outbox, t)
      BY <2>1, <2>3 DEF Spares
    <3>2. Len(outbox') = Len(outbox) + 1 /\ outbox'[Len(outbox) + 1] = t
      BY <2>1, <3>1, NewPending DEF Spares
    <3>3. Len(outbox) + 1 \in event(w) + 1 .. Len(outbox')
      BY <1>2, <3>2 DEF TypeOK, LogsOK
    <3> QED  BY <1>1, <3>1, <3>2, <3>3
  <2> QED  BY <2>2, <2>3
<1>6. \A t \in fresh'[w] : t \in fresh[w] /\ t \in Tasks \ S
  BY <1>1 DEF TypeOK, SessionsOK
<1>7. FreshSeen(w)'
  BY <1>1, <1>4, <1>6 DEF FreshSeen, Spares
<1>8. PlanSettles(w)'
  <2>1. Placed(w)' = Placed(w)
    BY <1>1 DEF Placed
  <2> SUFFICES ASSUME phase[w] = "computed", NEW t \in fresh'[w] PROVE Tight(deps', Placed(w), t)
    BY <1>1, <2>1 DEF PlanSettles
  <2>2. Tight(deps, Placed(w), t)
    BY <1>4, <1>6 DEF PlanSettles
  <2>3. Preds(Edges', t) = Preds(Edges, t) /\ \A p \in Preds(Edges, t) : deps'[<<p, t>>] = deps[<<p, t>>]
    BY <1>6 DEF Spares
  <2> QED  BY <2>2, <2>3, TightSameEdges DEF Edges
<1>9. \A t \in alive' \ pinned' :
        /\ t \in Tasks \ S /\ t \notin pinned /\ Preds(Edges', t) = Preds(Edges, t)
        /\ t \in fresh[w] => t \in fresh'[w]
        /\ t \in alive \/ (Preds(Edges, t) = {} /\ t \notin DOMAIN seen[w])
  <2> SUFFICES ASSUME NEW t \in alive' \ pinned', t \notin alive
               PROVE  Preds(Edges, t) = {} /\ t \notin DOMAIN seen[w]
    BY <1>1 DEF Spares, TypeOK, RowsOK
  <2>1. Preds(Edges, t) = {}
    BY DEF JoinedAlive, Preds
  <2>2. version[t] = 0
    BY DEF Spares
  <2> QED  BY <2>1, <2>2 DEF Born
<1>10. AllRead(w)'
  <2> SUFFICES ASSUME phase[w] = "read"
               PROVE  /\ origin(w) \in alive' => origin(w) \in DOMAIN seen[w]
                      /\ \A t \in alive' \ pinned' :
                           IF t \in DOMAIN seen[w] THEN t \in fresh'[w] \cup {origin(w)}
                                                   ELSE Preds(Edges', t) = {}
    BY <1>1, <1>2 DEF AllRead
  <2>1. origin(w) \in alive' => origin(w) \in alive
    <3>1. event(w) \in DOMAIN outbox
      BY <1>2 DEF TypeOK, LogsOK
    <3>2. version[origin(w)] > 0
      BY <3>1 DEF Born, origin
    <3> QED  BY <3>2 DEF Spares
  <2> QED  BY <1>4, <1>9, <2>1 DEF AllRead
<1>11. PlanSpares(w)'
  <2> SUFFICES ASSUME phase[w] = "computed", NEW t \in alive' \ (pinned' \cup fresh'[w])
               PROVE  /\ (Preds(Edges', t) \cup {t}) \cap DOMAIN plan[w] = {}
                      /\ origin(w) \notin Preds(Edges', t)
    BY <1>1, <1>2 DEF PlanSpares
  <2>1. CASE t \in alive
    BY <1>4, <1>9, <2>1 DEF PlanSpares
  <2>2. CASE t \notin alive
    BY <1>9, <2>2 DEF Reading, PlansRead
  <2> QED  BY <2>1, <2>2
<1> QED  BY <1>5, <1>7, <1>8, <1>10, <1>11 DEF Attentive

-----------------------------------------------------------------------------
(* The steps                                                               *)

(* What the steps other than an effect leave of the rest of Settling.      *)
LEMMA SparesSettling ==
  ASSUME IInv, IInv', Settling, Grows, NEW S, Spares(S),
         Edges' \subseteq alive' \X alive',
         \A t \in Tasks : version'[t] >= version[t],
         \A t \in alive' : version'[t] > 0,
         \A e \in DOMAIN outbox' : version'[outbox'[e]] > 0,
         abandoned' \subseteq processed \cup neglected',
         \A w \in Workers : SameSession(w, S) \/ (Clean(w)' /\ Attentive(w)'
                              /\ \A t \in DOMAIN seen'[w] : version'[t] > 0)
  PROVE  Settling'
<1> USE DEF IInv, Settling
<1>1. JoinedAlive'
  BY DEF JoinedAlive
<1>2. ASSUME NEW w \in Workers
      PROVE  Clean(w)' /\ Attentive(w)' /\ \A t \in DOMAIN seen'[w] : version'[t] > 0
  <2>1. CASE SameSession(w, S)
    <3>1. Attentive(w)'
      BY <2>1, SparesAttentive
    <3>2. Clean(w)'
      BY <2>1 DEF SameSession, Clean
    <3>3. \A t \in DOMAIN seen[w] : t \in Tasks /\ version[t] > 0
      BY DEF Born, TypeOK, SessionsOK, Partial
    <3>4. \A t \in Tasks : version[t] \in Nat /\ version'[t] \in Nat
      BY DEF TypeOK, RowsOK
    <3>5. \A t \in DOMAIN seen'[w] : version'[t] > 0
      BY <2>1, <3>3, <3>4 DEF SameSession
    <3> QED  BY <3>1, <3>2, <3>5
  <2> QED  BY <2>1
<1>3. Born'
  BY <1>2 DEF Born
<1>4. NeglectedCounted' /\ AppliedInOrder'
  BY DEF NeglectedCounted, AppliedInOrder, Spares
<1>5. Converges'
  BY SparesConverges
<1> QED  BY <1>1, <1>2, <1>3, <1>4, <1>5

(* Steps that leave Postgres alone, but for the dead-lettering of an       *)
(* event: each worker goes on, or has read nothing.                        *)
LEMMA QuietSettling ==
  ASSUME IInv, IInv', Settling, Grows,
         UNCHANGED <<alive, dates, version, deps, outbox, processed, pinned>>,
         neglected \subseteq neglected', abandoned' \subseteq processed \cup neglected',
         \A w \in Workers : SameSession(w, {}) \/ (Clean(w)' /\ Attentive(w)'
                              /\ \A t \in DOMAIN seen'[w] : version[t] > 0)
  PROVE  Settling'
<1>1. Spares({})
  BY DEF Spares, Edges
<1>2. /\ Edges' \subseteq alive' \X alive'
      /\ \A t \in alive' : version'[t] > 0
      /\ \A e \in DOMAIN outbox' : version'[outbox'[e]] > 0
  BY DEF Settling, JoinedAlive, Born, Edges
<1>3. \A t \in Tasks : version'[t] >= version[t]
  BY DEF IInv, TypeOK, RowsOK
<1>4. \A w \in Workers : SameSession(w, {}) \/ (Clean(w)' /\ Attentive(w)'
                           /\ \A t \in DOMAIN seen'[w] : version'[t] > 0)
  OBVIOUS
<1> QED  BY <1>1, <1>2, <1>3, <1>4, SparesSettling

LEMMA RecordedBorn ==
  ASSUME IInv, IInv', Settling, NEW t \in Tasks, Record(t), version'[t] > 0,
         \A u \in Tasks : version'[u] >= version[u]
  PROVE  \A e \in DOMAIN outbox' : version'[outbox'[e]] > 0
<1> TAKE e \in DOMAIN outbox'
<1>1. \/ e \in DOMAIN outbox /\ outbox'[e] = outbox[e] /\ outbox[e] \in Tasks
      \/ outbox'[e] = t
  BY DEF IInv, TypeOK, LogsOK, Record
<1>2. CASE e \in DOMAIN outbox /\ outbox'[e] = outbox[e] /\ outbox[e] \in Tasks
  <2>1. version[outbox[e]] > 0 /\ version'[outbox[e]] >= version[outbox[e]]
    BY <1>2 DEF Settling, Born
  <2>2. version[outbox[e]] \in Nat /\ version'[outbox[e]] \in Nat
    BY <1>2 DEF IInv, TypeOK, RowsOK
  <2> QED  BY <1>2, <2>1, <2>2
<1>3. CASE outbox'[e] = t
  BY <1>3
<1> QED  BY <1>1, <1>2, <1>3

LEMMA HumanSettling ==
  ASSUME IInv, IInv', Settling, Grows, Human
  PROVE  Settling'
<1> USE DEF IInv
<1>0. /\ \A t \in Tasks : version[t] \in Nat /\ version'[t] \in Nat
      /\ alive \subseteq Tasks /\ alive' \subseteq Tasks /\ fresh \in [Workers -> SUBSET Tasks]
  BY DEF TypeOK, RowsOK, SessionsOK
<1>1. ASSUME NEW t \in Tasks, NEW d \in Moves, RescheduleTask(t, d)
      PROVE  Settling'
  <2>1. Spares({t})
    BY <1>1 DEF RescheduleTask, Record, Touched, Spares, Edges, TypeOK, RowsOK
  <2>2. \A w \in Workers : SameSession(w, {t})
    BY <1>0, <1>1 DEF RescheduleTask, Record, Touched, SameSession
  <2>3. (\A u \in Tasks : version'[u] >= version[u]) /\ version'[t] > 0
    BY <1>0, <1>1 DEF RescheduleTask, TypeOK, RowsOK
  <2>4. \A u \in alive' : version'[u] > 0
    BY <1>0, <1>1, <2>3 DEF RescheduleTask, Settling, Born
  <2>5. \A e \in DOMAIN outbox' : version'[outbox'[e]] > 0
    BY <1>1, <2>3, RecordedBorn DEF RescheduleTask
  <2>6. Edges' \subseteq alive' \X alive' /\ abandoned' \subseteq processed \cup neglected'
    BY <1>1 DEF RescheduleTask, Record, Touched, Settling, JoinedAlive, NeglectedCounted, Edges, abandoned
  <2> QED  BY <2>1, <2>2, <2>3, <2>4, <2>5, <2>6, SparesSettling
<1>2. ASSUME NEW t \in Tasks, ConfirmTask(t)
      PROVE  Settling'
  <2>1. Spares({})
    BY <1>2 DEF ConfirmTask, Record, Spares, Edges
  <2>2. \A w \in Workers : SameSession(w, {})
    BY <1>2 DEF ConfirmTask, Record, SameSession
  <2>3. (\A u \in Tasks : version'[u] >= version[u]) /\ version'[t] > 0
    BY <1>0, <1>2 DEF ConfirmTask
  <2>4. \A u \in alive' : version'[u] > 0
    BY <1>2 DEF ConfirmTask, Settling, Born
  <2>5. \A e \in DOMAIN outbox' : version'[outbox'[e]] > 0
    BY <1>2, <2>3, RecordedBorn DEF ConfirmTask
  <2>6. Edges' \subseteq alive' \X alive' /\ abandoned' \subseteq processed \cup neglected'
    BY <1>2 DEF ConfirmTask, Record, Settling, JoinedAlive, NeglectedCounted, Edges, abandoned
  <2> QED  BY <2>1, <2>2, <2>3, <2>4, <2>5, <2>6, SparesSettling
<1>3. ASSUME Edit, UNCHANGED dates, abandoned' = abandoned, NEW S, Spares(S),
             \A w \in Workers : fresh'[w] = fresh[w] \ S,
             neglected' = neglected, Edges' \subseteq alive' \X alive',
             \A t \in Tasks : version'[t] >= version[t], \A t \in alive' : version'[t] > 0
      PROVE  Settling'
  <2>1. \A w \in Workers : SameSession(w, S)
    BY <1>3 DEF Edit, SameSession
  <2>2. \A e \in DOMAIN outbox' : version'[outbox'[e]] > 0
    <3> TAKE e \in DOMAIN outbox'
    <3>1. outbox'[e] = outbox[e] /\ outbox[e] \in Tasks /\ version[outbox[e]] > 0
      BY <1>3 DEF Edit, TypeOK, LogsOK, Settling, Born
    <3> QED  BY <1>0, <1>3, <3>1
  <2>3. abandoned' \subseteq processed \cup neglected'
    BY <1>3 DEF Settling, NeglectedCounted
  <2> QED  BY <1>3, <2>1, <2>2, <2>3, SparesSettling
<1>4. ASSUME NEW t \in Tasks, UpdateTask(t)
      PROVE  Settling'
  <2>1. Spares({})
    BY <1>4 DEF UpdateTask, Edit, Spares, Edges
  <2>2. \A w \in Workers : fresh'[w] = fresh[w] \ {}
    BY <1>4 DEF UpdateTask
  <2>3. \A u \in Tasks : version'[u] >= version[u]
    BY <1>0, <1>4 DEF UpdateTask, TypeOK, RowsOK
  <2>4. \A u \in alive' : version'[u] > 0
    BY <1>0, <1>4, <2>3 DEF UpdateTask, Settling, Born
  <2> QED
    BY <1>3, <1>4, <2>1, <2>2, <2>3, <2>4
    DEF UpdateTask, Edit, abandoned, Settling, JoinedAlive, Edges
<1>5. ASSUME NEW t \in Tasks, CreateTask(t)
      PROVE  Settling'
  <2>1. Spares({})
    BY <1>5 DEF CreateTask, Edit, Spares, Edges
  <2>2. \A w \in Workers : fresh'[w] = fresh[w] \ {}
    BY <1>5 DEF CreateTask
  <2>3. (\A u \in Tasks : version'[u] >= version[u]) /\ version'[t] > 0
    BY <1>0, <1>5 DEF CreateTask, TypeOK, RowsOK
  <2>4. \A u \in alive' : version'[u] > 0
    BY <1>0, <1>5, <2>3 DEF CreateTask, Settling, Born
  <2>5. Edges' \subseteq alive' \X alive'
    BY <1>5 DEF CreateTask, Settling, JoinedAlive, Edges
  <2> QED
    BY <1>3, <1>5, <2>1, <2>2, <2>3, <2>4, <2>5 DEF CreateTask, Edit, abandoned
<1>6. ASSUME NEW t \in Tasks, DeleteTask(t)
      PROVE  Settling'
  <2> DEFINE S == UNION {{u} \cup Succs(Edges, u) : u \in Subtree(t)}
  <2>1. /\ alive' = alive \ Subtree(t) /\ deps' = Among(deps, alive')
        /\ pinned' = pinned \cup S /\ \A w \in Workers : fresh'[w] = fresh[w] \ S
        /\ UNCHANGED <<dates, version, neglected>> /\ Edit
    BY <1>6 DEF DeleteTask, Touched
  <2>2. Edges' \subseteq alive' \X alive' /\ Edges' = Edges \cap (alive' \X alive')
    BY <2>1 DEF Among, Edges
  <2>3. Subtree(t) \subseteq S /\ \A u \in Subtree(t) : Succs(Edges, u) \subseteq S
    OBVIOUS
  <2>4. S \subseteq Tasks
    BY <1>6 DEF Subtree, Downstream, Succs
  <2> HIDE DEF S
  <2>5. ASSUME NEW u \in Tasks \ S
        PROVE  /\ Preds(Edges', u) = Preds(Edges, u)
               /\ \A p \in Preds(Edges, u) : deps'[<<p, u>>] = deps[<<p, u>>]
    <3>1. ASSUME NEW p \in Preds(Edges, u)
          PROVE  <<p, u>> \in Edges'
      <4>1. <<p, u>> \in Edges /\ p \in alive /\ u \in alive /\ p \in Tasks
        BY DEF Settling, JoinedAlive, Preds
      <4>2. p \notin Subtree(t)
        BY <2>3, <4>1 DEF Succs
      <4> QED  BY <2>1, <2>2, <2>3, <4>1, <4>2
    <3>2. Preds(Edges', u) = Preds(Edges, u)
      BY <2>2, <3>1 DEF Preds
    <3>3. \A e \in Edges' : deps'[e] = deps[e]
      BY <2>1 DEF Among, Edges
    <3> QED  BY <3>1, <3>2, <3>3
  <2>6. Spares(S)
    BY <2>1, <2>4, <2>5 DEF Spares, Edit
  <2>7. \A u \in Tasks : version'[u] >= version[u]
    BY <1>0, <2>1
  <2>8. \A u \in alive' : version'[u] > 0
    BY <2>1 DEF Settling, Born
  <2> QED  BY <1>3, <2>1, <2>2, <2>6, <2>7, <2>8 DEF Edit, abandoned
<1>7. ASSUME NEW l \in Links, AddPredecessor(l)
      PROVE  Settling'
  <2> DEFINE S == {l[1][2]}
  <2>1. /\ l[1] \in Tasks \X Tasks /\ l[1][1] \in alive /\ l[1][2] \in alive
        /\ l[1] = <<l[1][1], l[1][2]>>
        /\ Edges' = Edges \cup {l[1]} /\ \A e \in Edges : e # l[1] => deps'[e] = deps[e]
        /\ pinned' = pinned \cup S /\ \A w \in Workers : fresh'[w] = fresh[w] \ S
        /\ UNCHANGED <<alive, dates, version, neglected>> /\ Edit
    BY <1>7, PipelineAssumption DEF AddPredecessor, Touched, Edges
  <2>2. Edges' \subseteq alive' \X alive'
    BY <2>1 DEF Settling, JoinedAlive
  <2>3. Spares(S)
    BY <2>1 DEF Spares, Edit, Preds
  <2>4. \A u \in Tasks : version'[u] >= version[u]
    BY <1>0, <2>1
  <2>5. \A u \in alive' : version'[u] > 0
    BY <2>1 DEF Settling, Born
  <2> HIDE DEF S
  <2> QED  BY <1>3, <2>1, <2>2, <2>3, <2>4, <2>5 DEF Edit, abandoned
<1> QED  BY <1>1, <1>2, <1>4, <1>5, <1>6, <1>7 DEF Human

(* Steps of a worker that end its transaction without effect, or do not    *)
(* begin one; those of the relay and of the group.                         *)
LEMMA OutsideSettling ==
  ASSUME IInv, IInv', Settling, Grows,
         UNCHANGED <<alive, dates, version, deps, outbox, processed, pinned, topic>>,
         neglected \subseteq neglected', abandoned' \subseteq processed \cup neglected',
         \A w \in Workers :
           \/ /\ phase'[w] = phase[w] /\ msg'[w] = msg[w] /\ seen'[w] = seen[w]
              /\ plan'[w] = plan[w] /\ fresh'[w] = fresh[w]
           \/ phase'[w] \notin Busy /\ fresh'[w] = {} /\ DOMAIN seen'[w] = {}
  PROVE  Settling'
<1>1. ASSUME NEW w \in Workers, phase'[w] \notin Busy, fresh'[w] = {}, DOMAIN seen'[w] = {}
      PROVE  Clean(w)' /\ Attentive(w)'
  BY <1>1 DEF Clean, Attentive, Deciding
<1>2. \A w \in Workers : SameSession(w, {}) \/ (Clean(w)' /\ Attentive(w)'
                           /\ \A t \in DOMAIN seen'[w] : version[t] > 0)
  BY <1>1 DEF SameSession
<1> QED  BY <1>2, QuietSettling

(* Steps of a worker within its transaction.                               *)
LEMMA InsideSettling ==
  ASSUME IInv, IInv', Settling, Grows,
         UNCHANGED <<alive, dates, version, deps, outbox, processed, pinned, neglected, dlq>>,
         NEW w \in Workers, phase'[w] \in Busy, Attentive(w)',
         \A t \in DOMAIN seen'[w] : t \in alive \cup DOMAIN seen[w],
         \A v \in Workers \ {w} :
           /\ phase'[v] = phase[v] /\ msg'[v] = msg[v] /\ seen'[v] = seen[v]
           /\ plan'[v] = plan[v] /\ fresh'[v] = fresh[v]
  PROVE  Settling'
<1>1. Clean(w)' /\ \A t \in DOMAIN seen'[w] : version[t] > 0
  BY DEF Clean, Settling, Born
<1>2. \A v \in Workers : SameSession(v, {}) \/ (Clean(v)' /\ Attentive(v)'
                           /\ \A t \in DOMAIN seen'[v] : version[t] > 0)
  BY <1>1 DEF SameSession
<1>3. abandoned' \subseteq processed \cup neglected'
  BY DEF Settling, NeglectedCounted, abandoned
<1> QED  BY <1>2, <1>3, QuietSettling

LEMMA ReadOriginSettling ==
  ASSUME IInv, IInv', Settling, Grows, NEW w \in Workers, ReadOrigin(w)
  PROVE  Settling'
<1>1. /\ phase'[w] = "begun" /\ DOMAIN seen'[w] = {origin(w)} /\ msg'[w] = msg[w]
      /\ seen'[w][origin(w)].date = dates[origin(w)] /\ origin(w) \in alive
  BY DEF ReadOrigin, IInv, TypeOK, GroupOK, SessionsOK
<1>2. UNCHANGED <<alive, dates, version, deps, outbox, processed, pinned, neglected, dlq>>
  BY DEF ReadOrigin
<1>3. \A v \in Workers \ {w} :
        /\ phase'[v] = phase[v] /\ msg'[v] = msg[v] /\ seen'[v] = seen[v]
        /\ plan'[v] = plan[v] /\ fresh'[v] = fresh[v]
  BY DEF ReadOrigin, IInv, TypeOK, GroupOK, SessionsOK
<1>4. SeenOrMoved(w)'
  BY <1>1, <1>2 DEF SeenOrMoved
<1>5. Attentive(w)'
  BY <1>1, <1>4 DEF Attentive, FreshSeen, AllRead, PlanSettles, PlanSpares
<1> QED  BY <1>1, <1>2, <1>3, <1>5, InsideSettling DEF Busy

LEMMA OriginGoneSettling ==
  ASSUME IInv, IInv', Settling, Grows, NEW w \in Workers, OriginGone(w)
  PROVE  Settling'
<1>1. /\ phase[w] = "polled" /\ phase'[w] = "computed" /\ origin(w) \notin alive
      /\ msg'[w] = msg[w] /\ seen'[w] = seen[w] /\ plan'[w] = plan[w] /\ fresh'[w] = fresh[w]
      /\ UNCHANGED <<outbox, topic>>
  BY DEF OriginGone, IInv, TypeOK, GroupOK
<1>2. UNCHANGED <<alive, dates, version, deps, outbox, processed, pinned, neglected, dlq>>
  BY DEF OriginGone
<1>3. \A v \in Workers \ {w} :
        /\ phase'[v] = phase[v] /\ msg'[v] = msg[v] /\ seen'[v] = seen[v]
        /\ plan'[v] = plan[v] /\ fresh'[v] = fresh[v]
  BY DEF OriginGone, IInv, TypeOK, GroupOK
<1>4. fresh[w] = {} /\ DOMAIN seen[w] = {} /\ DOMAIN plan[w] = {}
  BY <1>1 DEF Settling, Clean, Busy, IInv, Reading, PlansRead
<1>5. origin(w)' = origin(w)
  BY <1>1 DEF origin, event
<1>6. PlanSpares(w)'
  BY <1>1, <1>2, <1>4, <1>5 DEF PlanSpares, Settling, JoinedAlive, Preds, Edges
<1>7. Attentive(w)'
  BY <1>1, <1>4, <1>6 DEF Attentive, SeenOrMoved, FreshSeen, AllRead, PlanSettles
<1> QED  BY <1>1, <1>2, <1>3, <1>7, InsideSettling DEF Busy

LEMMA ReadTasksSettling ==
  ASSUME IInv, IInv', Settling, Grows, NEW w \in Workers, ReadTasks(w)
  PROVE  Settling'
<1>1. /\ phase[w] = "begun" /\ phase'[w] = "read" /\ msg'[w] = msg[w] /\ DOMAIN seen'[w] = alive
      /\ fresh'[w] = alive \ ({origin(w)} \ fresh[w]) /\ UNCHANGED <<outbox, topic>>
      /\ \A t \in alive : seen'[w][t] = IF t = origin(w) THEN seen[w][t]
                                        ELSE [date |-> dates[t], version |-> version[t]]
  BY DEF ReadTasks, IInv, TypeOK, GroupOK, SessionsOK
<1>2. UNCHANGED <<alive, dates, version, deps, outbox, processed, pinned, neglected, dlq>>
  BY DEF ReadTasks
<1>3. \A v \in Workers \ {w} :
        /\ phase'[v] = phase[v] /\ msg'[v] = msg[v] /\ seen'[v] = seen[v]
        /\ plan'[v] = plan[v] /\ fresh'[v] = fresh[v]
  BY DEF ReadTasks, IInv, TypeOK, GroupOK, SessionsOK
<1>4. origin(w)' = origin(w) /\ event(w)' = event(w)
  BY <1>1 DEF origin, event
<1>5. origin(w) \in DOMAIN seen[w]
  BY <1>1 DEF IInv, Reading, BegunRead
<1>6. Attentive(w)'
  <2> SUFFICES ASSUME Deciding(w)' PROVE Attentive(w)'
    BY DEF Attentive
  <2>1. Deciding(w)
    BY <1>1, <1>2, <1>4 DEF Deciding, Busy
  <2>2. SeenOrMoved(w)
    BY <2>1 DEF Settling, Attentive
  <2>3. SeenOrMoved(w)'
    <3> SUFFICES ASSUME NEW t \in alive
                 PROVE  \/ seen'[w][t].date = dates[t]
                        \/ t \notin fresh'[w] /\ \E e \in event(w) + 1 .. Len(outbox) : outbox[e] = t
      BY <1>1, <1>2, <1>4 DEF SeenOrMoved
    <3>1. CASE t = origin(w)
      BY <1>1, <1>5, <2>2, <3>1 DEF SeenOrMoved
    <3>2. CASE t # origin(w)
      <4>1. seen'[w][t] = [date |-> dates[t], version |-> version[t]]
        BY <1>1, <3>2
      <4> QED  BY <4>1
    <3> QED  BY <3>1, <3>2
  <2>4. FreshSeen(w)'
    BY <1>1, <1>2 DEF FreshSeen, Settling, JoinedAlive, Preds, Edges
  <2>5. AllRead(w)'
    BY <1>1, <1>2, <1>4 DEF AllRead
  <2> QED  BY <1>1, <2>3, <2>4, <2>5 DEF Attentive, PlanSettles, PlanSpares
<1> QED  BY <1>1, <1>2, <1>3, <1>6, InsideSettling DEF Busy

LEMMA OriginVanishedSettling ==
  ASSUME IInv, IInv', Settling, Grows, NEW w \in Workers, OriginVanished(w)
  PROVE  Settling'
<1>1. /\ phase[w] = "read" /\ phase'[w] = "computed" /\ origin(w) \notin DOMAIN seen[w]
      /\ msg'[w] = msg[w] /\ DOMAIN seen'[w] = {} /\ DOMAIN plan'[w] = {} /\ fresh'[w] = {}
      /\ UNCHANGED <<outbox, topic>>
  BY DEF OriginVanished, IInv, TypeOK, GroupOK, SessionsOK, Nothing
<1>2. UNCHANGED <<alive, dates, version, deps, outbox, processed, pinned, neglected, dlq>>
  BY DEF OriginVanished
<1>3. \A v \in Workers \ {w} :
        /\ phase'[v] = phase[v] /\ msg'[v] = msg[v] /\ seen'[v] = seen[v]
        /\ plan'[v] = plan[v] /\ fresh'[v] = fresh[v]
  BY DEF OriginVanished, IInv, TypeOK, GroupOK, SessionsOK
<1>4. origin(w)' = origin(w) /\ event(w)' = event(w)
  BY <1>1 DEF origin, event
<1>5. Attentive(w)'
  <2> SUFFICES ASSUME Deciding(w)' PROVE Attentive(w)'
    BY DEF Attentive
  <2>1. Deciding(w)
    BY <1>1, <1>2, <1>4 DEF Deciding, Busy
  <2>2. origin(w) \notin alive
    BY <1>1, <2>1 DEF Settling, Attentive, AllRead
  <2>3. PlanSpares(w)'
    BY <1>1, <1>2, <1>4, <2>2 DEF PlanSpares, Settling, JoinedAlive, Preds, Edges
  <2> QED  BY <1>1, <2>3 DEF Attentive, SeenOrMoved, FreshSeen, AllRead, PlanSettles
<1> QED  BY <1>1, <1>2, <1>3, <1>5, InsideSettling DEF Busy

(* A worker knows the dependencies among the tasks it has seen.            *)
LEMMA KnownEdges ==
  ASSUME NEW w \in Workers
  PROVE  /\ \A p, t : <<p, t>> \in DOMAIN Known(w)
                     <=> <<p, t>> \in Edges /\ p \in DOMAIN seen[w] /\ t \in DOMAIN seen[w]
         /\ \A e \in DOMAIN Known(w) : Known(w)[e] = deps[e]
<1> DEFINE S == DOMAIN seen[w]
<1>1. Known(w) = [e \in Edges \cap (S \X S) |-> deps[e]]
  BY Zenon DEF Known, Among, Edges
<1> HIDE DEF S
<1>2. DOMAIN Known(w) = Edges \cap (S \X S) /\ \A e \in DOMAIN Known(w) : Known(w)[e] = deps[e]
  BY <1>1
<1>3. \A p, t : <<p, t>> \in S \X S <=> p \in S /\ t \in S
  OBVIOUS
<1>4. \A p, t : <<p, t>> \in DOMAIN Known(w) <=> <<p, t>> \in Edges /\ <<p, t>> \in S \X S
  BY <1>2
<1> QED  BY <1>2, <1>3, <1>4 DEF S

LEMMA ComputeSettling ==
  ASSUME IInv, IInv', Settling, Grows, NEW w \in Workers, Compute(w)
  PROVE  Settling'
<1> DEFINE K == Known(w)
           A == Downstream(DOMAIN K, origin(w))
<1>1. PICK n \in Results(K, seenDates(w), origin(w)) :
        plan' = [plan EXCEPT ![w] = Changed(n, seenDates(w))]
  BY DEF Compute
<1>2. /\ phase[w] = "read" /\ phase'[w] = "computed" /\ origin(w) \in DOMAIN seen[w]
      /\ msg'[w] = msg[w] /\ seen'[w] = seen[w] /\ fresh'[w] = fresh[w] \cap A
      /\ UNCHANGED <<outbox, topic>>
  BY DEF Compute, IInv, TypeOK, GroupOK, SessionsOK
<1>3. UNCHANGED <<alive, dates, version, deps, outbox, processed, pinned, neglected, dlq>>
  BY DEF Compute
<1>4. \A v \in Workers \ {w} :
        /\ phase'[v] = phase[v] /\ msg'[v] = msg[v] /\ seen'[v] = seen[v]
        /\ plan'[v] = plan[v] /\ fresh'[v] = fresh[v]
  BY DEF Compute, IInv, TypeOK, GroupOK, SessionsOK
<1>5. origin(w)' = origin(w) /\ event(w)' = event(w) /\ origin(w) \in Tasks
  BY <1>2, Holding DEF origin, event, IInv
<1>6. DOMAIN seenDates(w) = DOMAIN seen[w] /\ DOMAIN seen[w] \subseteq Tasks
  BY DEF seenDates, IInv, TypeOK, SessionsOK, Partial
<1>7. DOMAIN n = DOMAIN seen[w] /\ n = [t \in DOMAIN seen[w] |-> n[t]]
  BY <1>6 DEF Results, SlidTo
<1>8. plan'[w] = Changed(n, seenDates(w))
  BY <1>1 DEF IInv, TypeOK, SessionsOK
<1>9. Placed(w)' = n
  <2>1. \A t \in DOMAIN seen[w] : Placed(w)'[t] = n[t]
    BY <1>2, <1>6, <1>7, <1>8 DEF Placed, Changed, seenDates
  <2>2. Placed(w)' = [t \in DOMAIN seen[w] |-> Placed(w)'[t]]
    BY <1>2 DEF Placed
  <2> QED  BY <1>7, <2>1, <2>2
<1>10. Tightens(K, seenDates(w), n, A)
  BY ResultTightens
<1>11. origin(w) \notin A
  BY <1>5, RootNotDownstream DEF Compute, Raises
<1>12. DOMAIN plan'[w] \subseteq A \cap DOMAIN seen[w]
  BY <1>6, <1>7, <1>8, <1>10 DEF Changed, Tightens
<1>13. /\ \A p, t : <<p, t>> \in DOMAIN K <=> <<p, t>> \in Edges /\ p \in DOMAIN seen[w]
                                                                /\ t \in DOMAIN seen[w]
       /\ \A e \in DOMAIN K : K[e] = deps[e]
  BY KnownEdges
<1>14. A \subseteq DOMAIN seen[w]
  <2> SUFFICES ASSUME NEW t \in A PROVE t \in DOMAIN seen[w]
    OBVIOUS
  <2>1. Preds(DOMAIN K, t) # {}
    BY <1>5, DownstreamFollows
  <2> HIDE DEF K
  <2>2. PICK p : <<p, t>> \in DOMAIN K
    BY <2>1 DEF Preds
  <2> QED  BY <1>13, <2>2
<1>15. Attentive(w)'
  <2> SUFFICES ASSUME Deciding(w)' PROVE Attentive(w)'
    BY DEF Attentive
  <2>1. Deciding(w)
    BY <1>2, <1>3, <1>5 DEF Deciding, Busy
  <2>2. SeenOrMoved(w) /\ FreshSeen(w) /\ AllRead(w)
    BY <2>1 DEF Settling, Attentive
  <2>3. SeenOrMoved(w)' /\ FreshSeen(w)' /\ AllRead(w)'
    BY <1>2, <1>3, <1>5, <2>2 DEF SeenOrMoved, FreshSeen, AllRead, Edges
  <2>4. PlanSettles(w)'
    <3> SUFFICES ASSUME NEW t \in fresh[w], t \in A PROVE Tight(deps, n, t)
      BY <1>2, <1>3, <1>9 DEF PlanSettles
    <3>1. Preds(Edges, t) \cup {t} \subseteq DOMAIN seen[w]
      BY <1>2, <2>2 DEF FreshSeen
    <3>2. Tight(K, n, t)
      BY <1>6, <1>10, <3>1 DEF Tightens
    <3> HIDE DEF K
    <3>3. Preds(DOMAIN K, t) = Preds(Edges, t)
      BY <1>13, <3>1 DEF Preds
    <3>4. \A p \in Preds(Edges, t) : deps[<<p, t>>] = K[<<p, t>>]
      BY <1>13, <3>1 DEF Preds
    <3> QED  BY <3>2, <3>3, <3>4, TightSameEdges DEF Edges
  <2>5. PlanSpares(w)'
    <3> SUFFICES ASSUME NEW t \in alive \ (pinned \cup fresh'[w])
                 PROVE  /\ (Preds(Edges, t) \cup {t}) \cap DOMAIN plan'[w] = {}
                        /\ origin(w) \notin Preds(Edges, t)
      BY <1>3, <1>5 DEF PlanSpares, Edges
    <3>1. t \notin A
      BY <1>2, <1>11, <1>14, <2>2 DEF AllRead
    <3>2. ASSUME NEW p \in Preds(Edges, t), p \in DOMAIN plan'[w] \cup {origin(w)}
          PROVE  FALSE
      <4>1. p \in DOMAIN seen[w] /\ p \in A \cup {origin(w)} /\ p \in Tasks /\ <<p, t>> \in Edges
        BY <1>2, <1>12, <3>2 DEF Preds
      <4>2. t \in DOMAIN seen[w]
        BY <1>2, <2>2 DEF AllRead
      <4>3. <<p, t>> \in DOMAIN K /\ t \in Tasks
        BY <1>6, <1>13, <4>1, <4>2
      <4>4. t \in Succs(DOMAIN K, p)
        BY <4>3 DEF Succs
      <4> QED  BY <1>5, <3>1, <4>1, <4>4, DownstreamClosed
    <3> QED  BY <1>12, <3>1, <3>2
  <2> QED  BY <2>3, <2>4, <2>5 DEF Attentive
<1> QED  BY <1>2, <1>3, <1>4, <1>15, InsideSettling DEF Busy

(* What the effect of a worker's event makes of the tasks' dates: those it *)
(* recomputed are tight, or wait for a later event; the others are as they *)
(* were, and wait for what they waited for.                                *)
LEMMA EffectConverges ==
  ASSUME IInv, IInv', Settling, NEW w \in Workers, Effect(w)
  PROVE  Converges'
<1> SUFFICES ASSUME neglected = {}, NEW t \in alive, t \notin pinned \ fresh[w],
                    ~ (Preds(Edges, t) = {}),
                    \A p \in Preds(Edges, t) : ~ Pending(p)'
             PROVE  Tight(deps, dates', t)
  BY DEF Converges, Effect, Edges
<1>1. /\ phase[w] = "computed" /\ processed' = processed \cup {event(w)} /\ Deciding(w)
      /\ \A u \in Tasks : dates'[u] = IF u \in DOMAIN plan[w] THEN plan[w][u] ELSE dates[u]
      /\ UNCHANGED outbox
  BY DEF Effect, MarkerFree, Deciding, Busy
<1>2. SeenOrMoved(w) /\ FreshSeen(w) /\ PlanSettles(w) /\ PlanSpares(w)
  BY <1>1 DEF Settling, Attentive
<1>3. t \in Tasks /\ Preds(Edges, t) \subseteq Tasks
  BY DEF IInv, TypeOK, RowsOK, Preds
<1>4. CASE t \in fresh[w]
  <2>1. Preds(Edges, t) \cup {t} \subseteq DOMAIN seen[w] /\ Tight(deps, Placed(w), t)
    BY <1>1, <1>2, <1>4 DEF FreshSeen, PlanSettles
  <2>2. ASSUME NEW u \in Preds(Edges, t) \cup {t}, u \notin DOMAIN plan[w]
        PROVE  seen[w][u].date = dates[u]
    <3> SUFFICES ASSUME u \notin fresh[w], NEW e \in event(w) + 1 .. Len(outbox), outbox[e] = u
                 PROVE  FALSE
      BY <1>2, <2>1 DEF SeenOrMoved
    <3>1. e \in 1 .. Len(outbox) /\ e # event(w) /\ e \notin processed
      BY <1>1, LaterPending DEF Settling
    <3>2. Pending(u)'
      BY <1>1, <3>1 DEF Pending
    <3> QED  BY <1>4, <3>2
  <2>3. \A u \in Preds(Edges, t) \cup {t} : dates'[u] = Placed(w)[u]
    BY <1>1, <1>3, <2>1, <2>2 DEF Placed
  <2> QED  BY <2>1, <2>3, TightAgrees DEF Edges
<1>5. CASE t \notin fresh[w]
  <2>1. /\ (Preds(Edges, t) \cup {t}) \cap DOMAIN plan[w] = {}
        /\ origin(w) \notin Preds(Edges, t)
    BY <1>1, <1>2, <1>5 DEF PlanSpares
  <2>2. ASSUME NEW p \in Preds(Edges, t), Pending(p)
        PROVE  FALSE
    <3>1. PICK e \in 1 .. Len(outbox) : outbox[e] = p /\ e \notin processed
      BY <2>2 DEF Pending
    <3>2. e # event(w)
      BY <2>1, <3>1 DEF origin
    <3>3. Pending(p)'
      BY <1>1, <3>1, <3>2 DEF Pending
    <3> QED  BY <3>3
  <2>3. Tight(deps, dates, t)
    BY <1>5, <2>2 DEF Settling, Converges
  <2>4. \A u \in Preds(Edges, t) \cup {t} : dates'[u] = dates[u]
    BY <1>1, <1>3, <2>1
  <2> QED  BY <2>3, <2>4, TightAgrees DEF Edges
<1> QED  BY <1>4, <1>5

LEMMA EffectSettling ==
  ASSUME IInv, IInv', Settling, Grows, NEW w \in Workers, Effect(w),
         phase'[w] \notin Busy, fresh'[w] = {}, DOMAIN seen'[w] = {},
         \A v \in Workers \ {w} :
           /\ phase'[v] = phase[v] /\ msg'[v] = msg[v] /\ seen'[v] = seen[v]
           /\ plan'[v] = plan[v] /\ fresh'[v] = fresh[v]
  PROVE  Settling'
<1>1. /\ phase[w] = "computed" /\ event(w) \notin processed
      /\ processed' = processed \cup {event(w)}
      /\ UNCHANGED <<alive, deps, outbox, topic, dlq, neglected>>
  BY DEF Effect, MarkerFree
<1>2. JoinedAlive'
  BY <1>1 DEF Settling, JoinedAlive, Edges
<1>3. Born'
  <2>1. \A t \in Tasks : version[t] > 0 => version'[t] > 0
    BY DEF Effect, IInv, TypeOK, RowsOK
  <2>2. alive \subseteq Tasks /\ \A e \in DOMAIN outbox : outbox[e] \in Tasks
    BY DEF IInv, TypeOK, RowsOK, LogsOK
  <2>3. \A v \in Workers : DOMAIN seen[v] \subseteq Tasks
    BY DEF IInv, TypeOK, SessionsOK, Partial
  <2>4. \A v \in Workers : DOMAIN seen'[v] \subseteq DOMAIN seen[v]
    OBVIOUS
  <2> QED  BY <1>1, <2>1, <2>2, <2>3, <2>4 DEF Settling, Born
<1>4. NeglectedCounted'
  BY <1>1 DEF Settling, NeglectedCounted, abandoned
<1>5. AppliedInOrder'
  <2>1. neglected = {} => \A f \in 1 .. event(w) - 1 : f \in processed
    BY <1>1, BeforeApplied DEF Settling
  <2> QED  BY <1>1, <2>1 DEF Settling, AppliedInOrder
<1>6. ASSUME NEW v \in Workers PROVE Clean(v)' /\ Attentive(v)'
  <2>1. CASE v = w
    BY <2>1 DEF Clean, Attentive, Deciding
  <2>2. CASE v # w
    <3>1. Clean(v)'
      BY <2>2 DEF Settling, Clean
    <3>2. ~ Deciding(v)'
      <4> SUFFICES ASSUME Deciding(v)' PROVE FALSE
        OBVIOUS
      <4>1. event(v)' = event(v)
        BY <1>1, <2>2 DEF event
      <4>2. Deciding(v) /\ Deciding(w) /\ event(v) # event(w)
        BY <1>1, <2>2, <4>1 DEF Deciding, Busy
      <4> QED  BY <4>2, SameEvent DEF Settling
    <3> QED  BY <3>1, <3>2 DEF Attentive
  <2> QED  BY <2>1, <2>2
<1> QED  BY <1>2, <1>3, <1>4, <1>5, <1>6, EffectConverges DEF Settling

-----------------------------------------------------------------------------
(* The theorem                                                             *)

LEMMA InitSettling == Init => Settling
<1> SUFFICES ASSUME Init PROVE Settling
  OBVIOUS
<1>1. JoinedAlive
  BY PipelineAssumption DEF Init, JoinedAlive, Edges
<1>2. Born /\ NeglectedCounted /\ AppliedInOrder
  BY DEF Init, Born, Nothing, NeglectedCounted, abandoned, AppliedInOrder
<1>3. Converges
  BY DEF Init, Converges
<1>4. \A w \in Workers : Clean(w) /\ Attentive(w)
  BY DEF Init, Clean, Attentive, Deciding, Busy, Nothing
<1> QED  BY <1>1, <1>2, <1>3, <1>4 DEF Settling

LEMMA RelaysSettling ==
  ASSUME IInv, IInv', Settling, Grows, Relay \/ RelayRestart \/ UNCHANGED vars
  PROVE  Settling'
<1>1. /\ UNCHANGED <<alive, dates, version, deps, outbox, processed, pinned, neglected, dlq>>
      /\ UNCHANGED <<phase, msg, seen, plan, fresh>>
  BY DEF Relay, RelayRestart, Fault, vars
<1>2. abandoned' \subseteq processed \cup neglected'
  BY <1>1 DEF Settling, NeglectedCounted, abandoned
<1> QED  BY <1>1, <1>2, QuietSettling DEF SameSession

LEMMA WorkSettling ==
  ASSUME IInv, IInv', Settling, Grows, NEW w \in Workers, Work(w)
  PROVE  Settling'
<1> USE DEF IInv, TypeOK, GroupOK, SessionsOK
<1>1. abandoned \subseteq processed \cup neglected
  BY DEF Settling, NeglectedCounted
<1>2. phase[w] \notin Busy => fresh[w] = {} /\ DOMAIN seen[w] = {}
  BY DEF Settling, Clean
<1>3. CASE Poll(w)
  BY <1>1, <1>2, <1>3, OutsideSettling DEF Poll, abandoned, Busy
<1>4. CASE Skip(w)
  BY <1>1, <1>2, <1>4, OutsideSettling DEF Skip, abandoned, Busy
<1>5. CASE CascadeRaises(w)
  BY <1>1, <1>5, OutsideSettling DEF CascadeRaises, abandoned, Busy, Nothing
<1>6. CASE Conflict(w)
  BY <1>1, <1>6, OutsideSettling DEF Conflict, abandoned, Busy, Nothing
<1>7. CASE Duplicate(w)
  BY <1>1, <1>7, OutsideSettling DEF Duplicate, abandoned, Busy, Nothing
<1>8. CASE Ack(w)
  BY <1>1, <1>2, <1>8, OutsideSettling DEF Ack, abandoned, Busy
<1>9. CASE DeadLetter(w)
  <2>1. abandoned' \subseteq processed \cup neglected'
    BY <1>1, <1>9, DeadLetterAbandons DEF DeadLetter
  <2> QED  BY <1>2, <1>9, <2>1, OutsideSettling DEF DeadLetter, Busy, Raised
<1>10. CASE Commit(w)
  BY <1>10, EffectSettling DEF Commit, Effect, Busy, Nothing
<1> QED
  BY <1>3, <1>4, <1>5, <1>6, <1>7, <1>8, <1>9, <1>10, ReadOriginSettling, OriginGoneSettling,
     ReadTasksSettling, ComputeSettling, OriginVanishedSettling DEF Work

LEMMA FailSettling ==
  ASSUME IInv, IInv', Settling, Grows, NEW w \in Workers, Fail(w)
  PROVE  Settling'
<1> USE DEF IInv, TypeOK, GroupOK, SessionsOK, Fault
<1>1. abandoned \subseteq processed \cup neglected
  BY DEF Settling, NeglectedCounted
<1>2. phase[w] \notin Busy => fresh[w] = {} /\ DOMAIN seen[w] = {}
  BY DEF Settling, Clean
<1>3. CASE DatabaseFails(w)
  BY <1>1, <1>3, OutsideSettling DEF DatabaseFails, abandoned, Busy, Nothing
<1>4. CASE CommitUnanswered(w)
  BY <1>4, EffectSettling DEF CommitUnanswered, Effect, Busy, Nothing
<1>5. CASE AckLost(w)
  BY <1>1, <1>2, <1>5, OutsideSettling DEF AckLost, abandoned, Busy
<1>6. CASE Crash(w)
  BY <1>1, <1>6, OutsideSettling DEF Crash, abandoned, Busy, Nothing
<1>7. CASE Rebalance(w)
  BY <1>1, <1>7, OutsideSettling DEF Rebalance, abandoned
<1> QED  BY <1>3, <1>4, <1>5, <1>6, <1>7 DEF Fail

LEMMA NextSettling == IInv /\ IInv' /\ Settling /\ [Next]_vars => Settling'
<1> SUFFICES ASSUME IInv, IInv', Settling, [Next]_vars PROVE Settling'
  OBVIOUS
<1>1. Grows
  BY Growth DEF IInv
<1> QED
  BY <1>1, HumanSettling, RelaysSettling, WorkSettling, FailSettling DEF Next, Drained

(* Once nothing is pending, only humans and lost events misplace a task: a *)
(* dependent one is where its predecessors put it, or a human has moved it *)
(* since, or an event was dead-lettered without effect, or the event of a  *)
(* predecessor's move is still to come, whatever is read late, redelivered *)
(* or recomputed (handler.py:34-112).                                      *)
THEOREM OnlyHumansMisplace == Spec => []Converges
<1>1. Init => Settling
  BY InitSettling
<1>2. IInv /\ IInv' /\ Settling /\ [Next]_vars => Settling'
  BY NextSettling
<1>3. Settling => Converges
  BY DEF Settling
<1> QED  BY <1>1, <1>2, <1>3, Invariance, PTL DEF Spec
=============================================================================
