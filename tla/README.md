# A TLA+ verification of the workfront scheduling core

The repository is a project-scheduling back end: tasks with planned dates,
typed dependencies between them, and a *cascade* that re-dates everything
downstream when one task moves. The difficulty is not the arithmetic. It is
that the same rows are written by people (through the api), by a worker (from a
Kafka topic) or by the api itself, that messages are delivered at least once,
and that viewers are kept up to date over sockets that come and go.

Paths below are relative to the repository's root.

## 1. The system

| part | state it keeps | operations | talks to |
|---|---|---|---|
| cascade algorithm, `services/worker/src/cascade.py` | none; updates the node dictionary it is given | `cascade` | called by the worker and by the api |
| api write handlers, `services/api/src/main.py` | tables `task`, `predecessor`, `outbox` | create, update, reschedule, delete a task; add a dependency | Postgres; the rooms |
| api inline cascade, `_run_cascade` | the same rows, one transaction per request | part of `reschedule_task` when `INLINE_CASCADE=true` | Postgres; the rooms |
| outbox relay, Debezium (external, `debezium/register-outbox.json`) | its position in the log | relay | Postgres to Kafka |
| worker consumer, `consumer.py` | fetch position, group offset | poll, commit, seek, dead-letter | Kafka; the handler |
| worker handler, `handler.py` | `processed_event`, task dates, `outbox` | `process_schedule_changed` | Postgres |
| sessions and models, `libs/wf_core` | `version_id_col`, transactions | commit, rollback, versioned UPDATE | Postgres |
| rooms, `ws.py`, and `GET /gantt` | sockets of each project, `seq` | subscribe, unsubscribe, broadcast, disconnect, read | viewers |
| fan-out, `services/ws_fanout`, `_redis_subscriber`, `push_local` | group offset, the messages on the way | poll, publish, commit, push | Kafka, Redis, sockets |
| schema and migrations, `libs/wf_core/migrations`, `models.py` | tables, `alembic_version` | upgrade, downgrade | Postgres |
| launcher, ids, projector, graph service, telemetry | - | - | - |

A move goes one of two ways. With `INLINE_CASCADE=true`, the default, the
request locks and writes the origin, reads the project, cascades, writes the
result, broadcasts and commits, all in one transaction. With it false the
request commits the move and an outbox row; Debezium relays the row to
`task.schedule.changed`, keyed by project; a member of the consumer group reads
it, checks the dedup inbox, reads the project, cascades, and commits the dates,
the inbox row and a `project.changed` row together; only then is the offset
committed. That row, relayed in its turn, is what `ws_fanout` publishes on Redis,
what `_redis_subscriber` takes from there, and what `push_local` sends to the sockets
of the project.

What is hard, and therefore what the properties are about:

* **Races for rows.** Reads and writes of a transaction are separate statements
  at READ COMMITTED; the only guard is the row version in the `WHERE` of an
  UPDATE, and a row that is only *read* has no guard.
* **At-least-once delivery.** A crash between two commits, a lost offset commit,
  a rebalance while the old owner is still at work, a restart of the relay.
* **Failure classification.** `StaleDataError` means retry; every other
  exception, a dropped connection included, means the dead-letter topic.
* **In-place recomputation** in one pass, correct only in a topological order.
* **Snapshot plus stream.** A viewer combines `GET /gantt` with numbered events;
  the number is read after the tasks, and given out before the commit; and with
  the pipeline on, two sources give out numbers.
* **A lossy last mile.** Kafka is replayed after a crash, Redis is not: what is
  published while nobody listens is gone.
* **Migrations.** Many statements and one transaction, perhaps two deployments.

`PROJECT.json` lists each of these hazards at its line.

## 2. The modules

```
Dependencies <- CascadeInputs <- CascadeContract      one call, in one step
                     ^       <- Cascade               the loops of cascade(); refines CascadeContract
                     |
               CascadeResults                         a call as its callers see it
                 ^         ^
   SchedulePipeline     InlineCascade                 INLINE_CASCADE=false / true
        |  refines
   EventLedger                                        what the pipeline promises of the moves

ProjectRoom                                           rooms, seq, GET /gantt and one viewer
   ^
LiveRoom  <- FanOut                                   the room with the pipeline on
               |  refines
             RecordStream                             what the fan-out promises

Schema <- Migrations                                  the tables, and how they come to be

CascadeFacts                                          what schedules a cascade may leave
CascadeProofs, SchedulePipelineProofs, InlineProofs   theorems
FanOutProofs, RoomProofs, LiveRoomProofs, MigrationProofs
MC*                                                   instances for TLC
```

**Cascade.** One iteration of a loop of `cascade()` is one step: `Collect`
(`while stack`), `CountPredecessors`, `Order` (`while queue`), `RaiseCycle`,
`Keep` or `Slide` (`for tid in topo`), `Return`. `node` is the dictionary, updated in
place. The stack and the queue are sets because nothing fixes their order in the
code (`affected` is a Python `set`, edges come from a query without ORDER BY), so
the results hold for every order. Dates are integers, lags are integers of any
sign, and durations may be negative, since no code refuses them.

**CascadeContract** is the call in one step, and `ImplementsContract` says the
loops implement it: they end, raise exactly when there is a cycle downstream of
the root, and otherwise leave every downstream task *tight* (all its constraints
hold and one holds exactly) and everything else where it was. **CascadeResults**
turns the contract into operators for the callers: `Results` is what may be
returned, `Raises` also covers a date outside the range of `datetime`, which
`Times` bounds.

**SchedulePipeline.** `tables`, `outbox` and `inbox` are the rows; `topic`, `owner`,
`position`, `committed` and `dlq` are one partition of Kafka (a project has one
partition, by its key) and the group's state; `phase`, `msg`, `seen` and `plan` are
the workers, one action per statement of the handler: `Poll`, `Skip`,
`ReadOrigin`, `OriginGone`, `ReadTasks`, `Compute`, `OriginVanished`,
`CascadeRaises`, then `Commit`, `Conflict` or `Duplicate`, then `DeadLetter` and `Ack`.
The api's handlers are one transaction each (`RescheduleTask`, `ConfirmTask` for a
move to the dates already there, which issues no UPDATE, `CreateTask`, `UpdateTask`,
`DeleteTask`, which takes the `Subtree` along by the foreign key on `parent_id`,
`AddPredecessor`). `Parents` is that tree and `Later` are the tasks that do not exist
yet. Faults are `Crash`, `Rebalance`, `DatabaseFails`, `CommitUnanswered` (the server committed, the client saw an error), `AckLost` and
`RelayRestart`. `pinned`, `fresh` and `neglected` are history variables that no
guard reads. Tasks without dates are left out of the tables: the handler drops
them from `nodes` together with their edges.

**EventLedger** is what all this promises: moves are dealt with in order, none is
skipped, each takes effect and is announced at most once, and each is dealt with
in the end, by taking effect or by being dead-lettered.

**InlineCascade.** A request is `LoadTask`, `UpdateRow` or `NothingToMove`,
`ReadTasks`, `Compute`, then one `UpdateRow` per changed row and `Commit`. `written`
holds the rows a transaction has updated, which are the rows it has locked. A
flush updates rows in the order of their primary keys, `Key`; an UPDATE waits for
the lock and then finds its version or does not (`Conflict`, 409). Two requests can
wait for each other, and `DeadlockVictim` is Postgres breaking that. The origin is
in the session's identity map, so the second query does not refresh it; if it has
been deleted by then, the cascade does nothing (`OriginVanished`). The other handlers
commit anywhere between these steps, a transaction each: `UpdateTask`, `CreateTask`,
`DeleteTask`, which waits for the locked rows of the `Subtree` that goes, and
`AddPredecessor`, which waits for nobody, since the lock of its foreign keys does not
conflict with that of an UPDATE. `alive` are the rows there are; a key is never used
again. `known`, `pinned`, `overtaken` and `skewed` are history that no guard reads:
`known` are the dependencies that a request's cascade has read, from which follow the
tasks it was to recompute and whose dependencies are still those (`Recomputed`).

**ProjectRoom.** The steps between two awaits are one action. A request announces
(`broadcast` numbers the event and copies the room), sends to one socket after the
other, and only then commits or rolls back. `GET /gantt` is `ReadTasks` and, later,
`Answer`, which reads the seq. The viewer is not code of the repository: it does
what `docs/api-contract.md:57-58` asks of a client, and no better or worse, except
that it keeps the events that arrive during a fetch until the fetch is answered.
One viewer is followed through all its sockets; the other viewers only delay a
broadcast, which is why its sends may come in any order.

**FanOut** is `ws_fanout.run` on one partition, a step for each call: `Join` (a group
without an offset is given the end of the partition), `Poll`, `Publish`, `Commit`,
which does not wait and may be lost, and `Stop` anywhere. **RecordStream** is what it
promises: records are published in their order, and none is left out once an offset
has been committed. Repeating one is no news.

**LiveRoom** extends `ProjectRoom` by everything that lies between the worker's commit and
the socket: `CascadeCommits` (dates and outbox row in one transaction), `Relay`, the
fan-out, Redis as a queue that exists only while the subscriber is linked, the
subscriber (`Link`, `TakeMessage`, `PushTo`, one send at a time, and `Unlink`), and
`ProjectRoom`'s own steps, which go on beside it (`RoomStep`, `SocketDrops`,
`ApiRestarts`). An event of the pipeline carries its Kafka offset as its seq, as in the
code. `told`, `ignored` and `crossed` are history.

**Schema** writes the tables down as the repository does, once from the migrations and
once from the models: columns and whether they may be NULL, foreign keys and their
rule for deletes, unique keys, indexes; not types and defaults. **Migrations** turns the
first into statements and executes them: a runner reads the revision (`Start`), executes
one statement after the other in the transaction that `env.py` opens, waits for locks,
is refused when a name is not as the statement needs it, commits, or is lost.

Operators named as slips (`SeqGivenAgain`, `RowsMatch`, `AfterMessage`, ...) are
plausible mistakes, each used to see that a property would notice it.

## 3. The runs

| run | instance | shows |
|---|---|---|
| MCCascade | every graph of three tasks, every forward graph of four, a triangle with all types and lags of both signs; the root moved three ways | `TypeOK`, `LoopInvariant`, `SettledStayTight`, `ChangesExact`, `ImplementsContract` |
| MCPipelineEdits | a chain of three whose last task is a part of its first, a fourth task still to be created; two workers, two moves, and two upsets: other edits (rename, create, delete, a link ahead, one to the new task or one that closes a cycle), at most one of them a crash or rebalance instead | `Converges`, `HumanEditsSurvive` |
| MCPipelineFaults | a pair, two workers, two moves, any two faults | `TypeOK`, `NothingSkipped`, `ImplementsLedger` |
| MCPipelineDeadLetter | one move, one database failure | `OnlyPoisonDeadLettered` fails |
| MCInlineCascade | chain, join and cycle of three, with a fourth task still to be created and the second a part of the third; three calls: up to three requests, two at a time, and up to two edits (rename, create, delete, a link past a task, one that closes a cycle, one to the new task) | `TypeOK`, `OneWinner`, `ConvergesUnlessOvertaken`, `NoLostUpdate`, `TightUnlessOvertaken` |
| MCInlineLiveness | the same, two requests, no edit | `EveryRequestAnswered` |
| MCInlineSkew | the join, two requests | `QuietConverges` fails |
| MCProjectRoom | an ordinary change and a reschedule, two sockets, two subscriptions, drops, rollbacks and one restart | `TypeOK`, `NonePassedOver`, `MissesOnlyRaces`, `CatchesUp` |
| MCRoomRace | the same without faults | `UpToDate` fails |
| MCLiveRoom | one request, one cascade, whose record the relay may repeat; one visit; one fault of any kind: a stop of the fan-out, a lost link, a dropped socket, a restart | `LiveTypeOK`, `ToldIsShown`, `MissesNoRequest`, `StreamKept`, `ReachesTheViewer` |
| MCLiveRoomSeq | the same without faults, with a record of another project | `IgnoresOnlyOldNews` fails |
| MCMigrations | two runners, five commands between them, up to head from any revision and down to any below | `TypeOK`, `SchemaMatchesRevision`, `HeadIsModels`, `RefusedOnlyIfOvertaken`, `EveryCommandEnds` |

Why the bounds are enough to be interesting: three tasks give a task with two
predecessors, a path of length two and a cycle; four give paths of different
lengths that meet. Two workers and two faults give a redelivery whose first
delivery is still in progress, a rebalance after a crash, a lost commit followed
by a relay restart; two other edits let a task be created and linked while an event
is on its way. Two moves give a second event behind a message that is being
retried. Two overlapping requests give both the lock cycle (`Key` makes the chain's
last task the first to be updated) and the write skew; the third comes after a
winner and a loser, or is an edit between their statements. Two edits beside one request
let a task be created and linked, or linked and deleted, while its cascade is at work. With two changes, one broadcast can overtake the other, and
with two sockets the viewer comes back while the room still holds its old one.
In `MCLiveRoom` the one fault may fall before, between or after any two steps of the
whole path; a viewer that comes back is the business of `MCProjectRoom`, and the record
of another project, which shifts the offsets, that of `MCLiveRoomSeq`. Five commands let
one runner go up, down and up again while the other overtakes it twice.
Every action of every module fires in a passing run.

Symmetry is used for workers and requests, in runs without liveness, and never
for tasks, whose dates and keys tell them apart. Deadlock is checked
everywhere: the stuttering steps `Terminated`, `Drained` and `Idle` are enabled only
where there is really nothing left to do.

**Budgets.** `MaxMoves`, `MaxEdits`, `MaxCalls` (the two together), `MaxFaults`, `MaxUpsets`, `MaxSockets`, `MaxVisits`,
`MaxRestarts`, `MaxRecords`, `MaxStops`, `MaxTroubles` and `MaxCommands` bound how often
people, faults and reconnections act. Liveness is
therefore claimed for finitely many of them, which matters in one place: a worker
whose every attempt meets a new human edit seeks back without end, so the code
guarantees progress only when the edits stop for as long as one attempt.

**Fairness.** `Cascade`: one thread, loops that do not block. `SchedulePipeline`:
weak fairness of the relay and of each worker's own steps, which says both are
running or restarted; none for people or faults. `InlineCascade`: weak fairness of
each admitted request, which the event loop and Postgres (locks are released,
deadlocks broken) justify; `MCInlineLiveness` has no edits, which could only end a wait. `ProjectRoom`: the same for requests and `GET /gantt`,
and for a viewer that listens and refetches. `LiveRoom`: weak fairness of the fan-out's
loop, which whoever supervises it starts again, and of the subscriber, which reconnects
for ever; none for the viewer, who may never read. `Migrations`: of a command that has
been started, none for the people who start them.

## 4. What is proved

The proofs need only the `ASSUME`s beside the constants: a finite set of tasks,
well-typed graphs, dates and moves, and natural budgets.

**CascadeFacts.** What the callers of a cascade need to know of it, from `Results` alone:
the tasks downstream of a root are closed under successors, whether a task is tight
depends on its own dates, those of its predecessors and its own dependencies, and the
dates of a tight task are determined by them. `RescheduledIsUnique` puts this together:
where two schedules that a cascade may leave differ, each task that differs has a
predecessor that differs, so the differences go round a cycle, and a cascade that does not
raise has none downstream. The order in which the code visits rows and sets changes no date.

**CascadeProofs.** The inductive invariant is `IInv`, the type invariant together
with `LoopInvariant`, one conjunct per loop: what has been collected is downstream
and the stack holds the rest; counts equal the predecessors not yet ordered, and the
queue holds those with none; `topo` is duplicate-free and closed under affected
predecessors; every settled task is tight and every other has the dates it was
given; `changes` lists the settled tasks that moved. `SettledStayTight` is not
inductive alone: that a later move cannot disturb a settled task follows from the
order of `topo`, and that in turn from the counts. From the invariant follow
`TypeCorrect`, `SettledTasksStayTight`, `ChangesAreExact`, and
`ImplementsContractSafety`, the step-by-step refinement of the contract. The
delicate point is that a topological order falls short exactly when there is a
cycle: the tasks left out each have a predecessor that is left out.
`CallsAppearAsResults` is the bridge to the other components: what a call has returned is
the one member of the `Results` that they take it from (`RescheduledIsUnique`), if all its
dates are in `Times`; otherwise, or if it has raised, they see it raise (`Raises`).

**SchedulePipelineProofs.** `IInv` is `TypeOK`, `Order` and `Reading`. `Order` relates
the relay, the topic, the offsets and each worker's message: ids on the topic never
run ahead of what precedes them, everything before the position a worker may resume
from is settled, and a worker holds only a message whose predecessors are settled.
It is needed because `NothingSkipped` speaks of the committed offset only, while the
offset is committed from a message fetched long before, perhaps by a worker that no
longer owns the partition. `Reading` says what a worker's plan may contain given what
it has read. There is one lemma per action. The theorems are `TypeCorrect`,
`NoMessageSkipped`, `HumanEditsAreKept`, and `ImplementsLedgerSafety`, the refinement
of the safety part of the ledger, for any number of workers, moves, edits and faults
and for any dependencies.

`OnlyHumansMisplace`, that is `Converges`, has an invariant of its own on top, `Settling`.
Its centre is `Attentive`, about a worker whose event has not yet taken effect:
what it has read is current or has been moved by a human whose event comes later
(`SeenOrMoved`); it has read the predecessors of all it may recompute (`FreshSeen`), and
every task that no human has touched (`AllRead`); and its plan, once made, settles the
former and spares the rest (`PlanSettles`, `PlanSpares`). Two workers may be at it at once
after a rebalance. They hold the same event (`SameEvent`), and the first to commit takes
it from the other, whose marker is then a duplicate; this is where `Order` comes in, and
`AppliedInOrder`. The step that matters is `EffectConverges`: after the commit each task is
tight, or was read before a move whose event is still to come.

**InlineProofs.** The conjuncts of `IInv` say what a request has loaded and plans (`Loaded`),
which rows it has locked at each phase (`OriginLocked`), that a row it has locked still has
the version it loaded, because the lock keeps everyone else off (`LocksHold`), that a row
with the version it loaded also has the dates it loaded (`SeenVersioned`), and that a
winner has left its origin a later version (`WinnerPassed`). From this follow
`TypeInvariant` (no row is held by two requests), `AtMostOneWinner` and
`NoDateOverwrittenUnread`, for any number of requests. `SuccessTightens` and
`OnlyRacesMisplace` (`ConvergesUnlessOvertaken`) need `Placement` as well: the dates that a
request has loaded are those of now unless another has moved the task since
(`SeenUnlessOvertaken`), its plan makes all that follows the origin tight by the
dependencies it has read (`PlanTightens`), the rows it has updated hold that plan
(`WritesPlan`), and a dependency it has read is still there, and the same, unless one of its
tasks is gone for good (`KnownStands`; `Born` tells a task that is gone from one yet to
come). At a commit a task that was to be recomputed and has kept its dependencies is tight
by them (`CommitTightens`); any other was tight before, and the commit has written neither
it nor a predecessor (`CommitConverges`). Edits move nothing and put out of place only what
they pin (`EditPlacement`).

**FanOutProofs.** `StreamInv` relates the committed offset, the position and what has been
heard; `StreamInvariant` is its invariance. A stop goes back to the committed offset, so
the point of it is that everything between that offset and the last one published has
been published. `FanOutKeepsStream` is the refinement of `RecordStream`, complete, since
that specification has no fairness.

**RoomProofs.** `NonePassedOver` is about numbers that have left the server, so its
strengthening follows them: the numbers given out are distinct and at most `seq`
(`NumbersUnique`), each event on the wire is about the change that has its number
(`WireNumbered`), and within the life of one api process the cursor is not ahead of `seq`
(`CursorBehind`). The theorems are `TypeInvariant` and `NoneIsPassedOver`.
`QuietViewerMissesOnlyRaces` (`MissesOnlyRaces`) follows each change further: one with a
number above the cursor is owed to the viewer's socket, or the wire carries that number or a
later one (`OnItsWay`); what the last Gantt lacks of the changes up to its seq raced with it
(`GanttShows`); and nothing is shown that was not announced (`ShowsAnnounced`).

**LiveRoomProofs.** `LiveTypeInvariant`, and three theorems about the composition.
`LiveFanOutKeepsStream` carries `StreamInv` and the refinement of `RecordStream` over: no step
of the room or of the subscriber touches the fan-out (`LiveStepOfFanOut`). The other two use
one invariant, `LInv`. For `ToldCascadesAreShown` it says that whatever is between the worker's
commit and the wire is committed (`RelaysCommitted`), that a cascade the viewer was told of is
shown, was ignored, or makes it fetch (`ToldComes`), and that a fetch finds it. For
`PipelineCostsNoRequest` the invariant of the room is not enough, because the offset of a
record may be taken for a number of the api: `CountsOwn` says that until a record has moved
the cursor (`crossed`) it is at most `seq`, and the viewer has applied every event since its
Gantt up to it; `OnItsWay` and `GanttShows` follow the requests as in the room.

**MigrationProofs.** The tables and the order of the statements are constants of the code; the
runners, their commands and the moments at which they overtake each other are not. A
`Script` is a list of statements each of which finds the names as it needs them.
`FirstUp`, `SecondUp`, `SecondDown` and `FirstDown` say that each half of each migration is a
script from one revision's names to the other's: every table comes after those it refers to
(`RefersBack`), and none is dropped that another still refers to (`DroppedAll`).
The inductive invariant, `Strong`, says that each open transaction is in the middle of a
script from a schema `S` that was committed once. What keeps two of them apart is that all that
start from the same schema meet at one name, its `Claim` (`alembic_version`, then `customer`,
then the row of the revision), which both must create or drop: whoever has touched it finds
`schema = S` until it ends, and no two have touched it (`Exclusive`; the type, which
`DROP TYPE IF EXISTS` passes over when it is gone, is the one name two may touch). From this
follow `TypesHold`, `CommittedIsOneRevision` and `OnlyTheOvertakenAreRefused`.
`HeadHasTheModels` adds the comparison of the sixteen tables with the models, field by field.

**Only model-checked.** Liveness (termination of the call, every move dealt with, every
request answered, the viewer catching up, a cascade reaching it, every migration ending),
since the prover has neither fairness nor ENABLED; of `ImplementsContract` and
`ImplementsLedger` only the safety parts are proved for that reason. Every invariant and
every action property of a passing run is a theorem. The four properties that fail
(section 5) are of course none.

## 5. What the code does not do

Four statements of the repository's documentation or design are not what the code does;
each is a run that TLC refutes.

* **Dead letters** (`consumer.py:101`). `docs/event-flow.md:67` has "on error: retry w/
  backoff; after N"; the code gives up at the first error of any kind but a version
  conflict. A moment without a database loses the cascade of a good message.
* **Inline write skew** (`main.py:393`). Requests that move two predecessors of one
  task overlap; each recomputes it from the other's old dates and both get 200.
  The design requires that "Concurrent edits + cascades must not corrupt
  schedules". `TightUnlessOvertaken` and `ConvergesUnlessOvertaken` state what does hold.
  One call at a time, only what was asked for is out of place: a task moved by hand, or one
  that was given or lost a dependency, since neither `add_predecessor` nor `delete_task`
  recomputes anything. Beside that a task is out of place only where a call has overlapped
  a request: one that moved what the request had read, or one that changed the
  dependencies of a task after the request had read them (`main.py:407`) and before it
  wrote that task or a predecessor of it. The same handler behind the queue is serialized
  by the partition.
* **The Gantt's cursor** (`main.py:200`). The seq is read after the tasks and given
  out before the commit; a change in between is in neither the snapshot nor the
  events after the cursor. `MissesOnlyRaces` bounds the damage: nothing else is missed.
* **Monotonic seq** (`ws.py:46`). With the pipeline on, the events of a project are numbered
  by two sources, a counter of the api process and the offset in Kafka, and the Gantt and
  the answer to a subscription know only the first. A viewer ignores a cascade whose
  offset is below a counter it has already seen (`MCLiveRoomSeq`, without any fault), and
  an offset far above the counter hides the task events after it. The counter also starts
  from zero when the api restarts. `MissesNoRequest` says the first kind of number is
  safe as long as the second has not moved the cursor.

More is visible in the models without a run of its own. The
`schedule.cascade` event does not carry the new dates of the task that was moved, so
other viewers learn them only from their next fetch (`Reschedules` in `ProjectRoom`). And a
viewer that was sent an event whose commit then failed keeps showing it. The models
say that timestamps (`created_at`, `updated_at`, `processed_at`) are not NULL, the
migrations let them be (`AsMigrated` in `Migrations`). And head has sixteen tables, where
`docs/book/part1/02-data-model-and-schema.md:6` counts fifteen.

## 6. What is not modelled

* Tasks without dates, and edges between projects, which the code filters out before it
  computes anything.
* Authentication by customer header and 404 answers: reads that change nothing. With them
  customers, projects and `GET /projects`: single inserts and reads.
* In `InlineCascade`, the statements of the handlers other than `reschedule_task`: each is
  one step, taken when no request holds the rows it needs. What such a handler answers when
  it comes second (409 or 404) changes nothing; the locks it holds between its flush and
  its commit delay a request, as if the edit had come later or the request had failed.
* The time between the two SELECTs of `GET /gantt`, tasks and dependencies, which are the
  one step `ReadTasks` of `ProjectRoom`: no property there tells them apart.
* Several api replicas: `ws.py:6-8` says the rooms do not support them.
* A record the fan-out cannot parse: it would end the process at each start, but every
  payload is written with `json` by the worker.
* The size of buffers and pools. `broadcast` is awaited before the commit, so a viewer that
  does not drain its socket holds row locks and a connection; the models take a send to
  return.
* Column types, defaults and the offline mode of the migrations.
* `uuid7`: no state, and nothing relies on the order of the ids it makes.
* `run` of the launcher, which starts and stops development servers; telemetry,
  configuration, load scripts; and the stubs (projector, graph service), which have no
  protocol of their own.

## 7. The plan

Done: the algorithm with its contract; the pipeline with its ledger and its task tree; the
inline cascade and its locks; the room; the fan-out, alone and in front of the room; the
schema and its migrations; and a theorem for each invariant and each action property that
the runs check. Next, in this order:

1. What the theorems say together: that the dates the pipeline leaves when all is processed
   are a function of the origins and the dependencies, from `OnlyHumansMisplace` and
   `RescheduledIsUnique`; that requests one at a time end where the worker would have.
2. `LiveRoom` without events of the pipeline as a refinement of `ProjectRoom`, so that the
   room's theorems need not be repeated for it.
3. A larger instance of `MCLiveRoom`, with a second visit, if symmetry can pay for it.
