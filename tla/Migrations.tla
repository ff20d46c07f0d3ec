----------------------------- MODULE Migrations -----------------------------
(***************************************************************************)
(* `alembic upgrade head`, which `python main.py migrate` and the image of *)
(* wf_core run, and `alembic downgrade`, by several runners on one         *)
(* database: the statements of the two migrations, the rows alembic writes *)
(* to alembic_version after each, and the one transaction that             *)
(* migrations/env.py opens around them all.                                *)
(*                                                                         *)
(* Alembic and Postgres are external.  A statement that needs a name on    *)
(* which another open transaction holds a lock waits; one that finds the   *)
(* names otherwise than it must fails, and alembic gives up.               *)
(***************************************************************************)
EXTENDS Schema, Integers, Sequences, FiniteSets, SequencesExt

CONSTANTS
  Runners,      \* the processes that run alembic
  MaxCommands   \* bound on the commands they run between them

ASSUME MigrationsAssumption == MaxCommands \in Nat

VARIABLES
  schema,      \* what is committed: the tables, the type and the rows of alembic_version
  (* the runners *)
  phase,       \* "idle" or "running"
  plan,        \* the statements the command has still to execute
  made,        \* what its open transaction has created and not dropped since
  gone,        \* what it has dropped
  result,      \* how its last command ended
  commands,    \* how many commands have been started
  (* history, read by no action's guard *)
  overtaken    \* another command has been committed since its own started

vars == <<schema, phase, plan, made, gone, result, commands, overtaken>>

-----------------------------------------------------------------------------
(* The migrations as statements.                                           *)

Statement(makes, drops, needs, ifExists) ==
  [makes |-> makes, drops |-> drops, needs |-> needs, ifExists |-> ifExists]

Create(name, needs) == Statement({name}, {}, needs, FALSE)
Drop(name) == Statement({}, {name}, {}, FALSE)
DropIfExists(name) == Statement({}, {name}, {}, TRUE)

AllTables == ToSet(InitialTables) \cup {DedupInbox}
Referenced(name) == UNION {{k.table : k \in t.keys} : t \in {u \in AllTables : u.name = name}}

(* op.create_table, and the type of a column of predecessor, which is      *)
(* created before that table.                                              *)
CreateTable(table) == Create(table.name, Referenced(table.name) \ {table.name})
Creates(tables) == [i \in DOMAIN tables |-> CreateTable(tables[i])]
CreateType == Create("deptype", {})

(* downgrade of 0001.  The first form is a slip: the type is left behind.  *)
ForgetsType == [i \in 1 .. Len(DroppedTables) |-> Drop(DroppedTables[i])]
DropInitial == ForgetsType \o <<DropIfExists("deptype")>>

CreateInitial ==
  Creates(Tenancy \o WorkSpine) \o <<CreateType>>
    \o Creates(DependenciesAndAssignment \o Time \o Outbox)

(* The revisions in order, and the row of alembic_version after each.      *)
Revisions == <<"0001_initial", "0002_dedup_inbox">>
Newest == Len(Revisions)
RowOf(n) == IF n = 0 THEN {} ELSE {Revisions[n]}

(* One row is inserted, updated or deleted, and alembic counts that it is. *)
Stamp(from, to) == Statement(RowOf(to), RowOf(from), {}, FALSE)

Up(n) == (IF n = 1 THEN CreateInitial ELSE <<CreateTable(DedupInbox)>>) \o <<Stamp(n - 1, n)>>
Down(n) == (IF n = 1 THEN DropInitial ELSE <<Drop(DedupInbox.name)>>) \o <<Stamp(n, n - 1)>>

(* What alembic executes to take the database from one revision to another.*)
Path(from, to) ==
  (IF from < 1 /\ to >= 1 THEN Up(1) ELSE <<>>)
    \o (IF from < 2 /\ to >= 2 THEN Up(2) ELSE <<>>)
    \o (IF from >= 2 /\ to < 2 THEN Down(2) ELSE <<>>)
    \o (IF from >= 1 /\ to < 1 THEN Down(1) ELSE <<>>)

-----------------------------------------------------------------------------
Rows(names) == names \cap ToSet(Revisions)

(* get_current_heads: the revision of the database.                        *)
Revision(names) == Max({0} \cup {n \in 1 .. Newest : Revisions[n] \in names})

Init ==
  /\ schema = {}
  /\ phase = [r \in Runners |-> "idle"]
  /\ plan = [r \in Runners |-> <<>>]
  /\ made = [r \in Runners |-> {}]
  /\ gone = [r \in Runners |-> {}]
  /\ result = [r \in Runners |-> "none"]
  /\ commands = 0
  /\ overtaken = [r \in Runners |-> FALSE]

(* main.py migrate, or alembic called by hand: the revision is read, and   *)
(* alembic_version is created if there is none.                            *)
Start(r, target) ==
  /\ phase[r] = "idle"
  /\ commands < MaxCommands
  /\ target \in {Newest} \cup 0 .. Revision(schema)
  /\ commands' = commands + 1
  /\ phase' = [phase EXCEPT ![r] = "running"]
  /\ plan' = [plan EXCEPT ![r] =
                (IF "alembic_version" \in schema THEN <<>>
                 ELSE <<Create("alembic_version", {})>>) \o Path(Revision(schema), target)]
  /\ overtaken' = [overtaken EXCEPT ![r] = FALSE]
  /\ UNCHANGED <<schema, made, gone, result>>

(* A statement sees what is committed when it executes, and what its own   *)
(* transaction has done.                                                   *)
Visible(r) == (schema \ gone[r]) \cup made[r]

(* Creating or dropping a table locks the tables it refers to.  A change   *)
(* of something that is not there waits for nobody.                        *)
Locks(names) == names \cup UNION {Referenced(n) : n \in names}
Waits(r, s) ==
  /\ s.drops \subseteq Visible(r)
  /\ \E other \in Runners \ {r} :
        Locks(s.makes \cup s.drops) \cap Locks(made[other] \cup gone[other]) # {}

Succeeds(r, s) ==
  /\ s.makes \cap Visible(r) = {}
  /\ s.needs \subseteq Visible(r)
  /\ s.ifExists \/ s.drops \subseteq Visible(r)
  /\ \A n \in Visible(r) \ s.drops : Referenced(n) \cap s.drops = {}

Execute(r) ==
  /\ phase[r] = "running"
  /\ plan[r] # <<>>
  /\ LET s == plan[r][1]
     IN  /\ ~ Waits(r, s)
         /\ Succeeds(r, s)
         /\ made' = [made EXCEPT ![r] = (@ \ s.drops) \cup s.makes]
         /\ gone' = [gone EXCEPT ![r] = (@ \cup s.drops) \ s.makes]
  /\ plan' = [plan EXCEPT ![r] = Tail(@)]
  /\ UNCHANGED <<schema, phase, result, commands, overtaken>>

(* The transaction of env.py ends, and the connection with it.  The first  *)
(* form is a slip: the connection is left open, with its locks.            *)
KeepsConnection(r, how) ==
  /\ phase' = [phase EXCEPT ![r] = "idle"]
  /\ plan' = [plan EXCEPT ![r] = <<>>]
  /\ result' = [result EXCEPT ![r] = how]
  /\ UNCHANGED <<made, gone, commands>>
Ends(r, how) ==
  /\ phase' = [phase EXCEPT ![r] = "idle"]
  /\ plan' = [plan EXCEPT ![r] = <<>>]
  /\ made' = [made EXCEPT ![r] = {}]
  /\ gone' = [gone EXCEPT ![r] = {}]
  /\ result' = [result EXCEPT ![r] = how]
  /\ UNCHANGED commands

(* A statement fails, the exception leaves both blocks of env.py, and the  *)
(* command returns an error.                                               *)
Refuse(r) ==
  /\ phase[r] = "running"
  /\ plan[r] # <<>>
  /\ LET s == plan[r][1] IN ~ Waits(r, s) /\ ~ Succeeds(r, s)
  /\ Ends(r, "refused")
  /\ UNCHANGED <<schema, overtaken>>

Commit(r) ==
  /\ phase[r] = "running"
  /\ plan[r] = <<>>
  /\ schema' = Visible(r)
  /\ overtaken' = [other \in Runners |->
                     overtaken[other] \/ (other # r /\ schema' # schema)]
  /\ Ends(r, "done")

(* The runner or its connection is lost.  Postgres undoes the transaction; *)
(* the first form is a slip: a migration without one.                      *)
KeepsStatements(r) == schema' = Visible(r)
Undone(r) == schema' = schema

Crash(r) ==
  /\ phase[r] = "running"
  /\ Undone(r)
  /\ Ends(r, "lost")
  /\ UNCHANGED overtaken

Idle ==
  /\ commands = MaxCommands
  /\ \A r \in Runners : phase[r] = "idle"
  /\ UNCHANGED vars

Next ==
  \/ \E r \in Runners :
       \/ \E target \in 0 .. Newest : Start(r, target)
       \/ Execute(r)
       \/ Refuse(r)
       \/ Commit(r)
       \/ Crash(r)
  \/ Idle

(* A command that has been started runs, and Postgres grants the locks.    *)
Fairness == \A r \in Runners : WF_vars(Execute(r) \/ Refuse(r) \/ Commit(r))

Spec == Init /\ [][Next]_vars /\ Fairness

-----------------------------------------------------------------------------
(* Properties                                                              *)

Names == {t.name : t \in AllTables} \cup {"deptype", "alembic_version"} \cup ToSet(Revisions)

(* Each variable has its type, and an idle runner holds no lock.           *)
TypeOK ==
  /\ schema \subseteq Names
  /\ phase \in [Runners -> {"idle", "running"}]
  /\ plan \in [Runners -> Seq([makes : SUBSET Names, drops : SUBSET Names,
                               needs : SUBSET Names, ifExists : BOOLEAN])]
  /\ made \in [Runners -> SUBSET Names] /\ gone \in [Runners -> SUBSET Names]
  /\ \A r \in Runners : phase[r] = "idle" => plan[r] = <<>> /\ made[r] \cup gone[r] = {}
  /\ result \in [Runners -> {"none", "done", "refused", "lost"}]
  /\ commands \in 0 .. MaxCommands
  /\ overtaken \in [Runners -> BOOLEAN]

TablesAt(n) ==
  (IF n >= 1 THEN {t.name : t \in ToSet(InitialTables)} \cup {"deptype"} ELSE {})
    \cup (IF n >= 2 THEN {DedupInbox.name} ELSE {})

(* What is committed is at every moment the schema of one revision, the    *)
(* one alembic_version names: whoever migrates at the same time, and       *)
(* wherever a migration is refused or lost (env.py:41-44).                 *)
SchemaMatchesRevision ==
  \E n \in 0 .. Newest :
     /\ Rows(schema) = RowOf(n)
     /\ schema \ (RowOf(n) \cup {"alembic_version"}) = TablesAt(n)

(* A migration is refused only when another one was committed after it     *)
(* had read the revision: every table is created after and dropped before  *)
(* those it refers to, and a downgrade leaves nothing that the next        *)
(* upgrade would meet (0001_initial.py:28-228, 0002_dedup_inbox.py:22-32). *)
RefusedOnlyIfOvertaken ==
  [][\A r \in Runners : Refuse(r) => overtaken[r]]_vars

Timestamps == {"created_at", "updated_at", "processed_at"}

(* The models as the migrations have them: a timestamp may be NULL.        *)
AsMigrated(t) ==
  Table(t.name, t.keys, t.required \ Timestamps, t.optional \cup (t.required \cap Timestamps),
        t.unique, t.indexes)

(* At head the tables are those the services query: the same columns,      *)
(* nullable where they were and the timestamps too, the same foreign keys  *)
(* with the same rule for deletes, the same unique keys and indexes        *)
(* (models.py:1, 79-351).                                                  *)
HeadIsModels ==
  RowOf(Newest) \subseteq schema =>
    {t \in AllTables : t.name \in schema} = {AsMigrated(t) : t \in Models}

(* Every command ends, so no two migrations wait for each other.           *)
EveryCommandEnds == \A r \in Runners : phase[r] = "running" ~> phase[r] = "idle"
=============================================================================
