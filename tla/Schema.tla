------------------------------- MODULE Schema -------------------------------
(***************************************************************************)
(* The tables of the system, written down twice in the repository: by the  *)
(* migrations, which create them in this order, and by the models, which   *)
(* the services query them through.  Of a column it is kept whether it may *)
(* be NULL and what it refers to, not its type.  Every table but           *)
(* processed_event has the primary key id.                                 *)
(***************************************************************************)
EXTENDS SequencesExt

Key(column, table, rule, nullable) ==
  [column |-> column, table |-> table, rule |-> rule, nullable |-> nullable]

(* A foreign key of a row that goes with the one it refers to, whether it  *)
(* must refer to one or may, and of a row that stays without it.           *)
PartOf(column, table) == Key(column, table, "CASCADE", FALSE)
MaybePartOf(column, table) == Key(column, table, "CASCADE", TRUE)
Link(column, table) == Key(column, table, "SET NULL", TRUE)

Table(name, keys, required, optional, unique, indexes) ==
  [name |-> name, keys |-> keys, required |-> required, optional |-> optional,
   unique |-> unique, indexes |-> indexes]

-----------------------------------------------------------------------------
(* migrations/versions/0001_initial.py, upgrade.  The first form of        *)
(* _tenant_fk is a slip: the rule for deletes is forgotten.                *)

NoRule == Key("customer_id", "customer", "NO ACTION", FALSE)
TenantFk == PartOf("customer_id", "customer")

Tenancy == <<
  Table("customer", {}, {"name"}, {"created_at"}, {}, {}),
  Table("user", {TenantFk}, {"email", "name", "is_active"}, {"created_at"},
        {<<"customer_id", "email">>}, {}),
  Table("team", {TenantFk, Link("parent_id", "team")}, {"name"}, {}, {}, {<<"customer_id">>}),
  Table("group", {TenantFk, Link("parent_id", "group")}, {"name"}, {}, {}, {<<"customer_id">>}),
  Table("role", {TenantFk}, {"name"}, {}, {}, {<<"customer_id">>}) >>

WorkSpine == <<
  Table("portfolio", {TenantFk}, {"name", "custom_attributes"}, {"created_at", "updated_at"},
        {}, {<<"customer_id">>}),
  Table("program", {TenantFk, Link("portfolio_id", "portfolio")}, {"name"},
        {"created_at", "updated_at"}, {}, {<<"customer_id", "portfolio_id">>}),
  Table("project",
        {TenantFk, Link("portfolio_id", "portfolio"), Link("program_id", "program"),
         Link("owner_id", "user")},
        {"name", "status", "percent_complete", "version", "custom_attributes"},
        {"planned_start", "planned_completion", "created_at", "updated_at"},
        {}, {<<"customer_id", "program_id">>, <<"customer_id", "status">>}),
  Table("task",
        {TenantFk, PartOf("project_id", "project"), MaybePartOf("parent_id", "task")},
        {"name", "status", "work_required_minutes", "percent_complete", "version",
         "custom_attributes"},
        {"planned_start", "planned_completion", "calendar_id", "created_at", "updated_at"},
        {}, {<<"customer_id", "project_id">>, <<"customer_id", "parent_id">>,
             <<"customer_id", "status", "planned_completion">>}),
  Table("issue", {TenantFk, PartOf("project_id", "project")},
        {"name", "type", "status", "custom_attributes"}, {"created_at", "updated_at"},
        {}, {<<"customer_id", "project_id", "status">>}) >>

DependenciesAndAssignment == <<
  Table("predecessor",
        {TenantFk, PartOf("predecessor_id", "task"), PartOf("successor_id", "task")},
        {"type", "lag_minutes"}, {}, {<<"predecessor_id", "successor_id">>},
        {<<"customer_id", "predecessor_id">>, <<"customer_id", "successor_id">>}),
  Table("assignment",
        {TenantFk, PartOf("task_id", "task"), PartOf("assigned_to_id", "user"),
         Link("role_id", "role"), Link("team_id", "team")},
        {"assignment_percent"}, {}, {},
        {<<"customer_id", "task_id">>, <<"customer_id", "assigned_to_id">>}) >>

Time == <<
  Table("hour", {TenantFk, PartOf("task_id", "task"), PartOf("user_id", "user")},
        {"logged_date", "minutes"}, {"description", "created_at"}, {},
        {<<"customer_id", "task_id">>, <<"customer_id", "user_id", "logged_date">>}),
  Table("timesheet", {TenantFk, PartOf("user_id", "user")},
        {"start_date", "end_date", "status"}, {}, {}, {<<"customer_id", "user_id">>}) >>

Outbox == <<
  Table("outbox", {TenantFk},
        {"aggregate_type", "aggregate_id", "event_type", "partition_key", "payload"},
        {"created_at"}, {}, {<<"created_at">>}) >>

InitialTables == Tenancy \o WorkSpine \o DependenciesAndAssignment \o Time \o Outbox

(* and downgrade                                                           *)
DroppedTables ==
  << "outbox", "timesheet", "hour", "assignment", "predecessor",
     "issue", "task", "project", "program", "portfolio",
     "role", "group", "team", "user", "customer" >>

(* migrations/versions/0002_dedup_inbox.py.  Its two columns are the       *)
(* primary key of processed_event.                                         *)
DedupInbox ==
  Table("processed_event", {}, {"consumer_group", "event_id"}, {"processed_at"},
        {<<"consumer_group", "event_id">>}, {})

-----------------------------------------------------------------------------
(* wf_core/models.py.  A column that is not said to be nullable is so by   *)
(* its annotation: Mapped[datetime] is not.                                *)

tenant_fk == PartOf("customer_id", "customer")

TenancyModels == <<
  Table("customer", {}, {"name", "created_at"}, {}, {}, {}),
  Table("user", {tenant_fk}, {"email", "name", "is_active", "created_at"}, {},
        {<<"customer_id", "email">>}, {}),
  Table("team", {tenant_fk, Link("parent_id", "team")}, {"name"}, {}, {}, {<<"customer_id">>}),
  Table("group", {tenant_fk, Link("parent_id", "group")}, {"name"}, {}, {}, {<<"customer_id">>}),
  Table("role", {tenant_fk}, {"name"}, {}, {}, {<<"customer_id">>}) >>

WorkHierarchyModels == <<
  Table("portfolio", {tenant_fk}, {"name", "custom_attributes", "created_at", "updated_at"}, {},
        {}, {<<"customer_id">>}),
  Table("program", {tenant_fk, Link("portfolio_id", "portfolio")},
        {"name", "created_at", "updated_at"}, {}, {}, {<<"customer_id", "portfolio_id">>}),
  Table("project",
        {tenant_fk, Link("portfolio_id", "portfolio"), Link("program_id", "program"),
         Link("owner_id", "user")},
        {"name", "status", "percent_complete", "version", "custom_attributes", "created_at",
         "updated_at"},
        {"planned_start", "planned_completion"},
        {}, {<<"customer_id", "program_id">>, <<"customer_id", "status">>}),
  Table("task",
        {tenant_fk, PartOf("project_id", "project"), MaybePartOf("parent_id", "task")},
        {"name", "status", "work_required_minutes", "percent_complete", "version",
         "custom_attributes", "created_at", "updated_at"},
        {"planned_start", "planned_completion", "calendar_id"},
        {}, {<<"customer_id", "project_id">>, <<"customer_id", "parent_id">>,
             <<"customer_id", "status", "planned_completion">>}),
  Table("issue", {tenant_fk, PartOf("project_id", "project")},
        {"name", "type", "status", "custom_attributes", "created_at", "updated_at"}, {},
        {}, {<<"customer_id", "project_id", "status">>}) >>

DependencyModels == <<
  Table("predecessor",
        {tenant_fk, PartOf("predecessor_id", "task"), PartOf("successor_id", "task")},
        {"type", "lag_minutes"}, {}, {<<"predecessor_id", "successor_id">>},
        {<<"customer_id", "predecessor_id">>, <<"customer_id", "successor_id">>}),
  Table("assignment",
        {tenant_fk, PartOf("task_id", "task"), PartOf("assigned_to_id", "user"),
         Link("role_id", "role"), Link("team_id", "team")},
        {"assignment_percent"}, {}, {},
        {<<"customer_id", "task_id">>, <<"customer_id", "assigned_to_id">>}) >>

TimeModels == <<
  Table("hour", {tenant_fk, PartOf("task_id", "task"), PartOf("user_id", "user")},
        {"logged_date", "minutes", "created_at"}, {"description"}, {},
        {<<"customer_id", "task_id">>, <<"customer_id", "user_id", "logged_date">>}),
  Table("timesheet", {tenant_fk, PartOf("user_id", "user")},
        {"start_date", "end_date", "status"}, {}, {}, {<<"customer_id", "user_id">>}) >>

InfraModels == <<
  Table("outbox", {tenant_fk},
        {"aggregate_type", "aggregate_id", "event_type", "partition_key", "payload",
         "created_at"},
        {}, {}, {<<"created_at">>}),
  Table("processed_event", {}, {"consumer_group", "event_id", "processed_at"}, {},
        {<<"consumer_group", "event_id">>}, {}) >>

Models ==
  ToSet(TenancyModels) \cup ToSet(WorkHierarchyModels) \cup ToSet(DependencyModels)
    \cup ToSet(TimeModels) \cup ToSet(InfraModels)
=============================================================================
