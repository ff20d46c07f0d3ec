-------------------------- MODULE MigrationProofs --------------------------
(***************************************************************************)
(* Theorems about Migrations, for any runners and any number of commands:  *)
(* each migration leads from the schema of one revision to that of the     *)
(* next, so whatever overtakes, refuses or loses it, one of them is what   *)
(* is committed, and at head it is the one the models describe.            *)
(***************************************************************************)
EXTENDS Migrations, TLAPS

-----------------------------------------------------------------------------
(* The tables that the first migration creates                             *)

LEMMA TuplesAreSequences ==
  ASSUME NEW S, NEW a \in S, NEW b \in S, NEW c \in S, NEW d \in S, NEW e \in S
  PROVE  /\ <<a, b, c, d, e>> \in Seq(S) /\ Len(<<a, b, c, d, e>>) = 5
         /\ <<a, b>> \in Seq(S) /\ Len(<<a, b>>) = 2
         /\ <<a>> \in Seq(S) /\ Len(<<a>>) = 1
  OBVIOUS

LEMMA Joined ==
  ASSUME NEW S, NEW p \in Seq(S), NEW q \in Seq(S)
  PROVE  /\ p \o q \in Seq(S) /\ Len(p \o q) = Len(p) + Len(q)
         /\ \A i \in 1 .. Len(p) : (p \o q)[i] = p[i]
         /\ \A i \in Len(p) + 1 .. Len(p) + Len(q) : (p \o q)[i] = q[i - Len(p)]
  OBVIOUS

LEMMA Parts ==
  \E S : /\ Tenancy \in Seq(S) /\ Len(Tenancy) = 5
         /\ WorkSpine \in Seq(S) /\ Len(WorkSpine) = 5
         /\ DependenciesAndAssignment \in Seq(S) /\ Len(DependenciesAndAssignment) = 2
         /\ Time \in Seq(S) /\ Len(Time) = 2
         /\ Outbox \in Seq(S) /\ Len(Outbox) = 1
<1> DEFINE S == {Tenancy[i] : i \in 1 .. 5} \cup {WorkSpine[i] : i \in 1 .. 5}
                \cup {DependenciesAndAssignment[i] : i \in 1 .. 2} \cup {Time[i] : i \in 1 .. 2}
                \cup {Outbox[1]}
<1>1. Tenancy \in Seq(S) /\ Len(Tenancy) = 5
  <2>1. Tenancy[1] \in S /\ Tenancy[2] \in S /\ Tenancy[3] \in S /\ Tenancy[4] \in S /\ Tenancy[5] \in S
    OBVIOUS
  <2>2. Tenancy = <<Tenancy[1], Tenancy[2], Tenancy[3], Tenancy[4], Tenancy[5]>>
    BY DEF Tenancy
  <2> HIDE DEF S
  <2>3. <<Tenancy[1], Tenancy[2], Tenancy[3], Tenancy[4], Tenancy[5]>> \in Seq(S)
        /\ Len(<<Tenancy[1], Tenancy[2], Tenancy[3], Tenancy[4], Tenancy[5]>>) = 5
    BY <2>1, TuplesAreSequences
  <2> QED  BY <2>2, <2>3
<1>2. WorkSpine \in Seq(S) /\ Len(WorkSpine) = 5
  <2>1. WorkSpine[1] \in S /\ WorkSpine[2] \in S /\ WorkSpine[3] \in S /\ WorkSpine[4] \in S /\ WorkSpine[5] \in S
    OBVIOUS
  <2>2. WorkSpine = <<WorkSpine[1], WorkSpine[2], WorkSpine[3], WorkSpine[4], WorkSpine[5]>>
    BY DEF WorkSpine
  <2> HIDE DEF S
  <2>3. <<WorkSpine[1], WorkSpine[2], WorkSpine[3], WorkSpine[4], WorkSpine[5]>> \in Seq(S)
        /\ Len(<<WorkSpine[1], WorkSpine[2], WorkSpine[3], WorkSpine[4], WorkSpine[5]>>) = 5
    BY <2>1, TuplesAreSequences
  <2> QED  BY <2>2, <2>3
<1>3. DependenciesAndAssignment \in Seq(S) /\ Len(DependenciesAndAssignment) = 2
  <2>1. DependenciesAndAssignment[1] \in S /\ DependenciesAndAssignment[2] \in S
    OBVIOUS
  <2>2. DependenciesAndAssignment = <<DependenciesAndAssignment[1], DependenciesAndAssignment[2]>>
    BY DEF DependenciesAndAssignment
  <2> HIDE DEF S
  <2>3. <<DependenciesAndAssignment[1], DependenciesAndAssignment[2]>> \in Seq(S)
        /\ Len(<<DependenciesAndAssignment[1], DependenciesAndAssignment[2]>>) = 2
    BY <2>1, TuplesAreSequences
  <2> QED  BY <2>2, <2>3
<1>4. Time \in Seq(S) /\ Len(Time) = 2
  <2>1. Time[1] \in S /\ Time[2] \in S /\ Time = <<Time[1], Time[2]>>
    BY DEF Time
  <2> HIDE DEF S
  <2> QED  BY <2>1, TuplesAreSequences
<1>5. Outbox \in Seq(S) /\ Len(Outbox) = 1
  <2>1. Outbox[1] \in S /\ Outbox = <<Outbox[1]>>
    BY DEF Outbox
  <2> HIDE DEF S
  <2> QED  BY <2>1, TuplesAreSequences
<1> HIDE DEF S
<1> QED  BY <1>1, <1>2, <1>3, <1>4, <1>5

LEMMA InOrder ==
  /\ Len(InitialTables) = 15 /\ DOMAIN InitialTables = 1 .. 15
  /\ \A i \in 1 .. 5 : InitialTables[i] = Tenancy[i]
  /\ \A i \in 6 .. 10 : InitialTables[i] = WorkSpine[i - 5]
  /\ \A i \in 11 .. 12 : InitialTables[i] = DependenciesAndAssignment[i - 10]
  /\ \A i \in 13 .. 14 : InitialTables[i] = Time[i - 12]
  /\ InitialTables[15] = Outbox[1]
<1>0. PICK S : /\ Tenancy \in Seq(S) /\ Len(Tenancy) = 5
               /\ WorkSpine \in Seq(S) /\ Len(WorkSpine) = 5
               /\ DependenciesAndAssignment \in Seq(S) /\ Len(DependenciesAndAssignment) = 2
               /\ Time \in Seq(S) /\ Len(Time) = 2
               /\ Outbox \in Seq(S) /\ Len(Outbox) = 1
  BY Parts
<1>a. /\ Tenancy \in Seq(S) /\ WorkSpine \in Seq(S) /\ Time \in Seq(S) /\ Outbox \in Seq(S)
      /\ DependenciesAndAssignment \in Seq(S)
  BY <1>0
<1> DEFINE A == Tenancy \o WorkSpine
           B == A \o DependenciesAndAssignment
           C == B \o Time
           D == C \o Outbox
<1>6. /\ A \in Seq(S) /\ Len(A) = 10
      /\ \A i \in 1 .. 5 : A[i] = Tenancy[i]
      /\ \A i \in 6 .. 10 : A[i] = WorkSpine[i - 5]
  <2>1. /\ A \in Seq(S) /\ Len(A) = Len(Tenancy) + Len(WorkSpine)
        /\ \A i \in 1 .. Len(Tenancy) : A[i] = Tenancy[i]
        /\ \A i \in Len(Tenancy) + 1 .. Len(Tenancy) + Len(WorkSpine) : A[i] = WorkSpine[i - Len(Tenancy)]
    BY <1>a, Joined
  <2> HIDE DEF A
  <2> QED  BY <1>0, <2>1
<1>6a. A \in Seq(S)
  BY <1>6
<1> HIDE DEF A
<1>7. /\ B \in Seq(S) /\ Len(B) = 12
      /\ \A i \in 1 .. 10 : B[i] = A[i]
      /\ \A i \in 11 .. 12 : B[i] = DependenciesAndAssignment[i - 10]
  <2>1. /\ B \in Seq(S) /\ Len(B) = Len(A) + Len(DependenciesAndAssignment)
        /\ \A i \in 1 .. Len(A) : B[i] = A[i]
        /\ \A i \in Len(A) + 1 .. Len(A) + Len(DependenciesAndAssignment) : B[i] = DependenciesAndAssignment[i - Len(A)]
    BY <1>6a, <1>a, Joined
  <2> HIDE DEF B
  <2> QED  BY <1>6, <1>0, <2>1
<1>7a. B \in Seq(S)
  BY <1>7
<1> HIDE DEF B
<1>8. /\ C \in Seq(S) /\ Len(C) = 14
      /\ \A i \in 1 .. 12 : C[i] = B[i]
      /\ \A i \in 13 .. 14 : C[i] = Time[i - 12]
  <2>1. /\ C \in Seq(S) /\ Len(C) = Len(B) + Len(Time)
        /\ \A i \in 1 .. Len(B) : C[i] = B[i]
        /\ \A i \in Len(B) + 1 .. Len(B) + Len(Time) : C[i] = Time[i - Len(B)]
    BY <1>7a, <1>a, Joined
  <2> HIDE DEF C
  <2> QED  BY <1>7, <1>0, <2>1
<1>8a. C \in Seq(S)
  BY <1>8
<1> HIDE DEF C
<1>9. /\ D \in Seq(S) /\ Len(D) = 15
      /\ \A i \in 1 .. 14 : D[i] = C[i]
      /\ \A i \in 15 .. 15 : D[i] = Outbox[i - 14]
  <2>1. /\ D \in Seq(S) /\ Len(D) = Len(C) + Len(Outbox)
        /\ \A i \in 1 .. Len(C) : D[i] = C[i]
        /\ \A i \in Len(C) + 1 .. Len(C) + Len(Outbox) : D[i] = Outbox[i - Len(C)]
    BY <1>8a, <1>a, Joined
  <2> HIDE DEF D
  <2> QED  BY <1>8, <1>0, <2>1
<1> HIDE DEF D
<1>10. InitialTables = D
  BY DEF InitialTables, A, B, C, D
<1> QED  BY <1>6, <1>7, <1>8, <1>9, <1>10

(* The tables created before the type, and those created after it.         *)
LEMMA Halves ==
  LET p == Tenancy \o WorkSpine
      q == DependenciesAndAssignment \o Time \o Outbox
  IN  /\ Len(p) = 10 /\ DOMAIN p = 1 .. 10 /\ \A i \in 1 .. 10 : p[i] = InitialTables[i]
      /\ Len(q) = 5 /\ DOMAIN q = 1 .. 5 /\ \A i \in 1 .. 5 : q[i] = InitialTables[10 + i]
<1>0. PICK S : /\ Tenancy \in Seq(S) /\ Len(Tenancy) = 5
               /\ WorkSpine \in Seq(S) /\ Len(WorkSpine) = 5
               /\ DependenciesAndAssignment \in Seq(S) /\ Len(DependenciesAndAssignment) = 2
               /\ Time \in Seq(S) /\ Len(Time) = 2
               /\ Outbox \in Seq(S) /\ Len(Outbox) = 1
  BY Parts
<1>a. /\ Tenancy \in Seq(S) /\ WorkSpine \in Seq(S) /\ Time \in Seq(S) /\ Outbox \in Seq(S)
      /\ DependenciesAndAssignment \in Seq(S)
  BY <1>0
<1> DEFINE p == Tenancy \o WorkSpine
           d == DependenciesAndAssignment \o Time
           q == d \o Outbox
<1>1. /\ p \in Seq(S) /\ Len(p) = 10
      /\ \A i \in 1 .. 5 : p[i] = Tenancy[i]
      /\ \A i \in 6 .. 10 : p[i] = WorkSpine[i - 5]
  <2>1. /\ p \in Seq(S) /\ Len(p) = Len(Tenancy) + Len(WorkSpine)
        /\ \A i \in 1 .. Len(Tenancy) : p[i] = Tenancy[i]
        /\ \A i \in Len(Tenancy) + 1 .. Len(Tenancy) + Len(WorkSpine) :
              p[i] = WorkSpine[i - Len(Tenancy)]
    BY <1>a, Joined
  <2> HIDE DEF p
  <2> QED  BY <1>0, <2>1
<1>2. /\ d \in Seq(S) /\ Len(d) = 4
      /\ \A i \in 1 .. 2 : d[i] = DependenciesAndAssignment[i]
      /\ \A i \in 3 .. 4 : d[i] = Time[i - 2]
  <2>1. /\ d \in Seq(S) /\ Len(d) = Len(DependenciesAndAssignment) + Len(Time)
        /\ \A i \in 1 .. Len(DependenciesAndAssignment) : d[i] = DependenciesAndAssignment[i]
        /\ \A i \in Len(DependenciesAndAssignment) + 1
                       .. Len(DependenciesAndAssignment) + Len(Time) :
              d[i] = Time[i - Len(DependenciesAndAssignment)]
    BY <1>a, Joined
  <2> HIDE DEF d
  <2> QED  BY <1>0, <2>1
<1>2a. d \in Seq(S)
  BY <1>2
<1> HIDE DEF d
<1>3. /\ q \in Seq(S) /\ Len(q) = 5
      /\ \A i \in 1 .. 4 : q[i] = d[i]
      /\ q[5] = Outbox[1]
  <2>1. /\ q \in Seq(S) /\ Len(q) = Len(d) + Len(Outbox)
        /\ \A i \in 1 .. Len(d) : q[i] = d[i]
        /\ \A i \in Len(d) + 1 .. Len(d) + Len(Outbox) : q[i] = Outbox[i - Len(d)]
    BY <1>a, <1>2a, Joined
  <2> HIDE DEF q
  <2> QED  BY <1>0, <1>2, <2>1
<1> HIDE DEF p, q
<1>4. DOMAIN p = 1 .. 10 /\ DOMAIN q = 1 .. 5
  BY <1>1, <1>3
<1>5. \A i \in 1 .. 10 : p[i] = InitialTables[i]
  BY <1>1, InOrder
<1>6. ASSUME NEW i \in 1 .. 5 PROVE q[i] = InitialTables[10 + i]
  <2>1. i \in 1 .. 2 => 10 + i \in 11 .. 12 /\ (10 + i) - 10 = i /\ i \in 1 .. 4
    OBVIOUS
  <2>2. i \in 3 .. 4 => 10 + i \in 13 .. 14 /\ (10 + i) - 12 = i - 2 /\ i \in 1 .. 4
    OBVIOUS
  <2>3. i \in 1 .. 2 \/ i \in 3 .. 4 \/ (i = 5 /\ 10 + i = 15)
    OBVIOUS
  <2> QED  BY <1>2, <1>3, <2>1, <2>2, <2>3, InOrder
<1> QED  BY <1>1, <1>3, <1>4, <1>5, <1>6 DEF p, q, d

(* The tables in the order in which they are created.                      *)
Name(i) == InitialTables[i].name

LEMMA Names15 ==
  /\ Name(1) = "customer" /\ Name(2) = "user" /\ Name(3) = "team" /\ Name(4) = "group"
  /\ Name(5) = "role" /\ Name(6) = "portfolio" /\ Name(7) = "program" /\ Name(8) = "project"
  /\ Name(9) = "task" /\ Name(10) = "issue" /\ Name(11) = "predecessor"
  /\ Name(12) = "assignment" /\ Name(13) = "hour" /\ Name(14) = "timesheet" /\ Name(15) = "outbox"
<1>1. \A n, k, r, o, u, x : Table(n, k, r, o, u, x).name = n
  BY DEF Table
<1>2. Tenancy[1].name = "customer" /\ Tenancy[2].name = "user" /\ Tenancy[3].name = "team"
      /\ Tenancy[4].name = "group" /\ Tenancy[5].name = "role"
  BY <1>1 DEF Tenancy
<1>3. /\ WorkSpine[1].name = "portfolio" /\ WorkSpine[2].name = "program"
      /\ WorkSpine[3].name = "project" /\ WorkSpine[4].name = "task"
      /\ WorkSpine[5].name = "issue"
  BY <1>1 DEF WorkSpine
<1>4. /\ DependenciesAndAssignment[1].name = "predecessor"
      /\ DependenciesAndAssignment[2].name = "assignment"
      /\ Time[1].name = "hour" /\ Time[2].name = "timesheet" /\ Outbox[1].name = "outbox"
  BY <1>1 DEF DependenciesAndAssignment, Time, Outbox
<1> QED  BY <1>2, <1>3, <1>4, InOrder DEF Name

LEMMA OneOf ==
  ASSUME NEW i \in 1 .. 15
  PROVE  \/ i = 1 \/ i = 2 \/ i = 3 \/ i = 4 \/ i = 5 \/ i = 6 \/ i = 7 \/ i = 8
         \/ i = 9 \/ i = 10 \/ i = 11 \/ i = 12 \/ i = 13 \/ i = 14 \/ i = 15
  OBVIOUS

LEMMA NamesDiffer ==
  ASSUME NEW i \in 1 .. 15, NEW j \in 1 .. 15, Name(i) = Name(j)
  PROVE  i = j
  BY OneOf, Names15

Apart == {"deptype", "alembic_version", "processed_event", "0001_initial", "0002_dedup_inbox"}

LEMMA NamesOfTables ==
  ASSUME NEW i \in 1 .. 15
  PROVE  Name(i) \notin Apart
  BY OneOf, Names15 DEF Apart

(* They are dropped in the reverse order.                                  *)
LEMMA Reversed ==
  /\ Len(DroppedTables) = 15 /\ DOMAIN DroppedTables = 1 .. 15
  /\ \A i \in 1 .. 15 : DroppedTables[i] = Name(16 - i)
<1>1. Len(DroppedTables) = 15 /\ DOMAIN DroppedTables = 1 .. 15
  BY DEF DroppedTables
<1>2. ASSUME NEW i \in 1 .. 15 PROVE DroppedTables[i] = Name(16 - i)
  BY OneOf, Names15 DEF DroppedTables
<1> QED  BY <1>1, <1>2

(* The tables whose rows the rows of t refer to.                           *)
Refers(t) == {k.table : k \in t.keys}

LEMMA RefersTo ==
  /\ Refers(Tenancy[1]) = {} /\ Refers(Tenancy[2]) = {"customer"}
  /\ Refers(Tenancy[3]) = {"customer", "team"} /\ Refers(Tenancy[4]) = {"customer", "group"}
  /\ Refers(Tenancy[5]) = {"customer"}
  /\ Refers(WorkSpine[1]) = {"customer"} /\ Refers(WorkSpine[2]) = {"customer", "portfolio"}
  /\ Refers(WorkSpine[3]) = {"customer", "portfolio", "program", "user"}
  /\ Refers(WorkSpine[4]) = {"customer", "project", "task"}
  /\ Refers(WorkSpine[5]) = {"customer", "project"}
  /\ Refers(DependenciesAndAssignment[1]) = {"customer", "task"}
  /\ Refers(DependenciesAndAssignment[2]) = {"customer", "task", "user", "role", "team"}
  /\ Refers(Time[1]) = {"customer", "task", "user"} /\ Refers(Time[2]) = {"customer", "user"}
  /\ Refers(Outbox[1]) = {"customer"} /\ Refers(DedupInbox) = {}
<1>1. \A n, k, r, o, u, x : Refers(Table(n, k, r, o, u, x)) = {l.table : l \in k}
  BY DEF Table, Refers
<1>2. /\ TenantFk.table = "customer"
      /\ \A c, t : PartOf(c, t).table = t /\ MaybePartOf(c, t).table = t /\ Link(c, t).table = t
  BY DEF TenantFk, PartOf, MaybePartOf, Link, Key
<1>3. /\ Refers(Tenancy[1]) = {} /\ Refers(Tenancy[2]) = {"customer"}
      /\ Refers(Tenancy[3]) = {"customer", "team"} /\ Refers(Tenancy[4]) = {"customer", "group"}
      /\ Refers(Tenancy[5]) = {"customer"}
  BY <1>1, <1>2 DEF Tenancy
<1>4. Refers(WorkSpine[1]) = {"customer"} /\ Refers(WorkSpine[2]) = {"customer", "portfolio"}
  BY <1>1, <1>2 DEF WorkSpine
<1>5. Refers(WorkSpine[3]) = {"customer", "portfolio", "program", "user"}
  BY <1>1, <1>2 DEF WorkSpine
<1>6. /\ Refers(WorkSpine[4]) = {"customer", "project", "task"}
      /\ Refers(WorkSpine[5]) = {"customer", "project"}
  BY <1>1, <1>2 DEF WorkSpine
<1>7. Refers(DependenciesAndAssignment[1]) = {"customer", "task"}
  BY <1>1, <1>2 DEF DependenciesAndAssignment
<1>8. Refers(DependenciesAndAssignment[2]) = {"customer", "task", "user", "role", "team"}
  BY <1>1, <1>2 DEF DependenciesAndAssignment
<1>9. Refers(Time[1]) = {"customer", "task", "user"} /\ Refers(Time[2]) = {"customer", "user"}
  BY <1>1, <1>2 DEF Time
<1>10. Refers(Outbox[1]) = {"customer"} /\ Refers(DedupInbox) = {}
  BY <1>1, <1>2 DEF Outbox, DedupInbox
<1> QED  BY <1>3, <1>4, <1>5, <1>6, <1>7, <1>8, <1>9, <1>10

(* A table refers to itself and to earlier ones only.                      *)
LEMMA RefersBack ==
  ASSUME NEW i \in 1 .. 15, NEW n \in Refers(InitialTables[i])
  PROVE  \E j \in 1 .. i : n = Name(j)
<1>1. /\ i = 1 => FALSE
      /\ i \in {2, 5, 6, 15} => n = Name(1)
      /\ i = 3 => n = Name(1) \/ n = Name(3)
      /\ i = 4 => n = Name(1) \/ n = Name(4)
      /\ i = 7 => n = Name(1) \/ n = Name(6)
  BY InOrder, RefersTo, Names15
<1>2. /\ i = 8 => n \in {Name(1), Name(6), Name(7), Name(2)}
      /\ i = 9 => n \in {Name(1), Name(8), Name(9)}
      /\ i = 10 => n \in {Name(1), Name(8)}
      /\ i = 11 => n \in {Name(1), Name(9)}
  BY InOrder, RefersTo, Names15
<1>3. /\ i = 12 => n \in {Name(1), Name(9), Name(2), Name(5), Name(3)}
      /\ i = 13 => n \in {Name(1), Name(9), Name(2)}
      /\ i = 14 => n \in {Name(1), Name(2)}
  BY InOrder, RefersTo, Names15
<1> QED  BY <1>1, <1>2, <1>3, OneOf

LEMMA ReferencedBack ==
  ASSUME NEW n, NEW m \in Referenced(n)
  PROVE  \E i \in 1 .. 15 : \E j \in 1 .. i : n = Name(i) /\ m = Name(j)
<1>1. PICK t \in AllTables : t.name = n /\ m \in Refers(t)
  BY DEF Referenced, Refers
<1>2. t # DedupInbox
  BY <1>1, RefersTo
<1>3. PICK i \in 1 .. 15 : t = InitialTables[i]
  BY <1>1, <1>2, InOrder DEF AllTables, ToSet
<1>4. PICK j \in 1 .. i : m = Name(j)
  BY <1>1, <1>3, RefersBack
<1> QED  BY <1>1, <1>3, <1>4 DEF Name

-----------------------------------------------------------------------------
(* Scripts that execute from one schema to another                         *)

Statements == [makes : SUBSET Names, drops : SUBSET Names, needs : SUBSET Names,
               ifExists : BOOLEAN]

LEMMA StatementType ==
  ASSUME NEW makes \in SUBSET Names, NEW drops \in SUBSET Names, NEW needs \in SUBSET Names
  PROVE  /\ Statement(makes, drops, needs, FALSE) \in Statements
         /\ Statement(makes, drops, needs, TRUE) \in Statements
  BY DEF Statement, Statements

(* The statement s succeeds on the names V, and what it makes of them.     *)
Applies(s, V) ==
  /\ s.makes \cap V = {}
  /\ s.needs \subseteq V
  /\ s.ifExists \/ s.drops \subseteq V
  /\ \A n \in V \ s.drops : Referenced(n) \cap s.drops = {}
  /\ s.ifExists => s.makes = {} /\ s.drops = {"deptype"}
After(s, V) == (V \ s.drops) \cup s.makes

(* The names before the statements of q and after each of them.            *)
Trace(q, tr) ==
  /\ tr \in [0 .. Len(q) -> SUBSET Names]
  /\ \A i \in 1 .. Len(q) : Applies(q[i], tr[i - 1]) /\ tr[i] = After(q[i], tr[i - 1])

Script(q, V, W) ==
  /\ q \in Seq(Statements)
  /\ \E tr : Trace(q, tr) /\ tr[0] = V /\ tr[Len(q)] = W

LEMMA EmptyScript ==
  /\ \A V \in SUBSET Names : Script(<<>>, V, V)
  /\ \A V, W : Script(<<>>, V, W) => V = W
<1>1. ASSUME NEW V \in SUBSET Names PROVE Script(<<>>, V, V)
  <2> DEFINE tr == [i \in 0 .. 0 |-> V]
  <2>1. Trace(<<>>, tr) /\ tr[0] = V
    BY DEF Trace
  <2> QED  BY <2>1 DEF Script
<1>2. \A V, W : Script(<<>>, V, W) => V = W
  BY DEF Script
<1> QED  BY <1>1, <1>2

LEMMA ScriptTail ==
  ASSUME NEW q, NEW V, NEW W, Script(q, V, W), q # <<>>
  PROVE  /\ q[1] \in Statements /\ Applies(q[1], V) /\ V \subseteq Names
         /\ Script(Tail(q), After(q[1], V), W)
<1>1. PICK tr : Trace(q, tr) /\ tr[0] = V /\ tr[Len(q)] = W
  BY DEF Script
<1>2. q \in Seq(Statements) /\ Len(q) \in Nat /\ Len(q) >= 1
  BY DEF Script
<1>3. /\ Tail(q) \in Seq(Statements) /\ Len(Tail(q)) = Len(q) - 1
      /\ \A i \in 1 .. Len(q) - 1 : Tail(q)[i] = q[i + 1]
  BY <1>2
<1>4. q[1] \in Statements /\ Applies(q[1], V) /\ V \subseteq Names /\ tr[1] = After(q[1], V)
  BY <1>1, <1>2 DEF Trace
<1> DEFINE rest == [i \in 0 .. Len(q) - 1 |-> tr[i + 1]]
<1>5. rest \in [0 .. Len(Tail(q)) -> SUBSET Names]
  BY <1>1, <1>2, <1>3 DEF Trace
<1>6. ASSUME NEW i \in 1 .. Len(Tail(q))
      PROVE  Applies(Tail(q)[i], rest[i - 1]) /\ rest[i] = After(Tail(q)[i], rest[i - 1])
  <2>1. i + 1 \in 1 .. Len(q) /\ i - 1 \in 0 .. Len(q) - 1 /\ i \in 0 .. Len(q) - 1
        /\ (i - 1) + 1 = i /\ (i + 1) - 1 = i /\ i \in 1 .. Len(q) - 1
    BY <1>2, <1>3
  <2>2. rest[i - 1] = tr[i] /\ rest[i] = tr[i + 1] /\ Tail(q)[i] = q[i + 1]
    BY <1>3, <2>1
  <2>3. Applies(q[i + 1], tr[i]) /\ tr[i + 1] = After(q[i + 1], tr[i])
    BY <1>1, <2>1 DEF Trace
  <2> QED  BY <2>2, <2>3
<1>7. rest[0] = After(q[1], V) /\ rest[Len(Tail(q))] = W
  BY <1>1, <1>2, <1>3, <1>4
<1> HIDE DEF rest
<1>8. Trace(Tail(q), rest)
  BY <1>5, <1>6 DEF Trace
<1> QED  BY <1>3, <1>4, <1>7, <1>8 DEF Script

LEMMA ScriptJoined ==
  ASSUME NEW p, NEW q, NEW U, NEW V, NEW W, Script(p, U, V), Script(q, V, W)
  PROVE  Script(p \o q, U, W)
<1>1. PICK t1 : Trace(p, t1) /\ t1[0] = U /\ t1[Len(p)] = V
  BY DEF Script
<1>2. PICK t2 : Trace(q, t2) /\ t2[0] = V /\ t2[Len(q)] = W
  BY DEF Script
<1>3. p \in Seq(Statements) /\ q \in Seq(Statements) /\ Len(p) \in Nat /\ Len(q) \in Nat
  BY DEF Script
<1>4. /\ p \o q \in Seq(Statements) /\ Len(p \o q) = Len(p) + Len(q)
      /\ \A i \in 1 .. Len(p) : (p \o q)[i] = p[i]
      /\ \A i \in Len(p) + 1 .. Len(p) + Len(q) : (p \o q)[i] = q[i - Len(p)]
  BY <1>3, Joined
<1> DEFINE tr == [i \in 0 .. Len(p) + Len(q) |-> IF i <= Len(p) THEN t1[i] ELSE t2[i - Len(p)]]
<1>5. tr \in [0 .. Len(p \o q) -> SUBSET Names]
  <2> SUFFICES ASSUME NEW i \in 0 .. Len(p) + Len(q)
               PROVE  (IF i <= Len(p) THEN t1[i] ELSE t2[i - Len(p)]) \in SUBSET Names
    BY <1>4
  <2>1. CASE i <= Len(p)
    BY <1>1, <1>3, <2>1 DEF Trace
  <2>2. CASE ~ (i <= Len(p))
    <3>1. i - Len(p) \in 0 .. Len(q)
      BY <1>3, <2>2
    <3> QED  BY <1>2, <2>2, <3>1 DEF Trace
  <2> QED  BY <2>1, <2>2
<1>6. \A i \in 0 .. Len(q) : tr[Len(p) + i] = t2[i]
  <2> TAKE i \in 0 .. Len(q)
  <2>1. Len(p) + i \in 0 .. Len(p) + Len(q) /\ (Len(p) + i) - Len(p) = i
        /\ (Len(p) + i <= Len(p) => i = 0 /\ Len(p) + i = Len(p))
    BY <1>3
  <2> QED  BY <1>1, <1>2, <2>1
<1>7. \A i \in 0 .. Len(p) : tr[i] = t1[i]
  BY <1>3
<1> HIDE DEF tr
<1>8. ASSUME NEW i \in 1 .. Len(p \o q)
      PROVE  Applies((p \o q)[i], tr[i - 1]) /\ tr[i] = After((p \o q)[i], tr[i - 1])
  <2>1. CASE i <= Len(p)
    <3>1. i \in 1 .. Len(p) /\ i \in 0 .. Len(p) /\ i - 1 \in 0 .. Len(p)
      BY <1>3, <1>4, <2>1
    <3> QED  BY <1>1, <1>4, <1>7, <3>1 DEF Trace
  <2>2. CASE ~ (i <= Len(p))
    <3> DEFINE j == i - Len(p)
    <3>1. j \in 1 .. Len(q) /\ j \in 0 .. Len(q) /\ j - 1 \in 0 .. Len(q)
          /\ i = Len(p) + j /\ i - 1 = Len(p) + (j - 1) /\ i \in Len(p) + 1 .. Len(p) + Len(q)
      BY <1>3, <1>4, <2>2
    <3>2. (p \o q)[i] = q[j]
      BY <1>4, <3>1
    <3> HIDE DEF j
    <3>3. tr[i] = t2[j] /\ tr[i - 1] = t2[j - 1]
      BY <1>6, <3>1
    <3>4. Applies(q[j], t2[j - 1]) /\ t2[j] = After(q[j], t2[j - 1])
      BY <1>2, <3>1 DEF Trace
    <3> QED  BY <3>2, <3>3, <3>4
  <2> QED  BY <2>1, <2>2
<1>9. Trace(p \o q, tr)
  BY <1>5, <1>8 DEF Trace
<1>10. tr[0] = U /\ tr[Len(p \o q)] = W
  BY <1>1, <1>2, <1>3, <1>4, <1>6, <1>7
<1> QED  BY <1>4, <1>9, <1>10 DEF Script

LEMMA OneStatement ==
  ASSUME NEW s \in Statements, NEW V \in SUBSET Names, Applies(s, V)
  PROVE  Script(<<s>>, V, After(s, V))
<1> DEFINE tr == [i \in 0 .. 1 |-> IF i = 0 THEN V ELSE After(s, V)]
<1>1. After(s, V) \in SUBSET Names
  BY DEF After, Statements
<1>2. tr \in [0 .. 1 -> SUBSET Names] /\ tr[0] = V /\ tr[1] = After(s, V)
  BY <1>1
<1> HIDE DEF tr
<1>3. <<s>> \in Seq(Statements) /\ Len(<<s>>) = 1 /\ <<s>>[1] = s
  OBVIOUS
<1>4. \A i \in 1 .. 1 : i = 1 /\ i - 1 = 0
  OBVIOUS
<1>5. Trace(<<s>>, tr)
  BY <1>2, <1>3, <1>4 DEF Trace
<1> QED  BY <1>2, <1>3, <1>5 DEF Script

(* A statement of q creates or drops c.                                    *)
Touches(q, c) == \E i \in 1 .. Len(q) : c \in q[i].makes \cup q[i].drops

LEMMA TouchesJoined ==
  ASSUME NEW p \in Seq(Statements), NEW q \in Seq(Statements), NEW c
  PROVE  /\ Touches(p, c) => Touches(p \o q, c)
         /\ Touches(q, c) => Touches(p \o q, c)
<1>1. /\ Len(p \o q) = Len(p) + Len(q) /\ Len(p) \in Nat /\ Len(q) \in Nat
      /\ \A i \in 1 .. Len(p) : (p \o q)[i] = p[i]
      /\ \A i \in Len(p) + 1 .. Len(p) + Len(q) : (p \o q)[i] = q[i - Len(p)]
  BY Joined
<1>2. ASSUME NEW i \in 1 .. Len(p), c \in p[i].makes \cup p[i].drops PROVE Touches(p \o q, c)
  <2>1. i \in 1 .. Len(p \o q) /\ (p \o q)[i] = p[i]
    BY <1>1
  <2> QED  BY <1>2, <2>1 DEF Touches
<1>3. ASSUME NEW i \in 1 .. Len(q), c \in q[i].makes \cup q[i].drops PROVE Touches(p \o q, c)
  <2>1. Len(p) + i \in 1 .. Len(p \o q) /\ Len(p) + i \in Len(p) + 1 .. Len(p) + Len(q)
        /\ (Len(p) + i) - Len(p) = i
    BY <1>1
  <2>2. (p \o q)[Len(p) + i] = q[i]
    BY <1>1, <2>1
  <2> QED  BY <1>3, <2>1, <2>2 DEF Touches
<1> QED  BY <1>2, <1>3 DEF Touches

LEMMA TouchesTail ==
  ASSUME NEW q \in Seq(Statements), q # <<>>, NEW c, Touches(q, c)
  PROVE  c \in q[1].makes \cup q[1].drops \/ Touches(Tail(q), c)
<1>1. PICK i \in 1 .. Len(q) : c \in q[i].makes \cup q[i].drops
  BY DEF Touches
<1>2. CASE i = 1
  BY <1>1, <1>2
<1>3. CASE i # 1
  <2>1. i - 1 \in 1 .. Len(Tail(q)) /\ Tail(q)[i - 1] = q[i]
    BY <1>3
  <2> QED  BY <1>1, <2>1 DEF Touches
<1> QED  BY <1>2, <1>3

(* The last statement of a migration is that of alembic_version.           *)
LEMMA TouchesLast ==
  ASSUME NEW p \in Seq(Statements), NEW makes, NEW drops, NEW c \in makes \cup drops,
         Statement(makes, drops, {}, FALSE) \in Statements
  PROVE  Touches(p \o <<Statement(makes, drops, {}, FALSE)>>, c)
<1> DEFINE s == Statement(makes, drops, {}, FALSE)
<1>1. s.makes = makes /\ s.drops = drops /\ s \in Statements
  BY DEF Statement
<1> HIDE DEF s
<1>2. <<s>> \in Seq(Statements) /\ Len(<<s>>) = 1 /\ <<s>>[1] = s
  BY <1>1
<1>3. Touches(<<s>>, c)
  BY <1>1, <1>2 DEF Touches
<1>4. Touches(p \o <<s>>, c)
  BY <1>2, <1>3, TouchesJoined
<1> QED  BY <1>4 DEF s

-----------------------------------------------------------------------------
(* The scripts of the two migrations                                       *)

InitialNames == {Name(i) : i \in 1 .. 15}

(* The committed names at revision n, once alembic_version is there.       *)
Full(n) == TablesAt(n) \cup RowOf(n) \cup {"alembic_version"}
Schemas == {{}} \cup {Full(n) : n \in 0 .. Newest}

LEMMA AllNames ==
  /\ DedupInbox.name = "processed_event" /\ Newest = 2
  /\ ToSet(Revisions) = {"0001_initial", "0002_dedup_inbox"}
  /\ RowOf(0) = {} /\ RowOf(1) = {"0001_initial"} /\ RowOf(2) = {"0002_dedup_inbox"}
  /\ Names = InitialNames \cup Apart
  /\ TablesAt(0) = {} /\ TablesAt(1) = InitialNames \cup {"deptype"}
  /\ TablesAt(2) = InitialNames \cup {"deptype", "processed_event"}
<1>1. DedupInbox.name = "processed_event"
  BY DEF DedupInbox, Table
<1>2. Newest = 2 /\ ToSet(Revisions) = {"0001_initial", "0002_dedup_inbox"}
  BY DEF Newest, Revisions, ToSet
<1>3. RowOf(0) = {} /\ RowOf(1) = {"0001_initial"} /\ RowOf(2) = {"0002_dedup_inbox"}
  BY DEF RowOf, Revisions
<1>4. {t.name : t \in ToSet(InitialTables)} = InitialNames
  BY InOrder DEF ToSet, InitialNames, Name
<1>5. {t.name : t \in AllTables} = InitialNames \cup {"processed_event"}
  BY <1>1, <1>4 DEF AllTables
<1>6. Names = InitialNames \cup Apart
  BY <1>2, <1>5 DEF Names, Apart
<1> QED  BY <1>1, <1>2, <1>3, <1>4, <1>6 DEF TablesAt

(* Nothing refers to what is no table of the first migration.              *)
LEMMA OnlyTablesReferred ==
  ASSUME NEW n, NEW m \in Referenced(n)
  PROVE  m \in InitialNames /\ n \in InitialNames
<1>1. PICK i \in 1 .. 15 : \E j \in 1 .. i : n = Name(i) /\ m = Name(j)
  BY ReferencedBack
<1>2. PICK j \in 1 .. i : n = Name(i) /\ m = Name(j)
  BY <1>1
<1>3. j \in 1 .. 15
  OBVIOUS
<1> QED  BY <1>2, <1>3 DEF InitialNames

LEMMA Between ==
  ASSUME NEW k \in Nat, NEW n \in Nat, k + n <= 15, NEW i \in 1 .. n
  PROVE  /\ k + i \in 1 .. 15 /\ k + i \in k + 1 .. k + n /\ i - 1 \in 0 .. n /\ i \in 0 .. n
         /\ k + (i - 1) = (k + i) - 1
  OBVIOUS

LEMMA CreatedSoFar ==
  ASSUME NEW k \in 0 .. 15, NEW n \in 0 .. 15 - k, NEW p,
         Len(p) = n, DOMAIN p = 1 .. n, \A i \in 1 .. n : p[i] = InitialTables[k + i],
         NEW V \in SUBSET Names, \A j \in 1 .. k : Name(j) \in V,
         \A j \in k + 1 .. k + n : Name(j) \notin V
  PROVE  Script(Creates(p), V, V \cup {Name(j) : j \in k + 1 .. k + n})
<1> DEFINE q == Creates(p)
           tr == [i \in 0 .. n |-> V \cup {Name(j) : j \in k + 1 .. k + i}]
<1>0. k \in Nat /\ n \in Nat /\ k + n <= 15
  OBVIOUS
<1>1. \A j \in 1 .. 15 : Name(j) \in Names
  BY AllNames DEF InitialNames
<1>2. \A i \in 0 .. n : {Name(j) : j \in k + 1 .. k + i} \subseteq Names
  <2>1. \A i \in 0 .. n : \A j \in k + 1 .. k + i : j \in 1 .. 15
    BY <1>0
  <2> QED  BY <1>1, <2>1
<1>3. tr \in [0 .. n -> SUBSET Names]
  BY <1>2
<1>4. tr[0] = V /\ tr[n] = V \cup {Name(j) : j \in k + 1 .. k + n}
  OBVIOUS
<1>5. ASSUME NEW i \in 1 .. n
      PROVE  /\ q[i] \in Statements
             /\ Applies(q[i], tr[i - 1]) /\ tr[i] = After(q[i], tr[i - 1])
  <2> DEFINE t == k + i
  <2>1. t \in 1 .. 15 /\ t \in k + 1 .. k + n /\ i - 1 \in 0 .. n /\ i \in 0 .. n
        /\ k + (i - 1) = t - 1 /\ k + i = t
    BY <1>0, Between
  <2>2. q[i] = Statement({Name(t)}, {}, Referenced(Name(t)) \ {Name(t)}, FALSE)
    BY <2>1 DEF Creates, CreateTable, Create, Name
  <2>3. tr[i - 1] = V \cup {Name(j) : j \in k + 1 .. t - 1} /\ tr[i] = V \cup {Name(j) : j \in k + 1 .. t}
    BY <2>1
  <2> HIDE DEF t, tr, q
  <2>4. q[i].makes = {Name(t)} /\ q[i].drops = {} /\ q[i].ifExists = FALSE
        /\ q[i].needs = Referenced(Name(t)) \ {Name(t)}
    BY <2>2 DEF Statement
  <2>5. Name(t) \notin tr[i - 1]
    <3> SUFFICES ASSUME NEW j \in k + 1 .. t - 1, Name(t) = Name(j) PROVE FALSE
      BY <2>1, <2>3
    <3>1. j \in 1 .. 15 /\ j # t
      BY <2>1
    <3> QED  BY <2>1, <3>1, NamesDiffer
  <2>6. Referenced(Name(t)) \ {Name(t)} \subseteq tr[i - 1]
    <3> SUFFICES ASSUME NEW m \in Referenced(Name(t)), m # Name(t) PROVE m \in tr[i - 1]
      OBVIOUS
    <3>1. PICK a \in 1 .. 15 : \E j \in 1 .. a : Name(t) = Name(a) /\ m = Name(j)
      BY ReferencedBack
    <3>2. a = t
      BY <2>1, <3>1, NamesDiffer
    <3>3. PICK j \in 1 .. t : m = Name(j)
      BY <3>1, <3>2
    <3>4. j \in 1 .. k \/ j \in k + 1 .. t - 1
      BY <2>1, <3>3
    <3> QED  BY <2>3, <3>3, <3>4
  <2>7. Referenced(Name(t)) \subseteq Names
    BY OnlyTablesReferred, AllNames
  <2>8. q[i] \in Statements
    <3>1. {Name(t)} \in SUBSET Names /\ {} \in SUBSET Names /\ Referenced(Name(t)) \ {Name(t)} \in SUBSET Names
      BY <1>1, <2>1, <2>7
    <3>2. Statement({Name(t)}, {}, Referenced(Name(t)) \ {Name(t)}, FALSE) \in Statements
      BY <3>1, StatementType
    <3> QED  BY <2>2, <3>2
  <2>9. tr[i] = tr[i - 1] \cup {Name(t)}
    <3>1. \A j : j \in k + 1 .. t <=> j \in k + 1 .. t - 1 \/ j = t
      BY <2>1
    <3> QED  BY <2>3, <3>1
  <2> QED  BY <2>4, <2>5, <2>6, <2>8, <2>9 DEF Applies, After
<1>6. DOMAIN q = 1 .. n /\ q = [i \in 1 .. n |-> q[i]]
  BY DEF Creates
<1> HIDE DEF q, tr
<1>7. q \in Seq(Statements) /\ Len(q) = n
  BY <1>5, <1>6
<1>8. Trace(q, tr)
  BY <1>3, <1>5, <1>7 DEF Trace
<1>9. Script(q, V, V \cup {Name(j) : j \in k + 1 .. k + n})
  BY <1>4, <1>7, <1>8 DEF Script
<1> QED  BY <1>9 DEF q

(* They are dropped from the last to the first.                            *)
LEMMA DroppedAll ==
  ASSUME NEW V \in SUBSET Names, V \cap InitialNames = {}
  PROVE  Script(ForgetsType, V \cup InitialNames, V)
<1> DEFINE q == ForgetsType
           tr == [i \in 0 .. 15 |-> V \cup {Name(j) : j \in 1 .. 15 - i}]
<1>1. \A j \in 1 .. 15 : Name(j) \in Names /\ Name(j) \notin V
  BY AllNames DEF InitialNames
<1>2. tr \in [0 .. 15 -> SUBSET Names]
  <2>1. \A i \in 0 .. 15 : \A j \in 1 .. 15 - i : j \in 1 .. 15
    OBVIOUS
  <2>2. \A i \in 0 .. 15 : V \cup {Name(j) : j \in 1 .. 15 - i} \subseteq Names
    BY <1>1, <2>1
  <2> QED  BY <2>2
<1>3. tr[0] = V \cup InitialNames /\ tr[15] = V
  <2>1. 15 - 0 = 15 /\ 1 .. 15 - 15 = {}
    OBVIOUS
  <2> QED  BY <2>1 DEF InitialNames
<1>4. ASSUME NEW i \in 1 .. 15
      PROVE  /\ q[i] \in Statements
             /\ Applies(q[i], tr[i - 1]) /\ tr[i] = After(q[i], tr[i - 1])
  <2> DEFINE t == 16 - i
  <2>1. t \in 1 .. 15 /\ i - 1 \in 0 .. 15 /\ i \in 0 .. 15 /\ 15 - (i - 1) = t /\ 15 - i = t - 1
    OBVIOUS
  <2>2. q[i] = Statement({}, {Name(t)}, {}, FALSE)
    BY Reversed DEF ForgetsType, Drop
  <2>3. tr[i - 1] = V \cup {Name(j) : j \in 1 .. t} /\ tr[i] = V \cup {Name(j) : j \in 1 .. t - 1}
    BY <2>1
  <2> HIDE DEF t, tr, q
  <2>4. q[i].makes = {} /\ q[i].drops = {Name(t)} /\ q[i].ifExists = FALSE /\ q[i].needs = {}
    BY <2>2 DEF Statement
  <2>5. q[i] \in Statements
    BY <1>1, <2>1, <2>2, StatementType
  <2>6. Name(t) \in tr[i - 1] /\ Name(t) \notin tr[i]
    <3>1. t \in 1 .. t /\ \A j \in 1 .. t - 1 : j \in 1 .. 15 /\ j # t
      BY <2>1
    <3>2. \A j \in 1 .. t - 1 : Name(j) # Name(t)
      BY <2>1, <3>1, NamesDiffer
    <3> QED  BY <1>1, <2>1, <2>3, <3>1, <3>2
  <2>7. ASSUME NEW n \in tr[i], Name(t) \in Referenced(n) PROVE FALSE
    <3>1. PICK a \in 1 .. 15 : \E j \in 1 .. a : n = Name(a) /\ Name(t) = Name(j)
      BY <2>7, ReferencedBack
    <3>2. PICK j \in 1 .. a : n = Name(a) /\ Name(t) = Name(j)
      BY <3>1
    <3>3. j \in 1 .. 15
      OBVIOUS
    <3>4. j = t /\ t <= a
      BY <2>1, <3>2, <3>3, NamesDiffer
    <3>5. PICK b \in 1 .. t - 1 : n = Name(b)
      BY <1>1, <2>3, <2>7, <3>2
    <3>6. b \in 1 .. 15 /\ b # a
      BY <2>1, <3>4
    <3> QED  BY <3>2, <3>5, <3>6, NamesDiffer
  <2>8. tr[i] = tr[i - 1] \ {Name(t)}
    <3>1. \A j : j \in 1 .. t <=> j \in 1 .. t - 1 \/ j = t
      BY <2>1
    <3>2. tr[i - 1] = tr[i] \cup {Name(t)}
      BY <2>3, <3>1
    <3> QED  BY <2>6, <3>2
  <2>9. Applies(q[i], tr[i - 1])
    <3>1. {Name(t)} \subseteq tr[i - 1]
      BY <2>6
    <3>2. \A n \in tr[i - 1] \ {Name(t)} : Referenced(n) \cap {Name(t)} = {}
      BY <2>7, <2>8
    <3> QED  BY <2>4, <3>1, <3>2 DEF Applies
  <2> QED  BY <2>4, <2>5, <2>8, <2>9 DEF After
<1>5. q \in Seq(Statements) /\ Len(q) = 15
  <2>1. q = [i \in 1 .. 15 |-> q[i]]
    BY Reversed DEF ForgetsType
  <2> HIDE DEF q
  <2> QED  BY <1>4, <2>1
<1> HIDE DEF q, tr
<1>6. Trace(q, tr)
  BY <1>2, <1>4, <1>5 DEF Trace
<1>7. Script(q, V \cup InitialNames, V)
  BY <1>3, <1>5, <1>6 DEF Script
<1> QED  BY <1>7 DEF q

(* A statement about names that no table refers to.                        *)
LEMMA Unreferenced ==
  ASSUME NEW makes \in SUBSET Names, NEW drops \in SUBSET Names, NEW V \in SUBSET Names,
         makes \cap V = {}, drops \subseteq V, drops \cap InitialNames = {}
  PROVE  Script(<<Statement(makes, drops, {}, FALSE)>>, V, (V \ drops) \cup makes)
<1> DEFINE s == Statement(makes, drops, {}, FALSE)
<1>1. s \in Statements
  BY StatementType
<1>2. s.makes = makes /\ s.drops = drops /\ s.needs = {} /\ s.ifExists = FALSE
  BY DEF Statement
<1> HIDE DEF s
<1>3. \A n : Referenced(n) \cap drops = {}
  BY OnlyTablesReferred
<1>4. Applies(s, V)
  BY <1>2, <1>3 DEF Applies
<1>5. After(s, V) = (V \ drops) \cup makes
  BY <1>2 DEF After
<1>6. Script(<<s>>, V, (V \ drops) \cup makes)
  BY <1>1, <1>4, <1>5, OneStatement
<1> QED  BY <1>6 DEF s

LEMMA TypeDropped ==
  ASSUME NEW V \in SUBSET Names
  PROVE  Script(<<DropIfExists("deptype")>>, V, V \ {"deptype"})
<1> DEFINE s == DropIfExists("deptype")
<1>1. s \in Statements
  BY StatementType, AllNames DEF DropIfExists, Apart
<1>2. s.makes = {} /\ s.drops = {"deptype"} /\ s.needs = {} /\ s.ifExists = TRUE
  BY DEF DropIfExists, Statement
<1> HIDE DEF s
<1>3. "deptype" \notin InitialNames
  BY NamesOfTables DEF InitialNames, Apart
<1>4. \A n : Referenced(n) \cap {"deptype"} = {}
  BY <1>3, OnlyTablesReferred
<1>5. Applies(s, V)
  BY <1>2, <1>4 DEF Applies
<1>6. After(s, V) = V \ {"deptype"}
  BY <1>2 DEF After
<1>7. Script(<<s>>, V, V \ {"deptype"})
  BY <1>1, <1>5, <1>6, OneStatement
<1> QED  BY <1>7 DEF s

LEMMA Fulls ==
  /\ Full(0) = {"alembic_version"}
  /\ Full(1) = InitialNames \cup {"deptype", "0001_initial", "alembic_version"}
  /\ Full(2) = InitialNames \cup {"deptype", "processed_event", "0002_dedup_inbox",
                                  "alembic_version"}
  /\ InitialNames \cap Apart = {}
  /\ Full(0) \in SUBSET Names /\ Full(1) \in SUBSET Names /\ Full(2) \in SUBSET Names
<1>1. InitialNames \cap Apart = {}
  BY NamesOfTables DEF InitialNames
<1> QED  BY <1>1, AllNames DEF Full, Apart

LEMMA VersionTable == Script(<<Create("alembic_version", {})>>, {}, Full(0))
<1>1. {"alembic_version"} \in SUBSET Names
  BY AllNames DEF Apart
<1>2. Script(<<Statement({"alembic_version"}, {}, {}, FALSE)>>, {}, ({} \ {}) \cup {"alembic_version"})
  BY <1>1, Unreferenced
<1> QED  BY <1>2, Fulls DEF Create

LEMMA FirstUp == Script(Up(1), Full(0), Full(1)) /\ Touches(Up(1), "customer")
<1> DEFINE p == Tenancy \o WorkSpine
           q == DependenciesAndAssignment \o Time \o Outbox
           V0 == Full(0)
           V1 == V0 \cup {Name(j) : j \in 1 .. 10}
           V2 == V1 \cup {"deptype"}
           V3 == V2 \cup {Name(j) : j \in 11 .. 15}
<1>1. \A j \in 1 .. 15 : Name(j) \in InitialNames /\ Name(j) \in Names /\ Name(j) \notin Apart
  BY AllNames, NamesOfTables DEF InitialNames
<1>2. V0 \in SUBSET Names /\ V1 \in SUBSET Names /\ V2 \in SUBSET Names /\ V3 \in SUBSET Names
  BY <1>1, Fulls, AllNames DEF Apart
<1>3. Script(Creates(p), V0, V1)
  <2>0. Len(p) = 10 /\ DOMAIN p = 1 .. 10 /\ \A i \in 1 .. 10 : p[i] = InitialTables[i]
    BY Halves
  <2>1. \A i \in 1 .. 10 : p[i] = InitialTables[0 + i]
    <3>1. \A i \in 1 .. 10 : 0 + i = i
      OBVIOUS
    <3> QED  BY <2>0, <3>1
  <2>2. (\A j \in 1 .. 0 : Name(j) \in V0) /\ \A j \in 1 .. 10 : Name(j) \notin V0
    BY <1>1, Fulls DEF Apart
  <2> HIDE DEF p, V0
  <2>3. Script(Creates(p), V0, V0 \cup {Name(j) : j \in 0 + 1 .. 0 + 10})
    BY <1>2, <2>0, <2>1, <2>2, CreatedSoFar
  <2> QED  BY <2>3
<1>4. Script(<<CreateType>>, V1, V2)
  <2>1. "deptype" \notin V1 /\ {"deptype"} \in SUBSET Names
    BY <1>1, Fulls, AllNames DEF Apart
  <2> HIDE DEF V1
  <2>2. Script(<<Statement({"deptype"}, {}, {}, FALSE)>>, V1, (V1 \ {}) \cup {"deptype"})
    BY <1>2, <2>1, Unreferenced
  <2> QED  BY <2>2 DEF CreateType, Create
<1>5. Script(Creates(q), V2, V3)
  <2>1. Len(q) = 5 /\ DOMAIN q = 1 .. 5 /\ \A i \in 1 .. 5 : q[i] = InitialTables[10 + i]
    BY Halves
  <2>2. \A j \in 1 .. 10 : Name(j) \in V2
    OBVIOUS
  <2>3. \A j \in 11 .. 15 : Name(j) \notin V2
    <3> SUFFICES ASSUME NEW j \in 11 .. 15, NEW k \in 1 .. 10, Name(j) = Name(k) PROVE FALSE
      BY <1>1, Fulls DEF Apart
    <3>1. j \in 1 .. 15 /\ k \in 1 .. 15 /\ j # k
      OBVIOUS
    <3> QED  BY <3>1, NamesDiffer
  <2> HIDE DEF q, V2
  <2>4. Script(Creates(q), V2, V2 \cup {Name(j) : j \in 10 + 1 .. 10 + 5})
    BY <1>2, <2>1, <2>2, <2>3, CreatedSoFar
  <2> QED  BY <2>4
<1>6. Script(<<Stamp(0, 1)>>, V3, Full(1))
  <2>1. V3 = InitialNames \cup {"deptype", "alembic_version"}
    <3>1. \A j : j \in 1 .. 15 <=> j \in 1 .. 10 \/ j \in 11 .. 15
      OBVIOUS
    <3> QED  BY <3>1, Fulls DEF InitialNames
  <2> HIDE DEF V3
  <2>2. {"0001_initial"} \cap V3 = {} /\ {"0001_initial"} \in SUBSET Names
        /\ (V3 \ {}) \cup {"0001_initial"} = Full(1)
    BY <2>1, Fulls, AllNames DEF Apart
  <2>3. Script(<<Statement({"0001_initial"}, {}, {}, FALSE)>>, V3, (V3 \ {}) \cup {"0001_initial"})
    BY <1>2, <2>2, Unreferenced
  <2> QED  BY <2>2, <2>3, AllNames DEF Stamp
<1> HIDE DEF p, q, V0, V1, V2, V3
<1>7. Script(((Creates(p) \o <<CreateType>>) \o Creates(q)) \o <<Stamp(0, 1)>>, V0, Full(1))
  <2>1. Script(Creates(p) \o <<CreateType>>, V0, V2)
    BY <1>3, <1>4, ScriptJoined
  <2>2. Script((Creates(p) \o <<CreateType>>) \o Creates(q), V0, V3)
    BY <1>5, <2>1, ScriptJoined
  <2> QED  BY <1>6, <2>2, ScriptJoined
<1>8. Up(1) = ((Creates(p) \o <<CreateType>>) \o Creates(q)) \o <<Stamp(0, 1)>>
  BY DEF Up, CreateInitial, p, q
<1>9. /\ Creates(p) \in Seq(Statements) /\ Creates(q) \in Seq(Statements)
      /\ <<CreateType>> \in Seq(Statements) /\ <<Stamp(0, 1)>> \in Seq(Statements)
  <2>1. \A s, V, W : Script(s, V, W) => s \in Seq(Statements)
    BY DEF Script
  <2>2. Creates(p) \in Seq(Statements) /\ Creates(q) \in Seq(Statements)
    BY <1>3, <1>5, <2>1, Zenon
  <2>3. <<CreateType>> \in Seq(Statements) /\ <<Stamp(0, 1)>> \in Seq(Statements)
    BY <1>4, <1>6, <2>1, Zenon
  <2> QED  BY <2>2, <2>3, Zenon
<1>10. Touches(Creates(p), "customer")
  <2>1. DOMAIN Creates(p) = 1 .. 10 /\ Creates(p)[1] = CreateTable(InitialTables[1])
    BY Halves DEF Creates, p
  <2>2. "customer" \in Creates(p)[1].makes
    BY <2>1, Names15 DEF CreateTable, Create, Statement, Name
  <2>3. 1 \in 1 .. Len(Creates(p))
    <3>1. DOMAIN Creates(p) = 1 .. Len(Creates(p)) /\ 1 \in 1 .. 10
      BY <1>9
    <3> QED  BY <2>1, <3>1
  <2> QED  BY <2>2, <2>3 DEF Touches
<1>11. Touches(Up(1), "customer")
  <2>1. Creates(p) \o <<CreateType>> \in Seq(Statements)
        /\ (Creates(p) \o <<CreateType>>) \o Creates(q) \in Seq(Statements)
    BY <1>9, Joined
  <2>2. Touches(Creates(p) \o <<CreateType>>, "customer")
    BY <1>9, <1>10, TouchesJoined
  <2>3. Touches((Creates(p) \o <<CreateType>>) \o Creates(q), "customer")
    BY <1>9, <2>1, <2>2, TouchesJoined
  <2> QED  BY <1>8, <1>9, <2>1, <2>3, TouchesJoined
<1> QED  BY <1>7, <1>8, <1>11 DEF V0

LEMMA SecondUp == Script(Up(2), Full(1), Full(2)) /\ Touches(Up(2), "0001_initial")
<1> DEFINE V == Full(1) \cup {"processed_event"}
<1>1. {"processed_event"} \cap Full(1) = {} /\ {"processed_event"} \in SUBSET Names
      /\ "processed_event" \notin InitialNames
  BY Fulls, AllNames DEF Apart
<1>2. Referenced("processed_event") = {}
  BY <1>1, OnlyTablesReferred
<1>3. CreateTable(DedupInbox) = Statement({"processed_event"}, {}, {}, FALSE)
  BY <1>2, AllNames DEF CreateTable, Create
<1>4. Script(<<CreateTable(DedupInbox)>>, Full(1), V)
  <2>1. Script(<<Statement({"processed_event"}, {}, {}, FALSE)>>, Full(1),
               (Full(1) \ {}) \cup {"processed_event"})
    BY <1>1, Fulls, Unreferenced
  <2> QED  BY <1>3, <2>1
<1>5. Stamp(1, 2) = Statement({"0002_dedup_inbox"}, {"0001_initial"}, {}, FALSE)
  BY AllNames DEF Stamp
<1>6. /\ V \in SUBSET Names
      /\ {"0002_dedup_inbox"} \in SUBSET Names /\ {"0001_initial"} \in SUBSET Names
      /\ {"0002_dedup_inbox"} \cap V = {} /\ {"0001_initial"} \subseteq V
      /\ {"0001_initial"} \cap InitialNames = {}
      /\ (V \ {"0001_initial"}) \cup {"0002_dedup_inbox"} = Full(2)
  BY Fulls, AllNames DEF Apart
<1> HIDE DEF V
<1>7. Script(<<Stamp(1, 2)>>, V, Full(2))
  <2>1. Script(<<Statement({"0002_dedup_inbox"}, {"0001_initial"}, {}, FALSE)>>, V,
               (V \ {"0001_initial"}) \cup {"0002_dedup_inbox"})
    BY <1>6, Unreferenced
  <2> QED  BY <1>5, <1>6, <2>1
<1>8. Up(2) = <<CreateTable(DedupInbox)>> \o <<Stamp(1, 2)>>
  BY DEF Up
<1>9. Touches(Up(2), "0001_initial")
  <2>1. <<CreateTable(DedupInbox)>> \in Seq(Statements)
        /\ Statement({"0002_dedup_inbox"}, {"0001_initial"}, {}, FALSE) \in Statements
    BY <1>4, <1>6, StatementType DEF Script
  <2>2. "0001_initial" \in {"0002_dedup_inbox"} \cup {"0001_initial"}
    OBVIOUS
  <2>3. Touches(<<CreateTable(DedupInbox)>> \o <<Statement({"0002_dedup_inbox"}, {"0001_initial"}, {}, FALSE)>>, "0001_initial")
    BY <2>1, <2>2, TouchesLast
  <2> QED  BY <1>5, <1>8, <2>3
<1> QED  BY <1>4, <1>7, <1>8, <1>9, ScriptJoined

LEMMA SecondDown == Script(Down(2), Full(2), Full(1)) /\ Touches(Down(2), "0002_dedup_inbox")
<1> DEFINE V == Full(2) \ {"processed_event"}
<1>1. /\ {"processed_event"} \in SUBSET Names /\ {"processed_event"} \subseteq Full(2)
      /\ {"processed_event"} \cap InitialNames = {}
  BY Fulls, AllNames DEF Apart
<1>2. Script(<<Drop(DedupInbox.name)>>, Full(2), V)
  <2>1. Script(<<Statement({}, {"processed_event"}, {}, FALSE)>>, Full(2),
               (Full(2) \ {"processed_event"}) \cup {})
    BY <1>1, Fulls, Unreferenced
  <2> QED  BY <2>1, AllNames DEF Drop
<1>3. Stamp(2, 1) = Statement({"0001_initial"}, {"0002_dedup_inbox"}, {}, FALSE)
  BY AllNames DEF Stamp
<1>4. /\ V \in SUBSET Names
      /\ {"0002_dedup_inbox"} \in SUBSET Names /\ {"0001_initial"} \in SUBSET Names
      /\ {"0001_initial"} \cap V = {} /\ {"0002_dedup_inbox"} \subseteq V
      /\ {"0002_dedup_inbox"} \cap InitialNames = {}
      /\ (V \ {"0002_dedup_inbox"}) \cup {"0001_initial"} = Full(1)
  BY Fulls, AllNames DEF Apart
<1> HIDE DEF V
<1>5. Script(<<Stamp(2, 1)>>, V, Full(1))
  <2>1. Script(<<Statement({"0001_initial"}, {"0002_dedup_inbox"}, {}, FALSE)>>, V,
               (V \ {"0002_dedup_inbox"}) \cup {"0001_initial"})
    BY <1>4, Unreferenced
  <2> QED  BY <1>3, <1>4, <2>1
<1>6. Down(2) = <<Drop(DedupInbox.name)>> \o <<Stamp(2, 1)>>
  BY DEF Down
<1>7. Touches(Down(2), "0002_dedup_inbox")
  <2>1. <<Drop(DedupInbox.name)>> \in Seq(Statements)
        /\ Statement({"0001_initial"}, {"0002_dedup_inbox"}, {}, FALSE) \in Statements
    BY <1>2, <1>4, StatementType DEF Script
  <2>2. "0002_dedup_inbox" \in {"0001_initial"} \cup {"0002_dedup_inbox"}
    OBVIOUS
  <2>3. Touches(<<Drop(DedupInbox.name)>> \o <<Statement({"0001_initial"}, {"0002_dedup_inbox"}, {}, FALSE)>>, "0002_dedup_inbox")
    BY <2>1, <2>2, TouchesLast
  <2> QED  BY <1>3, <1>6, <2>3
<1> QED  BY <1>2, <1>5, <1>6, <1>7, ScriptJoined

LEMMA FirstDown == Script(Down(1), Full(1), Full(0)) /\ Touches(Down(1), "0001_initial")
<1> DEFINE V == {"deptype", "0001_initial", "alembic_version"}
           W == {"0001_initial", "alembic_version"}
<1>1. V \in SUBSET Names /\ V \cap InitialNames = {} /\ V \cup InitialNames = Full(1)
      /\ V \ {"deptype"} = W /\ W \in SUBSET Names
  BY Fulls, AllNames DEF Apart
<1>2. /\ {"0001_initial"} \in SUBSET Names /\ {"0001_initial"} \subseteq W
      /\ {"0001_initial"} \cap InitialNames = {} /\ (W \ {"0001_initial"}) \cup {} = Full(0)
  BY Fulls, AllNames DEF Apart
<1>3. Down(1) = (ForgetsType \o <<DropIfExists("deptype")>>) \o <<Stamp(1, 0)>>
  BY DEF Down, DropInitial
<1>4. Stamp(1, 0) = Statement({}, {"0001_initial"}, {}, FALSE)
  BY AllNames DEF Stamp
<1> HIDE DEF V, W
<1>5. Script(ForgetsType, Full(1), V)
  <2>1. Script(ForgetsType, V \cup InitialNames, V)
    BY <1>1, DroppedAll
  <2> QED  BY <1>1, <2>1
<1>6. Script(<<DropIfExists("deptype")>>, V, W)
  <2>1. Script(<<DropIfExists("deptype")>>, V, V \ {"deptype"})
    BY <1>1, TypeDropped
  <2> QED  BY <1>1, <2>1
<1>7. Script(<<Stamp(1, 0)>>, W, Full(0))
  <2>1. Script(<<Statement({}, {"0001_initial"}, {}, FALSE)>>, W, (W \ {"0001_initial"}) \cup {})
    BY <1>1, <1>2, Unreferenced
  <2> QED  BY <1>2, <1>4, <2>1
<1>8. Script(ForgetsType \o <<DropIfExists("deptype")>>, Full(1), W)
  BY <1>5, <1>6, ScriptJoined
<1>9. Touches(Down(1), "0001_initial")
  <2>1. ForgetsType \o <<DropIfExists("deptype")>> \in Seq(Statements)
        /\ Statement({}, {"0001_initial"}, {}, FALSE) \in Statements
    BY <1>2, <1>8, StatementType DEF Script
  <2>2. "0001_initial" \in {} \cup {"0001_initial"}
    OBVIOUS
  <2>3. Touches((ForgetsType \o <<DropIfExists("deptype")>>) \o <<Statement({}, {"0001_initial"}, {}, FALSE)>>, "0001_initial")
    BY <2>1, <2>2, TouchesLast
  <2> QED  BY <1>3, <1>4, <2>3
<1> QED  BY <1>3, <1>7, <1>8, <1>9, ScriptJoined

(* What alembic executes leads from the schema of the one revision to that *)
(* of the other.                                                           *)
LEMMA Paths ==
  ASSUME NEW n \in 0 .. 2, NEW target \in {2} \cup 0 .. n
  PROVE  Script(Path(n, target), Full(n), Full(target))
<1> DEFINE A == IF n < 1 /\ target >= 1 THEN Up(1) ELSE <<>>
           B == IF n < 2 /\ target >= 2 THEN Up(2) ELSE <<>>
           C == IF n >= 2 /\ target < 2 THEN Down(2) ELSE <<>>
           D == IF n >= 1 /\ target < 1 THEN Down(1) ELSE <<>>
           a == IF n < 1 /\ target >= 1 THEN 1 ELSE n
           b == IF n < 2 /\ target >= 2 THEN 2 ELSE a
           c == IF n >= 2 /\ target < 2 THEN 1 ELSE b
<1>1. \A m \in 0 .. 2 : Full(m) \in SUBSET Names /\ Script(<<>>, Full(m), Full(m))
  <2>1. \A m \in 0 .. 2 : m = 0 \/ m = 1 \/ m = 2
    OBVIOUS
  <2>2. \A m \in 0 .. 2 : Full(m) \in SUBSET Names
    BY <2>1, Fulls
  <2> QED  BY <2>2, EmptyScript
<1>2. a \in 0 .. 2 /\ b \in 0 .. 2 /\ c \in 0 .. 2 /\ target \in 0 .. 2
  OBVIOUS
<1>3. (n < 1 /\ target >= 1 => n = 0) /\ (n < 2 /\ target >= 2 => a = 1)
      /\ (n >= 2 /\ target < 2 => b = 2) /\ (n >= 1 /\ target < 1 => c = 1)
      /\ (~ (n >= 1 /\ target < 1) => c = target)
      /\ (n >= 1 /\ target < 1 => target = 0)
  OBVIOUS
<1>4. Script(A, Full(n), Full(a))
  BY <1>1, <1>3, FirstUp
<1>5. Script(B, Full(a), Full(b))
  BY <1>1, <1>2, <1>3, SecondUp
<1>6. Script(C, Full(b), Full(c))
  BY <1>1, <1>2, <1>3, SecondDown
<1>7. Script(D, Full(c), Full(target))
  BY <1>1, <1>2, <1>3, FirstDown
<1> HIDE DEF A, B, C, D, a, b, c
<1>8. Script(A \o B, Full(n), Full(b))
  BY <1>4, <1>5, ScriptJoined
<1>9. Script((A \o B) \o C, Full(n), Full(c))
  BY <1>6, <1>8, ScriptJoined
<1>10. Script(((A \o B) \o C) \o D, Full(n), Full(target))
  BY <1>7, <1>9, ScriptJoined
<1> QED  BY <1>10 DEF Path, A, B, C, D

-----------------------------------------------------------------------------
(* The name on which two commands that start from the same schema S meet:  *)
(* each must create it or drop it, and whoever does so first locks it.     *)

Claim(S) ==
  IF "alembic_version" \notin S THEN "alembic_version"
  ELSE IF "customer" \notin S THEN "customer"
  ELSE IF "0001_initial" \in S THEN "0001_initial" ELSE "0002_dedup_inbox"

LEMMA Claims ==
  /\ Claim({}) = "alembic_version" /\ Claim(Full(0)) = "customer"
  /\ Claim(Full(1)) = "0001_initial" /\ Claim(Full(2)) = "0002_dedup_inbox"
  /\ \A S : Claim(S) # "deptype"
  /\ "customer" \in InitialNames /\ "customer" \notin Apart
<1>1. "customer" \in InitialNames /\ "customer" \notin Apart
  BY Names15 DEF InitialNames, Apart
<1>2. Claim({}) = "alembic_version" /\ Claim(Full(0)) = "customer"
  BY Fulls DEF Claim
<1>3. "0001_initial" \notin InitialNames
  BY Fulls DEF Apart
<1>4. Claim(Full(1)) = "0001_initial" /\ Claim(Full(2)) = "0002_dedup_inbox"
  BY <1>1, <1>3, Fulls DEF Claim
<1> QED  BY <1>1, <1>2, <1>4 DEF Claim

LEMMA FourSchemas ==
  /\ Schemas = {{}, Full(0), Full(1), Full(2)}
  /\ \A S \in Schemas : S \subseteq Names
<1>1. \A n : n \in 0 .. Newest <=> n = 0 \/ n = 1 \/ n = 2
  BY AllNames
<1>2. Schemas = {{}, Full(0), Full(1), Full(2)}
  BY <1>1 DEF Schemas
<1> QED  BY <1>2, Fulls

(* Whether the claim is there tells the schema.                            *)
LEMMA ClaimDecides ==
  ASSUME NEW S \in Schemas, NEW T \in Schemas,
         "alembic_version" \in S => "alembic_version" \in T,
         Claim(S) \in S <=> Claim(S) \in T
  PROVE  S = T
<1>1. "0001_initial" \notin InitialNames /\ "0002_dedup_inbox" \notin InitialNames
  BY Fulls DEF Apart
<1>2. \A U \in Schemas : /\ "0001_initial" \in U => U = Full(1)
                         /\ "0002_dedup_inbox" \in U => U = Full(2)
  BY <1>1, FourSchemas, Fulls
<1>3. \A U \in Schemas : /\ "alembic_version" \notin U => U = {}
                         /\ "alembic_version" \in U /\ "customer" \notin U => U = Full(0)
  BY FourSchemas, Fulls, Claims
<1>4. CASE S = {}
  BY <1>3, <1>4, Claims
<1>5. CASE S = Full(0)
  BY <1>3, <1>5, Claims, Fulls DEF Apart
<1>6. CASE S = Full(1)
  BY <1>2, <1>6, Claims, Fulls
<1>7. CASE S = Full(2)
  BY <1>2, <1>7, Claims, Fulls
<1> QED  BY <1>4, <1>5, <1>6, <1>7, FourSchemas

LEMMA PathTouches ==
  ASSUME NEW n \in 0 .. 2, NEW target \in {2} \cup 0 .. n
  PROVE  /\ Path(n, target) \in Seq(Statements)
         /\ n = target => Path(n, target) = <<>>
         /\ n # target => Touches(Path(n, target), Claim(Full(n)))
<1> DEFINE A == IF n < 1 /\ target >= 1 THEN Up(1) ELSE <<>>
           B == IF n < 2 /\ target >= 2 THEN Up(2) ELSE <<>>
           C == IF n >= 2 /\ target < 2 THEN Down(2) ELSE <<>>
           D == IF n >= 1 /\ target < 1 THEN Down(1) ELSE <<>>
<1>1. Up(1) \in Seq(Statements) /\ Up(2) \in Seq(Statements)
      /\ Down(1) \in Seq(Statements) /\ Down(2) \in Seq(Statements)
  BY FirstUp, SecondUp, FirstDown, SecondDown DEF Script
<1>2. A \in Seq(Statements) /\ B \in Seq(Statements) /\ C \in Seq(Statements)
      /\ D \in Seq(Statements)
  BY <1>1
<1>3. Path(n, target) = ((A \o B) \o C) \o D
  BY DEF Path
<1>4. n # target => (n = 0 /\ A = Up(1)) \/ (n = 1 /\ target = 2 /\ B = Up(2))
                    \/ (n = 1 /\ target = 0 /\ D = Down(1)) \/ (n = 2 /\ C = Down(2))
  OBVIOUS
<1>5. n = target => A = <<>> /\ B = <<>> /\ C = <<>> /\ D = <<>>
  OBVIOUS
<1> HIDE DEF A, B, C, D
<1>6. A \o B \in Seq(Statements) /\ (A \o B) \o C \in Seq(Statements)
      /\ ((A \o B) \o C) \o D \in Seq(Statements)
  BY <1>2, Joined
<1>7. \A c : Touches(A, c) \/ Touches(B, c) \/ Touches(C, c) \/ Touches(D, c)
             => Touches(((A \o B) \o C) \o D, c)
  BY <1>2, <1>6, TouchesJoined
<1>8. CASE n = target
  BY <1>3, <1>5, <1>6, <1>8
<1>9. CASE n # target
  <2>1. Touches(A, Claim(Full(n))) \/ Touches(B, Claim(Full(n)))
        \/ Touches(C, Claim(Full(n))) \/ Touches(D, Claim(Full(n)))
    BY <1>4, <1>9, Claims, FirstUp, SecondUp, FirstDown, SecondDown
  <2> QED  BY <1>3, <1>6, <1>7, <1>9, <2>1
<1> QED  BY <1>8, <1>9

(* What alembic executes on a schema when it is told the target.           *)
LEMMA Revised ==
  Revision({}) = 0 /\ Revision(Full(0)) = 0 /\ Revision(Full(1)) = 1 /\ Revision(Full(2)) = 2
<1>1. Revisions[1] = "0001_initial" /\ Revisions[2] = "0002_dedup_inbox" /\ Newest = 2
  BY AllNames DEF Revisions
<1>2. \A n : n \in 1 .. Newest <=> n = 1 \/ n = 2
  BY <1>1
<1>3. "0001_initial" \notin InitialNames /\ "0002_dedup_inbox" \notin InitialNames
  BY Fulls DEF Apart
<1>4. \A S : Revision(S) = Max({0} \cup {n \in {1, 2} : Revisions[n] \in S})
  BY <1>2 DEF Revision
<1>5. Max({0}) = 0 /\ Max({0, 1}) = 1 /\ Max({0, 2}) = 2
  BY DEF Max
<1>6. {0} \cup {n \in {1, 2} : Revisions[n] \in {}} = {0}
  OBVIOUS
<1>7. {0} \cup {n \in {1, 2} : Revisions[n] \in Full(0)} = {0}
  BY <1>1, Fulls
<1>8. {0} \cup {n \in {1, 2} : Revisions[n] \in Full(1)} = {0, 1}
  BY <1>1, <1>3, Fulls
<1>9. {0} \cup {n \in {1, 2} : Revisions[n] \in Full(2)} = {0, 2}
  BY <1>1, <1>3, Fulls
<1> QED  BY <1>4, <1>5, <1>6, <1>7, <1>8, <1>9

LEMMA Commands ==
  ASSUME NEW S \in Schemas, NEW target \in {Newest} \cup 0 .. Revision(S)
  PROVE  LET q == (IF "alembic_version" \in S THEN <<>> ELSE <<Create("alembic_version", {})>>)
                    \o Path(Revision(S), target)
         IN  /\ \E m \in 0 .. Newest : Script(q, S, Full(m))
             /\ q = <<>> \/ Touches(q, Claim(S))
<1> DEFINE n == Revision(S)
           head == IF "alembic_version" \in S THEN <<>> ELSE <<Create("alembic_version", {})>>
           q == head \o Path(n, target)
<1>1. Newest = 2 /\ n \in 0 .. 2
  <2>1. n = 0 \/ n = 1 \/ n = 2
    BY Revised, FourSchemas
  <2> HIDE DEF n
  <2> QED  BY <2>1, AllNames
<1>2. target \in {2} \cup 0 .. n /\ target \in 0 .. Newest
  BY <1>1
<1>3. "alembic_version" \in S => S = Full(n) /\ head = <<>>
  BY Revised, FourSchemas
<1>4. "alembic_version" \notin S => S = {} /\ n = 0 /\ head = <<Create("alembic_version", {})>>
  BY Revised, FourSchemas, Fulls
<1>5. Script(head, S, Full(n))
  <2>1. Full(n) \in SUBSET Names
    BY <1>1, FourSchemas, Fulls DEF Schemas
  <2> HIDE DEF n, head
  <2> QED  BY <1>3, <1>4, <2>1, EmptyScript, VersionTable
<1> HIDE DEF n, head
<1>6. Script(Path(n, target), Full(n), Full(target))
  BY <1>1, <1>2, Paths
<1>7. Script(q, S, Full(target))
  BY <1>5, <1>6, ScriptJoined
<1>8. head \in Seq(Statements) /\ Path(n, target) \in Seq(Statements)
  BY <1>5, <1>6 DEF Script
<1>9. q = <<>> \/ Touches(q, Claim(S))
  <2>1. CASE "alembic_version" \in S
    <3>1. S = Full(n) /\ q = Path(n, target)
      BY <1>3, <1>8, <2>1
    <3> QED  BY <1>1, <1>2, <3>1, PathTouches
  <2>2. CASE "alembic_version" \notin S
    <3>1. Len(head) = 1 /\ head[1].makes = {"alembic_version"}
      BY <1>4, <2>2 DEF Create, Statement
    <3>2. Touches(head, "alembic_version")
      BY <3>1 DEF Touches
    <3>3. Touches(q, "alembic_version")
      BY <1>8, <3>2, TouchesJoined
    <3> QED  BY <2>2, <3>3 DEF Claim
  <2> QED  BY <2>1, <2>2
<1> QED  BY <1>2, <1>7, <1>9 DEF q, n, head

-----------------------------------------------------------------------------
(* The inductive invariant: every open transaction executes a script from  *)
(* a schema S that was committed once.  Until it has touched its claim,    *)
(* others may have been committed; from then on S is what is committed.    *)

Touched(r) == made[r] \cup gone[r]

Begun(r, S) ==
  /\ "alembic_version" \in S => "alembic_version" \in schema
  /\ \E m \in 0 .. Newest : Script(plan[r], (S \ gone[r]) \cup made[r], Full(m))
  /\ Claim(S) \in Touched(r) \/ ~ overtaken[r] => schema = S
  /\ \/ Claim(S) \in Touched(r)
     \/ Touches(plan[r], Claim(S))
     \/ plan[r] = <<>> /\ Touched(r) = {}

Exclusive ==
  \A r \in Runners : \A o \in Runners \ {r} : Touched(r) \cap Touched(o) \subseteq {"deptype"}

Consistent ==
  /\ schema \in Schemas
  /\ \A r \in Runners : phase[r] = "running" => \E S \in Schemas : Begun(r, S)
  /\ Exclusive

Strong == TypeOK /\ Consistent

LEMMA SameNames == Statements = [makes : SUBSET Names, drops : SUBSET Names,
                                 needs : SUBSET Names, ifExists : BOOLEAN]
  BY DEF Statements

(* While nothing is committed after the transaction's start its statements *)
(* succeed.                                                                *)
LEMMA OnTrackSucceeds ==
  ASSUME NEW r \in Runners, NEW S, schema = S, NEW W,
         Script(plan[r], (S \ gone[r]) \cup made[r], W), plan[r] # <<>>
  PROVE  Succeeds(r, plan[r][1])
<1>1. Applies(plan[r][1], Visible(r))
  BY ScriptTail DEF Visible
<1> QED  BY <1>1 DEF Applies, Succeeds

(* A statement of r that succeeds shares with the others no name but that  *)
(* of the type, and if it touches the claim, the schema is what it was.    *)
LEMMA WhatIsTouched ==
  ASSUME Strong, NEW r \in Runners, NEW S \in Schemas, Begun(r, S), plan[r] # <<>>,
         ~ Waits(r, plan[r][1]), Succeeds(r, plan[r][1])
  PROVE  /\ \A o \in Runners \ {r} :
               (plan[r][1].makes \cup plan[r][1].drops) \cap Touched(o) \subseteq {"deptype"}
         /\ Claim(S) \in plan[r][1].makes \cup plan[r][1].drops => schema = S
<1> DEFINE s == plan[r][1]
           V == (S \ gone[r]) \cup made[r]
<1>1. Applies(s, V)
  BY ScriptTail DEF Begun
<1> HIDE DEF s
<1>2. ASSUME NEW o \in Runners \ {r} PROVE (s.makes \cup s.drops) \cap Touched(o) \subseteq {"deptype"}
  <2>1. CASE s.ifExists
    BY <1>1, <2>1 DEF Applies
  <2>2. CASE ~ s.ifExists
    <3>1. s.drops \subseteq Visible(r)
      BY <2>2 DEF Succeeds, s
    <3>2. Locks(s.makes \cup s.drops) \cap Locks(made[o] \cup gone[o]) = {}
      BY <3>1 DEF Waits, s
    <3>3. \A N : N \subseteq Locks(N)
      BY DEF Locks
    <3> QED  BY <3>2, <3>3 DEF Touched
  <2> QED  BY <2>1, <2>2
<1>3. ASSUME Claim(S) \in s.makes \cup s.drops PROVE schema = S
  <2>1. CASE Claim(S) \in Touched(r)
    BY <2>1 DEF Begun
  <2>2. CASE Claim(S) \notin Touched(r)
    <3>1. (Claim(S) \in V <=> Claim(S) \in S) /\ (Claim(S) \in Visible(r) <=> Claim(S) \in schema)
      BY <2>2 DEF Touched, Visible
    <3>2. Claim(S) # "deptype"
      BY Claims
    <3> HIDE DEF V
    <3>3. CASE Claim(S) \in s.makes
      <4>1. Claim(S) \notin V /\ Claim(S) \notin Visible(r)
        BY <1>1, <3>3 DEF Applies, Succeeds, s
      <4> QED  BY <3>1, <4>1, ClaimDecides DEF Begun, Strong, Consistent
    <3>4. CASE Claim(S) \in s.drops
      <4>1. ~ s.ifExists
        BY <1>1, <3>2, <3>4 DEF Applies
      <4>2. Claim(S) \in V /\ Claim(S) \in Visible(r)
        BY <1>1, <3>4, <4>1 DEF Applies, Succeeds, s
      <4> QED  BY <3>1, <4>2, ClaimDecides DEF Begun, Strong, Consistent
    <3> QED  BY <1>3, <3>3, <3>4
  <2> QED  BY <2>1, <2>2
<1> QED  BY <1>2, <1>3 DEF s

LEMMA InitStrong == Init => Strong
<1> SUFFICES ASSUME Init PROVE Strong
  OBVIOUS
<1> USE DEF Init
<1>1. \A r \in Runners : made[r] = {} /\ gone[r] = {} /\ plan[r] = <<>> /\ phase[r] = "idle"
  OBVIOUS
<1>2. TypeOK
  <2>1. plan \in [Runners -> Seq(Statements)]
    OBVIOUS
  <2>2. commands \in 0 .. MaxCommands
    BY MigrationsAssumption
  <2> QED  BY <1>1, <2>1, <2>2, SameNames DEF TypeOK
<1>3. schema \in Schemas
  BY DEF Schemas
<1>4. Exclusive
  BY <1>1 DEF Exclusive, Touched
<1> QED  BY <1>1, <1>2, <1>3, <1>4 DEF Strong, Consistent

LEMMA StartStrong ==
  ASSUME Strong, NEW r \in Runners, NEW target \in 0 .. Newest, Start(r, target)
  PROVE  Strong'
<1> DEFINE q == (IF "alembic_version" \in schema THEN <<>>
                 ELSE <<Create("alembic_version", {})>>) \o Path(Revision(schema), target)
<1>1. schema \in Schemas /\ TypeOK
  BY DEF Strong, Consistent
<1>2. PICK m \in 0 .. Newest : Script(q, schema, Full(m))
  BY <1>1, Commands DEF Start
<1>3. q = <<>> \/ Touches(q, Claim(schema))
  BY <1>1, Commands DEF Start
<1>4. plan'[r] = q /\ \A o \in Runners \ {r} : plan'[o] = plan[o]
  BY <1>1 DEF Start, TypeOK
<1> HIDE DEF q
<1>5. UNCHANGED <<schema, made, gone, result>>
  BY DEF Start
<1>6. made[r] = {} /\ gone[r] = {} /\ phase[r] = "idle"
  BY <1>1 DEF Start, TypeOK
<1>7. phase' = [phase EXCEPT ![r] = "running"] /\ overtaken' = [overtaken EXCEPT ![r] = FALSE]
  BY DEF Start
<1>8. TypeOK'
  <2>1. commands' \in 0 .. MaxCommands
    BY <1>1, MigrationsAssumption DEF Start, TypeOK
  <2>2. plan' \in [Runners -> Seq(Statements)]
    BY <1>1, <1>2, <1>4, SameNames DEF TypeOK, Script, Start
  <2>3. \A o \in Runners : phase'[o] = "idle" => plan'[o] = <<>> /\ made'[o] \cup gone'[o] = {}
    BY <1>1, <1>4, <1>5, <1>7 DEF TypeOK
  <2>4. phase' \in [Runners -> {"idle", "running"}]
    BY <1>1, <1>7 DEF TypeOK
  <2>5. overtaken' \in [Runners -> BOOLEAN]
    BY <1>1, <1>7 DEF TypeOK
  <2> QED  BY <1>1, <1>5, <2>1, <2>2, <2>3, <2>4, <2>5, SameNames DEF TypeOK
<1>9. Exclusive'
  BY <1>5 DEF Strong, Consistent, Exclusive, Touched
<1>10. ASSUME NEW o \in Runners, phase'[o] = "running" PROVE \E S \in Schemas : Begun(o, S)'
  <2>1. CASE o = r
    <3>1. (schema \ gone'[r]) \cup made'[r] = schema /\ Touched(r)' = {}
      BY <1>5, <1>6 DEF Touched
    <3>2. PICK S \in Schemas : S = schema
      BY <1>1
    <3>3. (S \ gone'[r]) \cup made'[r] = S /\ schema' = S
      BY <1>5, <3>1, <3>2
    <3>4. Begun(r, S)'
      BY <1>2, <1>3, <1>4, <3>1, <3>2, <3>3 DEF Begun
    <3> QED  BY <2>1, <3>4
  <2>2. CASE o # r
    <3>1. phase[o] = "running" /\ plan'[o] = plan[o] /\ overtaken'[o] = overtaken[o]
      BY <1>1, <1>4, <1>7, <1>10, <2>2 DEF TypeOK
    <3>2. PICK S \in Schemas : Begun(o, S)
      BY <3>1 DEF Strong, Consistent
    <3>3. Begun(o, S)'
      BY <1>5, <3>1, <3>2 DEF Begun, Touched
    <3> QED  BY <3>3
  <2> QED  BY <2>1, <2>2
<1> QED  BY <1>1, <1>5, <1>8, <1>9, <1>10 DEF Strong, Consistent

LEMMA ExecuteStrong ==
  ASSUME Strong, NEW r \in Runners, Execute(r)
  PROVE  Strong'
<1> DEFINE s == plan[r][1]
<1>1. TypeOK /\ schema \in Schemas /\ plan[r] # <<>> /\ phase[r] = "running"
  BY DEF Strong, Consistent, Execute
<1>2. PICK S \in Schemas : Begun(r, S)
  BY <1>1 DEF Strong, Consistent
<1>3. PICK m \in 0 .. Newest : Script(plan[r], (S \ gone[r]) \cup made[r], Full(m))
  BY <1>2 DEF Begun
<1>4. /\ s \in Statements
      /\ Script(Tail(plan[r]), After(s, (S \ gone[r]) \cup made[r]), Full(m))
      /\ plan[r] \in Seq(Statements) /\ Tail(plan[r]) \in Seq(Statements)
  <2>1. s \in Statements /\ Script(Tail(plan[r]), After(s, (S \ gone[r]) \cup made[r]), Full(m))
    BY <1>1, <1>3, ScriptTail
  <2> QED  BY <1>3, <2>1 DEF Script
<1>5. /\ \A o \in Runners \ {r} : (s.makes \cup s.drops) \cap Touched(o) \subseteq {"deptype"}
      /\ Claim(S) \in s.makes \cup s.drops => schema = S
  BY <1>1, <1>2, WhatIsTouched DEF Execute
<1>6. /\ made'[r] = (made[r] \ s.drops) \cup s.makes /\ gone'[r] = (gone[r] \cup s.drops) \ s.makes
      /\ \A o \in Runners \ {r} : made'[o] = made[o] /\ gone'[o] = gone[o] /\ plan'[o] = plan[o]
      /\ plan'[r] = Tail(plan[r])
      /\ made' \in [Runners -> SUBSET Names] /\ gone' \in [Runners -> SUBSET Names]
  BY <1>1, <1>4 DEF Execute, TypeOK, Statements
<1>7. UNCHANGED <<schema, phase, result, commands, overtaken>>
  BY DEF Execute
<1> HIDE DEF s
<1>8. Touched(r)' = Touched(r) \cup s.makes \cup s.drops
      /\ \A o \in Runners \ {r} : Touched(o)' = Touched(o)
  BY <1>6 DEF Touched
<1>9. TypeOK'
  <2>1. plan' \in [Runners -> Seq(Statements)]
    BY <1>1, <1>4, SameNames DEF Execute, TypeOK
  <2>2. \A o \in Runners : phase'[o] = "idle" => plan'[o] = <<>> /\ made'[o] \cup gone'[o] = {}
    BY <1>1, <1>6, <1>7 DEF TypeOK
  <2> QED  BY <1>1, <1>6, <1>7, <2>1, <2>2, SameNames DEF TypeOK
<1>10. Exclusive'
  <2> SUFFICES ASSUME NEW a \in Runners, NEW o \in Runners \ {a}
               PROVE  Touched(a)' \cap Touched(o)' \subseteq {"deptype"}
    BY DEF Exclusive
  <2>1. Touched(a) \cap Touched(o) \subseteq {"deptype"}
    BY DEF Strong, Consistent, Exclusive
  <2>2. CASE a = r
    BY <1>5, <1>8, <2>1, <2>2
  <2>3. CASE o = r
    BY <1>5, <1>8, <2>1, <2>3
  <2>4. CASE a # r /\ o # r
    BY <1>8, <2>1, <2>4
  <2> QED  BY <2>2, <2>3, <2>4
<1>11. Begun(r, S)'
  <2>1. (S \ gone'[r]) \cup made'[r] = After(s, (S \ gone[r]) \cup made[r])
    BY <1>6 DEF After
  <2>2. Claim(S) \in Touched(r)' \/ ~ overtaken'[r] => schema' = S
    BY <1>2, <1>5, <1>7, <1>8 DEF Begun
  <2>3. Touches(plan[r], Claim(S)) => Claim(S) \in s.makes \cup s.drops \/ Touches(Tail(plan[r]), Claim(S))
    BY <1>1, <1>4, TouchesTail DEF s
  <2>4. Claim(S) \in Touched(r)' \/ Touches(plan'[r], Claim(S))
    BY <1>1, <1>2, <1>6, <1>8, <2>3 DEF Begun
  <2>5. "alembic_version" \in S => "alembic_version" \in schema'
    BY <1>2, <1>7 DEF Begun
  <2> QED  BY <1>4, <1>6, <2>1, <2>2, <2>4, <2>5 DEF Begun
<1>12. ASSUME NEW o \in Runners \ {r}, phase'[o] = "running" PROVE \E T \in Schemas : Begun(o, T)'
  <2>1. PICK T \in Schemas : Begun(o, T)
    BY <1>7, <1>12 DEF Strong, Consistent
  <2>2. Begun(o, T)'
    BY <1>6, <1>7, <1>8, <2>1 DEF Begun
  <2> QED  BY <2>2
<1>13. ASSUME NEW o \in Runners, phase'[o] = "running" PROVE \E T \in Schemas : Begun(o, T)'
  BY <1>11, <1>12, <1>13
<1> QED  BY <1>1, <1>7, <1>9, <1>10, <1>13 DEF Strong, Consistent

(* A transaction that ends without a commit.                               *)
LEMMA EndsStrong ==
  ASSUME Strong, NEW r \in Runners, NEW how \in {"refused", "lost"}, Ends(r, how),
         schema' = schema, overtaken' = overtaken
  PROVE  Strong'
<1>1. TypeOK /\ schema \in Schemas
  BY DEF Strong, Consistent
<1>2. /\ phase' = [phase EXCEPT ![r] = "idle"] /\ plan' = [plan EXCEPT ![r] = <<>>]
      /\ made' = [made EXCEPT ![r] = {}] /\ gone' = [gone EXCEPT ![r] = {}]
      /\ result' = [result EXCEPT ![r] = how] /\ commands' = commands
  BY DEF Ends
<1>3. phase'[r] = "idle" /\ made'[r] = {} /\ gone'[r] = {} /\ plan'[r] = <<>>
  BY <1>1, <1>2 DEF TypeOK
<1>4. \A o \in Runners \ {r} : made'[o] = made[o] /\ gone'[o] = gone[o] /\ plan'[o] = plan[o]
                               /\ phase'[o] = phase[o]
  BY <1>1, <1>2 DEF TypeOK
<1>5. TypeOK'
  <2>1. plan' \in [Runners -> Seq(Statements)] /\ phase' \in [Runners -> {"idle", "running"}]
    <3>1. <<>> \in Seq(Statements)
      OBVIOUS
    <3> QED  BY <1>1, <1>2, <3>1, SameNames DEF TypeOK
  <2>2. made' \in [Runners -> SUBSET Names] /\ gone' \in [Runners -> SUBSET Names]
    BY <1>1, <1>2 DEF TypeOK
  <2>3. result' \in [Runners -> {"none", "done", "refused", "lost"}]
    BY <1>1, <1>2 DEF TypeOK
  <2>4. \A o \in Runners : phase'[o] = "idle" => plan'[o] = <<>> /\ made'[o] \cup gone'[o] = {}
    BY <1>1, <1>3, <1>4 DEF TypeOK
  <2>5. commands' \in 0 .. MaxCommands /\ schema' \subseteq Names
        /\ overtaken' \in [Runners -> BOOLEAN]
    BY <1>1, <1>2 DEF TypeOK
  <2> QED  BY <2>1, <2>2, <2>3, <2>4, <2>5, SameNames DEF TypeOK
<1>6. \A o \in Runners : Touched(o)' \subseteq Touched(o)
  BY <1>3, <1>4 DEF Touched
<1>7. Exclusive'
  <2> SUFFICES ASSUME NEW a \in Runners, NEW o \in Runners \ {a}
               PROVE  Touched(a)' \cap Touched(o)' \subseteq {"deptype"}
    BY DEF Exclusive
  <2>1. Touched(a) \cap Touched(o) \subseteq {"deptype"}
    BY DEF Strong, Consistent, Exclusive
  <2> QED  BY <1>6, <2>1
<1>8. ASSUME NEW o \in Runners, phase'[o] = "running" PROVE \E S \in Schemas : Begun(o, S)'
  <2>1. o # r
    BY <1>3, <1>8
  <2>2. PICK S \in Schemas : Begun(o, S)
    BY <1>4, <1>8, <2>1 DEF Strong, Consistent
  <2>3. Begun(o, S)'
    BY <1>4, <2>1, <2>2 DEF Begun, Touched
  <2> QED  BY <2>3
<1> QED  BY <1>1, <1>5, <1>7, <1>8 DEF Strong, Consistent

LEMMA CommitStrong ==
  ASSUME Strong, NEW r \in Runners, Commit(r)
  PROVE  Strong'
<1>1. TypeOK /\ schema \in Schemas /\ plan[r] = <<>> /\ phase[r] = "running"
  BY DEF Strong, Consistent, Commit
<1>2. PICK S \in Schemas : Begun(r, S)
  BY <1>1 DEF Strong, Consistent
<1>3. PICK m \in 0 .. Newest : Script(plan[r], (S \ gone[r]) \cup made[r], Full(m))
  BY <1>2 DEF Begun
<1>4. (S \ gone[r]) \cup made[r] = Full(m)
  BY <1>1, <1>3, EmptyScript
<1>5. ~ Touches(plan[r], Claim(S))
  BY <1>1 DEF Touches
<1>6. \/ schema' = schema
      \/ schema = S /\ Claim(S) \in Touched(r) /\ schema' = Full(m)
  <2>1. CASE Claim(S) \in Touched(r)
    BY <1>2, <1>4, <2>1 DEF Begun, Commit, Visible
  <2>2. CASE Touched(r) = {}
    BY <2>2 DEF Touched, Commit, Visible
  <2> QED  BY <1>2, <1>5, <2>1, <2>2 DEF Begun
<1>7. schema' \in Schemas /\ ("alembic_version" \in schema => "alembic_version" \in schema')
  <2>1. Full(m) \in Schemas /\ "alembic_version" \in Full(m)
    BY DEF Schemas, Full
  <2> QED  BY <1>1, <1>6, <2>1
<1>8. /\ phase' = [phase EXCEPT ![r] = "idle"] /\ plan' = [plan EXCEPT ![r] = <<>>]
      /\ made' = [made EXCEPT ![r] = {}] /\ gone' = [gone EXCEPT ![r] = {}]
      /\ result' = [result EXCEPT ![r] = "done"] /\ commands' = commands
      /\ overtaken' = [o \in Runners |-> overtaken[o] \/ (o # r /\ schema' # schema)]
  BY DEF Commit, Ends
<1>9. phase'[r] = "idle" /\ made'[r] = {} /\ gone'[r] = {} /\ plan'[r] = <<>>
  BY <1>1, <1>8 DEF TypeOK
<1>10. \A o \in Runners \ {r} : /\ made'[o] = made[o] /\ gone'[o] = gone[o] /\ plan'[o] = plan[o]
                                /\ phase'[o] = phase[o]
                                /\ overtaken'[o] = (overtaken[o] \/ schema' # schema)
  BY <1>1, <1>8 DEF TypeOK
<1>11. TypeOK'
  <2>1. plan' \in [Runners -> Seq(Statements)] /\ phase' \in [Runners -> {"idle", "running"}]
    <3>1. <<>> \in Seq(Statements)
      OBVIOUS
    <3> QED  BY <1>1, <1>8, <3>1, SameNames DEF TypeOK
  <2>2. made' \in [Runners -> SUBSET Names] /\ gone' \in [Runners -> SUBSET Names]
    BY <1>1, <1>8 DEF TypeOK
  <2>3. result' \in [Runners -> {"none", "done", "refused", "lost"}]
    BY <1>1, <1>8 DEF TypeOK
  <2>4. \A o \in Runners : phase'[o] = "idle" => plan'[o] = <<>> /\ made'[o] \cup gone'[o] = {}
    BY <1>1, <1>9, <1>10 DEF TypeOK
  <2>5. commands' \in 0 .. MaxCommands /\ schema' \subseteq Names
    BY <1>1, <1>7, <1>8, FourSchemas DEF TypeOK
  <2>6. overtaken' \in [Runners -> BOOLEAN]
    BY <1>8
  <2> QED  BY <2>1, <2>2, <2>3, <2>4, <2>5, <2>6, SameNames DEF TypeOK
<1>12. Exclusive'
  <2> SUFFICES ASSUME NEW a \in Runners, NEW o \in Runners \ {a}
               PROVE  Touched(a)' \cap Touched(o)' \subseteq {"deptype"}
    BY DEF Exclusive
  <2>1. Touched(a) \cap Touched(o) \subseteq {"deptype"}
    BY DEF Strong, Consistent, Exclusive
  <2>2. Touched(a)' \subseteq Touched(a) /\ Touched(o)' \subseteq Touched(o)
    BY <1>9, <1>10 DEF Touched
  <2> QED  BY <2>1, <2>2
<1>13. ASSUME NEW o \in Runners, phase'[o] = "running" PROVE \E T \in Schemas : Begun(o, T)'
  <2>1. o # r
    BY <1>9, <1>13
  <2>2. PICK T \in Schemas : Begun(o, T)
    BY <1>10, <1>13, <2>1 DEF Strong, Consistent
  <2>3. made'[o] = made[o] /\ gone'[o] = gone[o] /\ plan'[o] = plan[o]
    BY <1>10, <2>1
  <2>4. ASSUME Claim(T) \in Touched(o)' \/ ~ overtaken'[o] PROVE schema' = T
    <3>1. CASE schema' = schema
      <4>1. Claim(T) \in Touched(o) \/ ~ overtaken[o]
        BY <1>10, <2>1, <2>3, <2>4 DEF Touched
      <4> QED  BY <2>2, <3>1, <4>1 DEF Begun
    <3>2. CASE schema' # schema
      <4>1. schema = S /\ Claim(S) \in Touched(r)
        BY <1>6, <3>2
      <4>2. overtaken'[o]
        BY <1>10, <2>1, <3>2
      <4>3. Claim(T) \in Touched(o)
        BY <2>3, <2>4, <4>2 DEF Touched
      <4>4. schema = T
        BY <2>2, <4>3 DEF Begun
      <4>5. Touched(r) \cap Touched(o) \subseteq {"deptype"} /\ Claim(S) # "deptype"
        BY <2>1, Claims DEF Strong, Consistent, Exclusive
      <4> QED  BY <4>1, <4>3, <4>4, <4>5
    <3> QED  BY <3>1, <3>2
  <2>5. Begun(o, T)'
    BY <1>7, <2>2, <2>3, <2>4 DEF Begun, Touched
  <2> QED  BY <2>5
<1> QED  BY <1>7, <1>11, <1>12, <1>13 DEF Strong, Consistent

LEMMA NextStrong == Strong /\ [Next]_vars => Strong'
<1> SUFFICES ASSUME Strong, [Next]_vars PROVE Strong'
  OBVIOUS
<1>1. ASSUME NEW r \in Runners, NEW target \in 0 .. Newest, Start(r, target) PROVE Strong'
  BY <1>1, StartStrong
<1>2. ASSUME NEW r \in Runners, Execute(r) PROVE Strong'
  BY <1>2, ExecuteStrong
<1>3. ASSUME NEW r \in Runners, Refuse(r) PROVE Strong'
  BY <1>3, EndsStrong DEF Refuse
<1>4. ASSUME NEW r \in Runners, Commit(r) PROVE Strong'
  BY <1>4, CommitStrong
<1>5. ASSUME NEW r \in Runners, Crash(r) PROVE Strong'
  BY <1>5, EndsStrong DEF Crash, Undone
<1>6. ASSUME UNCHANGED vars PROVE Strong'
  BY <1>6 DEF vars, Strong, Consistent, TypeOK, Exclusive, Touched, Begun
<1>7. CASE Idle
  BY <1>6, <1>7 DEF Idle
<1> QED  BY <1>1, <1>2, <1>3, <1>4, <1>5, <1>6, <1>7 DEF Next

LEMMA AlwaysStrong == Spec => []Strong
  BY InitStrong, NextStrong, PTL DEF Spec

-----------------------------------------------------------------------------
(* Each variable has its type, and an idle runner holds no lock.           *)
THEOREM TypesHold == Spec => []TypeOK
<1>1. Strong => TypeOK
  BY DEF Strong
<1> QED  BY <1>1, AlwaysStrong, PTL

(* Whoever migrates at the same time, and wherever a migration is refused  *)
(* or lost, what is committed is the schema of the one revision that       *)
(* alembic_version names (env.py:41-44).                                   *)
THEOREM CommittedIsOneRevision == Spec => []SchemaMatchesRevision
<1>1. ASSUME Strong PROVE SchemaMatchesRevision
  <2>1. "0001_initial" \notin InitialNames /\ "0002_dedup_inbox" \notin InitialNames
        /\ "alembic_version" \notin InitialNames
    BY Fulls DEF Apart
  <2>2. 0 \in 0 .. Newest /\ 1 \in 0 .. Newest /\ 2 \in 0 .. Newest
    BY AllNames
  <2>3. SchemaMatchesRevision <=>
               \E k \in 0 .. Newest : /\ schema \cap {"0001_initial", "0002_dedup_inbox"} = RowOf(k)
                                      /\ schema \ (RowOf(k) \cup {"alembic_version"}) = TablesAt(k)
    BY AllNames DEF SchemaMatchesRevision, Rows
  <2>4. CASE schema = {} \/ schema = Full(0)
    <3>1. schema \cap {"0001_initial", "0002_dedup_inbox"} = RowOf(0)
          /\ schema \ (RowOf(0) \cup {"alembic_version"}) = TablesAt(0)
      BY <2>4, AllNames, Fulls
    <3> QED  BY <2>2, <2>3, <3>1
  <2>5. CASE schema = Full(1)
    <3>1. schema \cap {"0001_initial", "0002_dedup_inbox"} = RowOf(1)
          /\ schema \ (RowOf(1) \cup {"alembic_version"}) = TablesAt(1)
      BY <2>1, <2>5, AllNames, Fulls
    <3> QED  BY <2>2, <2>3, <3>1
  <2>6. CASE schema = Full(2)
    <3>1. schema \cap {"0001_initial", "0002_dedup_inbox"} = RowOf(2)
          /\ schema \ (RowOf(2) \cup {"alembic_version"}) = TablesAt(2)
      BY <2>1, <2>6, AllNames, Fulls
    <3> QED  BY <2>2, <2>3, <3>1
  <2> QED  BY <1>1, <2>4, <2>5, <2>6, FourSchemas DEF Strong, Consistent
<1> QED  BY <1>1, AlwaysStrong, PTL

(* A migration is refused only when another one was committed after it had *)
(* read the revision.                                                      *)
THEOREM OnlyTheOvertakenAreRefused == Spec => RefusedOnlyIfOvertaken
<1>1. ASSUME Strong, NEW r \in Runners, Refuse(r) PROVE overtaken[r]
  <2>1. phase[r] = "running" /\ plan[r] # <<>> /\ ~ Succeeds(r, plan[r][1])
    BY <1>1 DEF Refuse
  <2>2. PICK S \in Schemas : Begun(r, S)
    BY <1>1, <2>1 DEF Strong, Consistent
  <2>3. PICK m \in 0 .. Newest : Script(plan[r], (S \ gone[r]) \cup made[r], Full(m))
    BY <2>2 DEF Begun
  <2>4. schema # S
    BY <2>1, <2>3, OnTrackSucceeds
  <2> QED  BY <2>2, <2>4 DEF Begun
<1>2. Strong /\ [Next]_vars => [\A r \in Runners : Refuse(r) => overtaken[r]]_vars
  BY <1>1
<1> QED  BY <1>2, AlwaysStrong, PTL DEF Spec, RefusedOnlyIfOvertaken

-----------------------------------------------------------------------------
(* The tables at head                                                      *)

IsTable(m) == m = Table(m.name, m.keys, m.required, m.optional, m.unique, m.indexes)

(* m is what the migrations make of the model t.                           *)
Migrated(t, m) ==
  /\ IsTable(m)
  /\ m.name = t.name /\ m.keys = t.keys /\ m.unique = t.unique /\ m.indexes = t.indexes
  /\ m.required = t.required \ Timestamps
  /\ m.optional = t.optional \cup (t.required \cap Timestamps)

LEMMA MigratedIs ==
  ASSUME NEW t, NEW m, Migrated(t, m)
  PROVE  AsMigrated(t) = m
  BY DEF Migrated, IsTable, AsMigrated

LEMMA Fields ==
  ASSUME NEW n, NEW k, NEW r, NEW o, NEW u, NEW x
  PROVE  LET m == Table(n, k, r, o, u, x)
         IN  /\ IsTable(m) /\ m.name = n /\ m.keys = k /\ m.required = r /\ m.optional = o
             /\ m.unique = u /\ m.indexes = x
  BY DEF Table, IsTable

LEMMA SameKeys == tenant_fk = TenantFk
  BY DEF tenant_fk, TenantFk

LEMMA TenancyMigrated == \A i \in 1 .. 5 : Migrated(TenancyModels[i], Tenancy[i])
<1>1. \A i \in 1 .. 5 : i \in {1, 2, 3, 4, 5}
  OBVIOUS
<1>2. \A i \in {1, 2, 3, 4, 5} : IsTable(Tenancy[i]) /\ Tenancy[i].name = TenancyModels[i].name
  BY Fields DEF Tenancy, TenancyModels
<1>3. \A i \in {1, 2, 3, 4, 5} : Tenancy[i].keys = TenancyModels[i].keys
  BY Fields, SameKeys DEF Tenancy, TenancyModels
<1>4. \A i \in {1, 2, 3, 4, 5} :
         Tenancy[i].unique = TenancyModels[i].unique /\ Tenancy[i].indexes = TenancyModels[i].indexes
  BY Fields DEF Tenancy, TenancyModels
<1>5. \A i \in {1, 2, 3, 4, 5} : Tenancy[i].required = TenancyModels[i].required \ Timestamps
  BY Fields DEF Tenancy, TenancyModels, Timestamps
<1>6. \A i \in {1, 2, 3, 4, 5} :
         Tenancy[i].optional = TenancyModels[i].optional \cup (TenancyModels[i].required \cap Timestamps)
  BY Fields DEF Tenancy, TenancyModels, Timestamps
<1> QED  BY <1>1, <1>2, <1>3, <1>4, <1>5, <1>6 DEF Migrated

LEMMA WorkHierarchyMigrated == \A i \in 1 .. 5 : Migrated(WorkHierarchyModels[i], WorkSpine[i])
<1>1. \A i \in 1 .. 5 : i \in {1, 2, 3, 4, 5}
  OBVIOUS
<1>2. \A i \in {1, 2, 3, 4, 5} : IsTable(WorkSpine[i]) /\ WorkSpine[i].name = WorkHierarchyModels[i].name
  BY Fields DEF WorkSpine, WorkHierarchyModels
<1>3. \A i \in {1, 2, 3, 4, 5} : WorkSpine[i].keys = WorkHierarchyModels[i].keys
  BY Fields, SameKeys DEF WorkSpine, WorkHierarchyModels
<1>4. \A i \in {1, 2, 3, 4, 5} :
         WorkSpine[i].unique = WorkHierarchyModels[i].unique /\ WorkSpine[i].indexes = WorkHierarchyModels[i].indexes
  BY Fields DEF WorkSpine, WorkHierarchyModels
<1>5. \A i \in {1, 2, 3, 4, 5} : WorkSpine[i].required = WorkHierarchyModels[i].required \ Timestamps
  BY Fields DEF WorkSpine, WorkHierarchyModels, Timestamps
<1>6. \A i \in {1, 2, 3, 4, 5} :
         WorkSpine[i].optional = WorkHierarchyModels[i].optional \cup (WorkHierarchyModels[i].required \cap Timestamps)
  BY Fields DEF WorkSpine, WorkHierarchyModels, Timestamps
<1> QED  BY <1>1, <1>2, <1>3, <1>4, <1>5, <1>6 DEF Migrated

LEMMA DependencyMigrated == \A i \in 1 .. 2 : Migrated(DependencyModels[i], DependenciesAndAssignment[i])
<1>1. \A i \in 1 .. 2 : i \in {1, 2}
  OBVIOUS
<1>2. \A i \in {1, 2} : IsTable(DependenciesAndAssignment[i]) /\ DependenciesAndAssignment[i].name = DependencyModels[i].name
  BY Fields DEF DependenciesAndAssignment, DependencyModels
<1>3. \A i \in {1, 2} : DependenciesAndAssignment[i].keys = DependencyModels[i].keys
  BY Fields, SameKeys DEF DependenciesAndAssignment, DependencyModels
<1>4. \A i \in {1, 2} :
         DependenciesAndAssignment[i].unique = DependencyModels[i].unique /\ DependenciesAndAssignment[i].indexes = DependencyModels[i].indexes
  BY Fields DEF DependenciesAndAssignment, DependencyModels
<1>5. \A i \in {1, 2} : DependenciesAndAssignment[i].required = DependencyModels[i].required \ Timestamps
  BY Fields DEF DependenciesAndAssignment, DependencyModels, Timestamps
<1>6. \A i \in {1, 2} :
         DependenciesAndAssignment[i].optional = DependencyModels[i].optional \cup (DependencyModels[i].required \cap Timestamps)
  BY Fields DEF DependenciesAndAssignment, DependencyModels, Timestamps
<1> QED  BY <1>1, <1>2, <1>3, <1>4, <1>5, <1>6 DEF Migrated

LEMMA TimeMigrated == \A i \in 1 .. 2 : Migrated(TimeModels[i], Time[i])
<1>1. \A i \in 1 .. 2 : i \in {1, 2}
  OBVIOUS
<1>2. \A i \in {1, 2} : IsTable(Time[i]) /\ Time[i].name = TimeModels[i].name
  BY Fields DEF Time, TimeModels
<1>3. \A i \in {1, 2} : Time[i].keys = TimeModels[i].keys
  BY Fields, SameKeys DEF Time, TimeModels
<1>4. \A i \in {1, 2} :
         Time[i].unique = TimeModels[i].unique /\ Time[i].indexes = TimeModels[i].indexes
  BY Fields DEF Time, TimeModels
<1>5. \A i \in {1, 2} : Time[i].required = TimeModels[i].required \ Timestamps
  BY Fields DEF Time, TimeModels, Timestamps
<1>6. \A i \in {1, 2} :
         Time[i].optional = TimeModels[i].optional \cup (TimeModels[i].required \cap Timestamps)
  BY Fields DEF Time, TimeModels, Timestamps
<1> QED  BY <1>1, <1>2, <1>3, <1>4, <1>5, <1>6 DEF Migrated

LEMMA InfraMigrated ==
  Migrated(InfraModels[1], Outbox[1]) /\ Migrated(InfraModels[2], DedupInbox)
<1>1. /\ IsTable(Outbox[1]) /\ Outbox[1].name = InfraModels[1].name
      /\ IsTable(DedupInbox) /\ DedupInbox.name = InfraModels[2].name
  BY Fields DEF Outbox, DedupInbox, InfraModels
<1>2. Outbox[1].keys = InfraModels[1].keys /\ DedupInbox.keys = InfraModels[2].keys
  BY Fields, SameKeys DEF Outbox, DedupInbox, InfraModels
<1>3. /\ Outbox[1].unique = InfraModels[1].unique /\ Outbox[1].indexes = InfraModels[1].indexes
      /\ DedupInbox.unique = InfraModels[2].unique /\ DedupInbox.indexes = InfraModels[2].indexes
  BY Fields DEF Outbox, DedupInbox, InfraModels
<1>4. /\ Outbox[1].required = InfraModels[1].required \ Timestamps
      /\ DedupInbox.required = InfraModels[2].required \ Timestamps
  BY Fields DEF Outbox, DedupInbox, InfraModels, Timestamps
<1>5. /\ Outbox[1].optional = InfraModels[1].optional \cup (InfraModels[1].required \cap Timestamps)
      /\ DedupInbox.optional = InfraModels[2].optional \cup (InfraModels[2].required \cap Timestamps)
  BY Fields DEF Outbox, DedupInbox, InfraModels, Timestamps
<1> QED  BY <1>1, <1>2, <1>3, <1>4, <1>5 DEF Migrated

LEMMA ModelsMigrated == {AsMigrated(t) : t \in Models} = AllTables
<1>1. /\ DOMAIN TenancyModels = 1 .. 5 /\ DOMAIN WorkHierarchyModels = 1 .. 5
      /\ DOMAIN DependencyModels = 1 .. 2 /\ DOMAIN TimeModels = 1 .. 2
      /\ DOMAIN InfraModels = 1 .. 2
  BY DEF TenancyModels, WorkHierarchyModels, DependencyModels, TimeModels, InfraModels
<1>2. /\ \A i \in 1 .. 5 : AsMigrated(TenancyModels[i]) = InitialTables[i]
      /\ \A i \in 1 .. 5 : AsMigrated(WorkHierarchyModels[i]) = InitialTables[5 + i]
      /\ \A i \in 1 .. 2 : AsMigrated(DependencyModels[i]) = InitialTables[10 + i]
      /\ \A i \in 1 .. 2 : AsMigrated(TimeModels[i]) = InitialTables[12 + i]
      /\ AsMigrated(InfraModels[1]) = InitialTables[15] /\ AsMigrated(InfraModels[2]) = DedupInbox
  <2>1. \A i \in 1 .. 5 : 5 + i \in 6 .. 10 /\ (5 + i) - 5 = i
    OBVIOUS
  <2>2. \A i \in 1 .. 2 : 10 + i \in 11 .. 12 /\ (10 + i) - 10 = i
                          /\ 12 + i \in 13 .. 14 /\ (12 + i) - 12 = i
    OBVIOUS
  <2> QED  BY <2>1, <2>2, InOrder, MigratedIs, TenancyMigrated, WorkHierarchyMigrated,
              DependencyMigrated, TimeMigrated, InfraMigrated
<1>3. AllTables = {InitialTables[i] : i \in 1 .. 15} \cup {DedupInbox}
  BY InOrder DEF AllTables, ToSet
<1>4. ASSUME NEW t \in Models PROVE AsMigrated(t) \in AllTables
  <2>1. CASE t \in ToSet(TenancyModels)
    BY <1>1, <1>2, <1>3, <2>1 DEF ToSet
  <2>2. CASE t \in ToSet(WorkHierarchyModels)
    <3>1. PICK i \in 1 .. 5 : t = WorkHierarchyModels[i]
      BY <1>1, <2>2 DEF ToSet
    <3>2. 5 + i \in 1 .. 15
      OBVIOUS
    <3> QED  BY <1>2, <1>3, <3>1, <3>2
  <2>3. CASE t \in ToSet(DependencyModels)
    <3>1. PICK i \in 1 .. 2 : t = DependencyModels[i]
      BY <1>1, <2>3 DEF ToSet
    <3>2. 10 + i \in 1 .. 15
      OBVIOUS
    <3> QED  BY <1>2, <1>3, <3>1, <3>2
  <2>4. CASE t \in ToSet(TimeModels)
    <3>1. PICK i \in 1 .. 2 : t = TimeModels[i]
      BY <1>1, <2>4 DEF ToSet
    <3>2. 12 + i \in 1 .. 15
      OBVIOUS
    <3> QED  BY <1>2, <1>3, <3>1, <3>2
  <2>5. CASE t \in ToSet(InfraModels)
    <3>1. t = InfraModels[1] \/ t = InfraModels[2]
      <4>1. \A i \in 1 .. 2 : i = 1 \/ i = 2
        OBVIOUS
      <4> QED  BY <1>1, <2>5, <4>1 DEF ToSet
    <3> QED  BY <1>2, <1>3, <3>1
  <2> QED  BY <2>1, <2>2, <2>3, <2>4, <2>5 DEF Models
<1>5. ASSUME NEW m \in AllTables PROVE \E t \in Models : m = AsMigrated(t)
  <2>1. CASE m = DedupInbox
    <3>1. InfraModels[2] \in Models
      BY <1>1 DEF Models, ToSet
    <3> QED  BY <1>2, <2>1, <3>1
  <2>2. CASE m # DedupInbox
    <3>1. PICK i \in 1 .. 15 : m = InitialTables[i]
      BY <1>3, <2>2
    <3>2. CASE i \in 1 .. 5
      <4>1. TenancyModels[i] \in Models
        BY <1>1, <3>2 DEF Models, ToSet
      <4> QED  BY <1>2, <3>1, <3>2, <4>1
    <3>3. CASE i \in 6 .. 10
      <4>1. i - 5 \in 1 .. 5 /\ 5 + (i - 5) = i
        BY <3>3
      <4>2. WorkHierarchyModels[i - 5] \in Models
        BY <1>1, <4>1 DEF Models, ToSet
      <4> QED  BY <1>2, <3>1, <4>1, <4>2
    <3>4. CASE i \in 11 .. 12
      <4>1. i - 10 \in 1 .. 2 /\ 10 + (i - 10) = i
        BY <3>4
      <4>2. DependencyModels[i - 10] \in Models
        BY <1>1, <4>1 DEF Models, ToSet
      <4> QED  BY <1>2, <3>1, <4>1, <4>2
    <3>5. CASE i \in 13 .. 14
      <4>1. i - 12 \in 1 .. 2 /\ 12 + (i - 12) = i
        BY <3>5
      <4>2. TimeModels[i - 12] \in Models
        BY <1>1, <4>1 DEF Models, ToSet
      <4> QED  BY <1>2, <3>1, <4>1, <4>2
    <3>6. CASE i = 15
      <4>1. InfraModels[1] \in Models
        BY <1>1 DEF Models, ToSet
      <4> QED  BY <1>2, <3>1, <3>6, <4>1
    <3> QED  BY <3>2, <3>3, <3>4, <3>5, <3>6
  <2> QED  BY <2>1, <2>2
<1> QED  BY <1>4, <1>5

(* At head the tables are those the services query (models.py:1, 79-351).  *)
THEOREM HeadHasTheModels == Spec => []HeadIsModels
<1>1. ASSUME Strong PROVE HeadIsModels
  <2> SUFFICES ASSUME RowOf(Newest) \subseteq schema
               PROVE  {t \in AllTables : t.name \in schema} = {AsMigrated(t) : t \in Models}
    BY DEF HeadIsModels
  <2>1. schema = Full(2)
    <3>1. "0002_dedup_inbox" \in schema /\ "0002_dedup_inbox" \notin InitialNames
      BY AllNames, Fulls DEF Apart
    <3> QED  BY <1>1, <3>1, FourSchemas, Fulls DEF Strong, Consistent
  <2>2. \A t \in AllTables : t.name \in schema
    <3> SUFFICES ASSUME NEW t \in AllTables PROVE t.name \in schema
      OBVIOUS
    <3>1. CASE t = DedupInbox
      BY <2>1, <3>1, AllNames, Fulls
    <3>2. CASE t # DedupInbox
      <4>1. PICK i \in 1 .. 15 : t = InitialTables[i]
        BY <3>2, InOrder DEF AllTables, ToSet
      <4>2. t.name = Name(i) /\ Name(i) \in InitialNames
        BY <4>1 DEF Name, InitialNames
      <4> QED  BY <2>1, <4>2, Fulls
    <3> QED  BY <3>1, <3>2
  <2> QED  BY <2>2, ModelsMigrated
<1> QED  BY <1>1, AlwaysStrong, PTL
=============================================================================
