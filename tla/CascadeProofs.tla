--------------------------- MODULE CascadeProofs ----------------------------
(***************************************************************************)
(* Proofs about Cascade, for every finite set of tasks, every dependency   *)
(* table and every schedule.                                               *)
(***************************************************************************)
EXTENDS Cascade, CascadeFacts, FiniteSetTheorems

-----------------------------------------------------------------------------
(* Least naturals and greatest members of finite sets of integers: the     *)
(* facts that stand in for induction below.                                *)

(* A relation that contains < on the naturals and is well-founded gives    *)
(* every non-empty set of naturals a least member (used by LeastNat).      *)
LEMMA LeastByRelation ==
  ASSUME NEW S \in SUBSET Nat, S # {},
         NEW R, IsWellFoundedOn(R, Nat),
         \A x, y \in Nat : y < x => <<y, x>> \in R
  PROVE  \E m \in S : \A k \in S : m <= k
<1>1. PICK x \in S : \A y \in S : ~ (<<y, x>> \in R)
  BY WFMin
<1>2. \A y \in S : ~ (y < x)
  BY <1>1
<1> QED
  BY <1>1, <1>2

(* The least-number principle, for a set.                                  *)
LEMMA LeastNat ==
  ASSUME NEW S \in SUBSET Nat, S # {}
  PROVE  \E m \in S : \A k \in S : m <= k
<1>1. IsWellFoundedOn(OpToRel(<, Nat), Nat)
  BY NatLessThanWellFounded
<1>2. \A x, y \in Nat : y < x => <<y, x>> \in OpToRel(<, Nat)
  BY DEF OpToRel
<1> QED
  BY <1>1, <1>2, LeastByRelation, Zenon

(* A non-empty list of integers has a greatest member: the code's          *)
(* max(candidates) exists (cascade.py:134).                                *)
LEMMA GreatestInList ==
  ASSUME NEW n \in Nat, NEW f \in [1 .. n -> Int], n >= 1
  PROVE  \E j \in 1 .. n : \A i \in 1 .. n : f[i] <= f[j]
<1> DEFINE Has(k) == \E j \in 1 .. k : \A i \in 1 .. k : f[i] <= f[j]
           Bad == {k \in 1 .. n : ~ Has(k)}
<1>0. \A k : k \in Bad <=> k \in 1 .. n /\ ~ Has(k)
  OBVIOUS
<1> HIDE DEF Bad
<1>1. SUFFICES ASSUME Bad # {}
               PROVE  FALSE
  <2>1. n \in 1 .. n /\ n \notin Bad
    BY <1>1
  <2> QED
    BY <1>0, <2>1
<1>2. PICK k \in Bad : \A l \in Bad : k <= l
  <2> Bad \in SUBSET Nat
    BY <1>0
  <2> QED
    BY <1>1, LeastNat
<1> k \in 1 .. n /\ ~ Has(k)
  BY <1>0, <1>2
<1>3. CASE k = 1
  <2>1. \A i \in 1 .. 1 : f[i] <= f[1]
    OBVIOUS
  <2> QED
    BY <1>3, <2>1
<1>4. CASE k # 1
  <2>1. k - 1 \in 1 .. n /\ ~ (k <= k - 1)
    BY <1>4
  <2> k - 1 \notin Bad
    BY <1>2, <2>1
  <2>2. PICK j \in 1 .. k - 1 : \A i \in 1 .. k - 1 : f[i] <= f[j]
    BY <1>0, <2>1
  <2>3. \A i \in 1 .. k : i \in 1 .. k - 1 \/ i = k
    OBVIOUS
  <2>4. CASE f[k] <= f[j]
    <3>1. \A i \in 1 .. k : f[i] <= f[j]
      BY <2>2, <2>3, <2>4
    <3>2. j \in 1 .. k
      OBVIOUS
    <3> QED
      BY <3>1, <3>2
  <2>5. CASE f[j] <= f[k]
    <3>1. \A i \in 1 .. k : f[i] <= f[k]
      BY <2>2, <2>3, <2>5
    <3> QED
      BY <3>1
  <2> QED
    BY <2>4, <2>5
<1> QED
  BY <1>3, <1>4

(* A non-empty finite set of integers has a greatest member.               *)
LEMMA GreatestOfFinite ==
  ASSUME NEW S \in SUBSET Int, IsFiniteSet(S), S # {}
  PROVE  \E m \in S : \A k \in S : k <= m
<1>1. Cardinality(S) \in Nat /\ ExistsBijection(1 .. Cardinality(S), S)
  BY FS_CardinalityType
<1> DEFINE n == Cardinality(S)
<1>2. PICK f \in Bijection(1 .. n, S) : TRUE
  BY <1>1 DEF ExistsBijection
<1>3. f \in [1 .. n -> S] /\ \A x \in S : \E i \in 1 .. n : f[i] = x
  BY <1>2 DEF Bijection, Injection, Surjection, IsInjective
<1>4. n >= 1
  <2>1. PICK i \in 1 .. n : TRUE
    BY <1>3
  <2> QED
    BY <1>1, <2>1
<1>5. f \in [1 .. n -> Int]
  BY <1>3
<1> HIDE DEF n
<1>6. PICK j \in 1 .. n : \A i \in 1 .. n : f[i] <= f[j]
  BY <1>1, <1>4, <1>5, GreatestInList DEF n
<1> QED
  BY <1>3, <1>6

-----------------------------------------------------------------------------

IInv == TypeOK /\ LoopInvariant

(* What the assumptions say of the table and the dates of a call.          *)
LEMMA InputTypes ==
  ASSUME TypeOK
  PROVE  /\ Edges \subseteq Tasks \X Tasks
         /\ \A e \in Edges : deps[e].type \in DepType /\ deps[e].lag \in Int
         /\ \A t \in Tasks : given[t].start \in Int /\ given[t].finish \in Int
         /\ \A t \in Tasks : node[t].start \in Int /\ node[t].finish \in Int
<1>1. deps \in Graphs /\ given \in [Tasks -> TaskNode] /\ node \in [Tasks -> TaskNode]
  BY SchedulesAssumption DEF TypeOK
<1>2. Edges \subseteq Tasks \X Tasks /\ deps \in [Edges -> DepEdge]
  BY <1>1, GraphsAssumption DEF Edges
<1> QED
  BY <1>1, <1>2 DEF DepEdge, TaskNode

(* The successors and predecessors of a task are tasks.                    *)
LEMMA Neighbours ==
  ASSUME NEW E, NEW t
  PROVE  Preds(E, t) \subseteq Tasks /\ Succs(E, t) \subseteq Tasks
BY DEF Preds, Succs

-----------------------------------------------------------------------------
(* The invariant holds when a call starts.                                 *)
LEMMA InitIInv == Init => IInv
<1> SUFFICES ASSUME Init
             PROVE  IInv
  OBVIOUS
<1>1. TypeOK
  BY SchedulesAssumption DEF Init, TypeOK, Ranked
<1>2. CollectInv
  BY DEF Init, CollectInv
<1>3. CountInv
  BY DEF Init, CountInv, Ranked
<1>4. OrderInv
  BY DEF Init, OrderInv, Placed
<1>5. DatesInv
  BY DEF Init, DatesInv, SettledStayTight
<1>6. ChangesInv
  BY DEF Init, ChangesInv
<1> QED
  BY <1>1, <1>2, <1>3, <1>4, <1>5, <1>6 DEF IInv, LoopInvariant

(* While tasks are collected nothing else has happened yet.                *)
LEMMA CollectStep ==
  ASSUME IInv, Collect
  PROVE  IInv'
<1> USE DEF IInv, LoopInvariant
<1>1. PICK cur \in stack :
        /\ affected' = affected \cup (Succs(Edges, cur) \ affected)
        /\ stack' = (stack \ {cur}) \cup (Succs(Edges, cur) \ affected)
  BY DEF Collect
<1>2. /\ pc = "collect" /\ cur \in Tasks /\ root \in Tasks
      /\ UNCHANGED <<root, deps, given, node, pc, indegree, queue, topo, settled, changes>>
  BY DEF Collect, call, TypeOK
<1>3. Edges' = Edges
  BY <1>2 DEF Edges
<1>4. TypeOK'
  <2>1. affected' \subseteq Tasks /\ stack' \subseteq Tasks
    BY <1>1, Neighbours DEF TypeOK
  <2>2. topo = <<>> /\ queue = {}
    BY <1>2 DEF OrderInv
  <2>3. topo \in Seq(affected')
    BY <2>2
  <2> QED
    BY <1>2, <2>1, <2>2, <2>3 DEF TypeOK, Ranked
<1>5. CollectInv'
  <2>1. affected' \subseteq Downstream(Edges, root)
    <3>1. cur \in Downstream(Edges, root) \cup {root}
      BY <1>1 DEF CollectInv
    <3> QED
      BY <1>1, <1>2, <3>1, DownstreamClosed DEF CollectInv
  <2>2. \A p \in (affected' \cup {root}) \ stack' : Succs(Edges, p) \subseteq affected'
    BY <1>1, <1>2 DEF CollectInv
  <2>3. stack' \subseteq affected' \cup {root}
    BY <1>1 DEF CollectInv
  <2> QED
    BY <1>2, <1>3, <2>1, <2>2, <2>3 DEF CollectInv
<1>6. CountInv'
  BY <1>2 DEF CountInv, Ranked
<1>7. OrderInv'
  BY <1>2, <1>3 DEF OrderInv, Placed
<1>8. DatesInv'
  BY <1>2, <1>3 DEF DatesInv, SettledStayTight
<1>9. ChangesInv'
  BY <1>2 DEF ChangesInv
<1> QED
  BY <1>4, <1>5, <1>6, <1>7, <1>8, <1>9

(* Counting the predecessors of the collected tasks seeds the queue with   *)
(* those that have none; the collected tasks are then all that is          *)
(* downstream.                                                             *)
LEMMA CountStep ==
  ASSUME IInv, CountPredecessors
  PROVE  IInv'
<1> USE DEF IInv, LoopInvariant
<1> DEFINE count == [t \in affected |-> InDegree(t)]
<1>1. /\ pc = "collect" /\ stack = {} /\ pc' = "order"
      /\ indegree' = count
      /\ queue' = {t \in affected : count[t] = 0}
      /\ UNCHANGED <<root, deps, given, node, stack, affected, topo, settled, changes>>
  BY DEF CountPredecessors, call
<1>2. Edges' = Edges /\ topo = <<>> /\ Placed = {} /\ Placed' = {} /\ settled = 0
  BY <1>1 DEF Edges, OrderInv, Placed, DatesInv
<1>3. \A t \in affected : InDegree(t) \in Nat
  <2>1. TAKE t \in affected
  <2>2. IsFiniteSet(Preds(Edges, t) \cap affected)
    <3>1. Preds(Edges, t) \cap affected \in SUBSET Tasks
      BY DEF TypeOK
    <3> QED
      BY <3>1, FS_Subset, TasksAssumption
  <2> QED
    BY <2>2, FS_CardinalityType DEF InDegree
<1>4. TypeOK'
  <2>1. indegree' \in [affected' -> Nat]
    BY <1>1, <1>3
  <2>2. queue' \subseteq affected'
    BY <1>1
  <2> QED
    BY <1>1, <2>1, <2>2 DEF TypeOK
<1>5. CollectInv'
  <2>1. Succs(Edges, root) \subseteq affected /\ Closed(Edges, affected)
    BY <1>1 DEF CollectInv, Closed
  <2>2. Downstream(Edges, root) \subseteq affected
    BY <2>1, DownstreamLeast DEF TypeOK
  <2> QED
    BY <1>1, <1>2, <2>2 DEF CollectInv
<1>6. CountInv'
  <2> SUFFICES ASSUME NEW t \in affected
               PROVE  /\ indegree'[t] = Cardinality((Preds(Edges, t) \cap affected) \ {})
                      /\ indegree'[t] = 0 <=> t \in queue' \cup {}
    BY <1>1, <1>2 DEF CountInv
  <2>1. (Preds(Edges, t) \cap affected) \ {} = Preds(Edges, t) \cap affected
    OBVIOUS
  <2>2. indegree'[t] = Cardinality(Preds(Edges, t) \cap affected)
    BY <1>1 DEF InDegree
  <2>3. t \in queue' <=> count[t] = 0
    BY <1>1
  <2> QED
    BY <1>1, <2>1, <2>2, <2>3
<1>7. OrderInv'
  BY <1>1, <1>2 DEF OrderInv
<1>8. DatesInv'
  BY <1>1, <1>2 DEF DatesInv, SettledStayTight
<1>9. ChangesInv'
  BY <1>1 DEF ChangesInv
<1> QED
  BY <1>4, <1>5, <1>6, <1>7, <1>8, <1>9

(* Appending x to a sequence adds x to its members.                        *)
LEMMA AppendFacts ==
  ASSUME NEW S, NEW q \in Seq(S), NEW x \in S
  PROVE  /\ Append(q, x) \in Seq(S)
         /\ Len(q) \in Nat
         /\ DOMAIN q = 1 .. Len(q)
         /\ DOMAIN Append(q, x) = 1 .. Len(q) + 1
         /\ \A i \in 1 .. Len(q) : Append(q, x)[i] = q[i]
         /\ Append(q, x)[Len(q) + 1] = x
         /\ Len(Append(q, x)) = Len(q) + 1
OBVIOUS

(* Placing a queued task keeps the counts exact: the task's successors     *)
(* lose the one predecessor that was just placed.                          *)
LEMMA OrderStep ==
  ASSUME IInv, Order
  PROVE  IInv'
<1> USE DEF IInv, LoopInvariant
<1>1. PICK t \in queue :
        /\ topo' = Append(topo, t)
        /\ indegree' = [s \in affected |-> IF s \in Succs(Edges, t) \cap affected
                                          THEN indegree[s] - 1 ELSE indegree[s]]
        /\ queue' = (queue \ {t}) \cup {s \in Succs(Edges, t) \cap affected : indegree[s] = 1}
  BY DEF Order
<1> DEFINE next == Succs(Edges, t) \cap affected
           left(s) == (Preds(Edges, s) \cap affected) \ Placed
<1>2. /\ pc = "order"
      /\ UNCHANGED <<root, deps, given, node, pc, stack, affected, settled, changes>>
  BY DEF Order, call
<1>3. /\ Edges' = Edges /\ settled = 0
      /\ t \in affected /\ t \in Tasks /\ t \notin Placed
      /\ affected \subseteq Tasks /\ topo \in Seq(affected)
      /\ indegree \in [affected -> Nat]
  BY <1>1, <1>2 DEF Edges, TypeOK, OrderInv, DatesInv, Ranked
<1>4. Placed' = Placed \cup {t}
  <2>1. DOMAIN topo = 1 .. Len(topo) /\ DOMAIN topo' = 1 .. Len(topo) + 1
        /\ Len(topo) \in Nat /\ topo'[Len(topo) + 1] = t
        /\ \A i \in 1 .. Len(topo) : topo'[i] = topo[i]
    BY <1>1, <1>3, AppendFacts
  <2>2. \A i \in DOMAIN topo' : topo'[i] \in Placed \cup {t}
    BY <2>1 DEF Placed
  <2>3. \A x \in Placed \cup {t} : \E i \in DOMAIN topo' : topo'[i] = x
    BY <2>1 DEF Placed
  <2> QED
    BY <2>2, <2>3 DEF Placed
<1>5. \A s \in affected : IsFiniteSet(left(s)) /\ (Cardinality(left(s)) = 0 <=> left(s) = {})
  <2>1. \A s \in affected : left(s) \in SUBSET Tasks
    BY <1>3
  <2>2. \A s \in affected : IsFiniteSet(left(s))
    BY <2>1, FS_Subset, TasksAssumption
  <2> QED
    BY <2>2, FS_EmptySet
<1>6. \A s \in affected : indegree[s] = Cardinality(left(s))
                        /\ (indegree[s] = 0 <=> s \in queue \cup Placed)
  BY <1>2 DEF CountInv, Ranked
<1>7. left(t) = {} /\ t \notin next
  <2>1. left(t) = {}
    BY <1>1, <1>3, <1>5, <1>6
  <2>2. t \notin next
    BY <2>1, <1>3 DEF Preds, Succs
  <2> QED
    BY <2>1, <2>2
<1>8. \A s \in affected :
        Cardinality((Preds(Edges, s) \cap affected) \ Placed')
          = IF s \in next THEN indegree[s] - 1 ELSE indegree[s]
  <2> TAKE s \in affected
  <2>1. (Preds(Edges, s) \cap affected) \ Placed' = left(s) \ {t}
    BY <1>4
  <2>2. t \in left(s) <=> s \in next
    BY <1>3 DEF Preds, Succs
  <2>3. Cardinality(left(s) \ {t}) = IF t \in left(s) THEN Cardinality(left(s)) - 1
                                                      ELSE Cardinality(left(s))
    BY <1>5, FS_RemoveElement
  <2> QED
    BY <1>6, <2>1, <2>2, <2>3
<1>9. \A s \in next : indegree[s] # 0 /\ s \notin queue \cup Placed
  <2> TAKE s \in next
  <2>1. t \in left(s)
    BY <1>3 DEF Preds, Succs
  <2> QED
    BY <2>1, <1>5, <1>6
<1>10. \A s \in affected : indegree'[s] = IF s \in next THEN indegree[s] - 1 ELSE indegree[s]
  BY <1>1
<1>11. queue' = (queue \ {t}) \cup {s \in next : indegree[s] = 1}
  BY <1>1
<1> HIDE DEF left, next
<1>12. TypeOK'
  <2>1. indegree' \in [affected -> Nat]
    <3>1. \A s \in affected : indegree'[s] \in Nat
      BY <1>3, <1>9, <1>10
    <3> QED
      BY <1>1, <3>1
  <2>2. queue' \subseteq affected
    BY <1>11 DEF TypeOK, next
  <2>3. topo' \in Seq(affected) /\ Len(topo') \in Nat
    BY <1>1, <1>3, AppendFacts
  <2> QED
    BY <1>2, <1>3, <2>1, <2>2, <2>3 DEF TypeOK, Ranked
<1>13. CollectInv'
  BY <1>2, <1>3 DEF CollectInv
<1>14. CountInv'
  <2> SUFFICES ASSUME NEW s \in affected
               PROVE  /\ indegree'[s] = Cardinality((Preds(Edges, s) \cap affected) \ Placed')
                      /\ indegree'[s] = 0 <=> s \in queue' \cup Placed'
    BY <1>2, <1>3 DEF CountInv
  <2>1. CASE s \in next
    <3>1. indegree'[s] = 0 <=> s \in queue'
      BY <1>3, <1>9, <1>10, <1>11, <2>1
    <3>2. s \notin Placed'
      BY <1>4, <1>7, <1>9, <2>1
    <3> QED
      BY <1>8, <1>10, <3>1, <3>2
  <2>2. CASE s \notin next
    <3>1. s \in queue' <=> s \in queue \ {t}
      BY <1>11, <2>2
    <3> QED
      BY <1>1, <1>4, <1>6, <1>8, <1>10, <2>2, <3>1
  <2> QED
    BY <2>1, <2>2
<1>15. OrderInv'
  <2>1. queue' \cap Placed' = {}
    BY <1>4, <1>7, <1>9, <1>11 DEF OrderInv
  <2>2. DOMAIN topo = 1 .. Len(topo) /\ DOMAIN topo' = 1 .. Len(topo) + 1
        /\ Len(topo) \in Nat /\ topo'[Len(topo) + 1] = t
        /\ \A i \in 1 .. Len(topo) : topo'[i] = topo[i]
    BY <1>1, <1>3, AppendFacts
  <2>3. \A i \in DOMAIN topo : topo[i] # t
    BY <1>3 DEF Placed
  <2>4. \A i, j \in DOMAIN topo' : topo'[i] = topo'[j] => i = j
    BY <2>2, <2>3 DEF OrderInv
  <2>5. \A i \in DOMAIN topo' : \A p \in Preds(Edges, topo'[i]) \cap affected :
          \E j \in 1 .. i - 1 : topo'[j] = p
    <3> SUFFICES ASSUME NEW i \in DOMAIN topo', NEW p \in Preds(Edges, topo'[i]) \cap affected
                 PROVE  \E j \in 1 .. i - 1 : topo'[j] = p
      OBVIOUS
    <3>1. CASE i = Len(topo) + 1
      <4>1. p \in Placed
        BY <1>7, <2>2, <3>1 DEF left
      <4>2. PICK j \in 1 .. Len(topo) : topo[j] = p
        BY <2>2, <4>1 DEF Placed
      <4> QED
        BY <2>2, <3>1, <4>2
    <3>2. CASE i \in 1 .. Len(topo)
      <4>1. PICK j \in 1 .. i - 1 : topo[j] = p
        BY <2>2, <3>2 DEF OrderInv
      <4> QED
        BY <2>2, <3>2, <4>1
    <3> QED
      BY <2>2, <3>1, <3>2
  <2> QED
    BY <1>2, <1>3, <2>1, <2>4, <2>5 DEF OrderInv
<1>16. DatesInv'
  BY <1>2, <1>3 DEF DatesInv, SettledStayTight
<1>17. ChangesInv'
  BY <1>2, <1>3 DEF ChangesInv
<1> QED
  BY <1>12, <1>13, <1>14, <1>15, <1>16, <1>17

(* The number of tasks placed is the length of topo.                       *)
LEMMA PlacedCount ==
  ASSUME IInv
  PROVE  /\ IsFiniteSet(affected)
         /\ Placed \subseteq affected
         /\ Cardinality(Placed) = Len(topo)
<1> USE DEF IInv, LoopInvariant
<1>1. IsFiniteSet(affected)
  <2>1. affected \in SUBSET Tasks
    BY DEF TypeOK
  <2> QED
    BY <2>1, FS_Subset, TasksAssumption
<1>2. topo \in Seq(affected) /\ Len(topo) \in Nat /\ DOMAIN topo = 1 .. Len(topo)
  BY DEF TypeOK
<1>3. Placed \subseteq affected
  BY <1>2 DEF Placed
<1>4. topo \in Bijection(1 .. Len(topo), Placed)
  <2>1. topo \in [1 .. Len(topo) -> Placed]
    BY <1>2 DEF Placed
  <2>2. \A i, j \in 1 .. Len(topo) : topo[i] = topo[j] => i = j
    BY <1>2 DEF OrderInv
  <2>3. \A x \in Placed : \E i \in 1 .. Len(topo) : topo[i] = x
    BY <1>2 DEF Placed
  <2> QED
    BY <2>1, <2>2, <2>3 DEF Bijection, Injection, Surjection, IsInjective
<1>5. IsFiniteSet(1 .. Len(topo)) /\ Cardinality(1 .. Len(topo)) = Len(topo)
  BY <1>2, FS_Interval
<1>6. Cardinality(Placed) = Cardinality(1 .. Len(topo))
  BY <1>4, <1>5, FS_Bijection DEF ExistsBijection
<1> QED
  BY <1>1, <1>3, <1>5, <1>6

(* Ending the ordering, with a cycle or without one, changes nothing but   *)
(* the phase; the length test tells the two apart.                         *)
LEMMA EndOrderStep ==
  ASSUME IInv, RaiseCycle \/ Ordered
  PROVE  IInv'
<1> USE DEF IInv, LoopInvariant
<1>1. /\ pc = "order" /\ queue = {} /\ pc' \in {"raised", "recompute"}
      /\ UNCHANGED <<root, deps, given, node, stack, affected, indegree, queue,
                     topo, settled, changes>>
  BY DEF RaiseCycle, Ordered, call
<1>2. Edges' = Edges /\ Placed' = Placed /\ settled = 0
  BY <1>1 DEF Edges, Placed, DatesInv
<1>3. pc' = "recompute" => Placed = affected
  <2> SUFFICES ASSUME Ordered
               PROVE  Placed = affected
    BY DEF RaiseCycle
  <2> QED
    BY PlacedCount, FS_Subset DEF Ordered
<1>4. pc' = "raised" => Placed # affected
  BY PlacedCount DEF RaiseCycle, Ordered
<1>5. TypeOK' /\ CollectInv' /\ CountInv'
  BY <1>1, <1>2 DEF TypeOK, Ranked, CollectInv, CountInv
<1>6. OrderInv'
  BY <1>1, <1>2, <1>3, <1>4 DEF OrderInv
<1>7. DatesInv' /\ ChangesInv'
  BY <1>1, <1>2 DEF DatesInv, SettledStayTight, ChangesInv
<1> QED
  BY <1>5, <1>6, <1>7

(* The return changes nothing but the phase.                               *)
LEMMA ReturnStep ==
  ASSUME IInv, Return
  PROVE  IInv'
<1> USE DEF IInv, LoopInvariant
<1>1. /\ pc = "recompute" /\ pc' = "returned" /\ settled = Len(topo)
      /\ UNCHANGED <<root, deps, given, node, stack, affected, indegree, queue,
                     topo, settled, changes>>
  BY DEF Return, call
<1>2. Edges' = Edges /\ Placed' = Placed
  BY <1>1 DEF Edges, Placed
<1>3. TypeOK' /\ CollectInv' /\ CountInv'
  BY <1>1, <1>2 DEF TypeOK, Ranked, CollectInv, CountInv
<1>4. OrderInv'
  BY <1>1, <1>2 DEF OrderInv
<1>5. DatesInv' /\ ChangesInv'
  BY <1>1, <1>2 DEF DatesInv, SettledStayTight, ChangesInv
<1> QED
  BY <1>3, <1>4, <1>5

-----------------------------------------------------------------------------
(* The slack of a dependency is the room between the successor's start and *)
(* the start the code computes from that dependency.                       *)
LEMMA SlackIsRoom ==
  ASSUME TypeOK, NEW n \in [Tasks -> TaskNode], NEW t \in Tasks, NEW p \in Preds(Edges, t)
  PROVE  /\ Candidate(n, p, t) \in Int
         /\ Slack(deps, n, p, t) = n[t].start - Candidate(n, p, t)
<1>1. <<p, t>> \in Edges /\ p \in Tasks
  BY DEF Preds
<1> DEFINE d == deps[<<p, t>>]
<1>2. d.type \in DepType /\ d.lag \in Int
  BY <1>1, InputTypes
<1>3. n[p].start \in Int /\ n[p].finish \in Int /\ n[t].start \in Int /\ n[t].finish \in Int
  BY <1>1 DEF TaskNode
<1> HIDE DEF d
<1>4. CASE d.type = "FS"
  BY <1>2, <1>3, <1>4 DEF Candidate, Slack, duration, d
<1>5. CASE d.type = "SS"
  BY <1>2, <1>3, <1>5 DEF Candidate, Slack, duration, d
<1>6. CASE d.type = "FF"
  BY <1>2, <1>3, <1>6 DEF Candidate, Slack, duration, d
<1>7. CASE d.type = "SF"
  BY <1>2, <1>3, <1>7 DEF Candidate, Slack, duration, d
<1> QED
  BY <1>2, <1>4, <1>5, <1>6, <1>7 DEF DepType

(* The code's max exists for every task it recomputes.                     *)
LEMMA EarliestStartExists ==
  ASSUME IInv, NEW t \in Tasks, Preds(Edges, t) # {}
  PROVE  \E m \in Candidates(node, t) : EarliestStart(node, t, m)
<1> USE DEF IInv
<1>1. node \in [Tasks -> TaskNode]
  BY DEF TypeOK
<1>2. Candidates(node, t) \in SUBSET Int
  BY <1>1, SlackIsRoom DEF Candidates
<1>3. IsFiniteSet(Candidates(node, t))
  <2>1. Preds(Edges, t) \in SUBSET Tasks
    BY Neighbours
  <2>2. IsFiniteSet(Preds(Edges, t))
    BY <2>1, FS_Subset, TasksAssumption
  <2> DEFINE f == [p \in Preds(Edges, t) |-> Candidate(node, p, t)]
  <2>3. f \in Surjection(Preds(Edges, t), Candidates(node, t))
    BY DEF Surjection, Candidates
  <2> QED
    BY <2>2, <2>3, FS_Surjection
<1>4. Candidates(node, t) # {}
  BY DEF Candidates
<1> QED
  BY <1>2, <1>3, <1>4, GreatestOfFinite DEF EarliestStart

(* A task that starts at the earliest start of its candidates is tight.    *)
LEMMA EarliestIsTight ==
  ASSUME TypeOK, NEW n \in [Tasks -> TaskNode], NEW t \in Tasks,
         EarliestStart(n, t, n[t].start)
  PROVE  Tight(deps, n, t)
<1>1. \A p \in Preds(Edges, t) :
        /\ Candidate(n, p, t) \in Int
        /\ Slack(deps, n, p, t) = n[t].start - Candidate(n, p, t)
  BY SlackIsRoom
<1>2. n[t].start \in Int
  BY DEF TaskNode
<1>3. \A p \in Preds(Edges, t) : Slack(deps, n, p, t) >= 0
  BY <1>1, <1>2 DEF EarliestStart, Candidates
<1>4. \E p \in Preds(Edges, t) : Slack(deps, n, p, t) = 0
  BY <1>1, <1>2 DEF EarliestStart, Candidates
<1> QED
  BY <1>3, <1>4 DEF Tight, Edges

(* The task recomputed next has not moved and precedes none of those that  *)
(* were recomputed before it, itself included.                             *)
LEMMA NextTask ==
  ASSUME IInv, pc = "recompute", settled < Len(topo)
  PROVE  LET t == topo[settled + 1]
         IN  /\ t \in Tasks /\ node[t] = given[t]
             /\ Preds(Edges, t) # {} /\ t \notin Preds(Edges, t)
             /\ \A k \in 1 .. settled : topo[k] # t /\ t \notin Preds(Edges, topo[k])
             /\ settled \in Nat /\ settled + 1 \in DOMAIN topo
             /\ DOMAIN topo = 1 .. Len(topo) /\ Len(topo) \in Nat
<1> USE DEF IInv, LoopInvariant
<1> DEFINE t == topo[settled + 1]
<1>1. /\ topo \in Seq(affected) /\ Len(topo) \in Nat /\ DOMAIN topo = 1 .. Len(topo)
      /\ settled \in Nat /\ settled + 1 \in DOMAIN topo
  BY DEF TypeOK
<1>2. t \in affected /\ t \in Tasks
  BY <1>1 DEF TypeOK
<1>3. \A k \in 1 .. settled : k \in DOMAIN topo /\ topo[k] # t
  BY <1>1 DEF OrderInv
<1>4. \A k \in 1 .. settled + 1 : t \notin Preds(Edges, topo[k])
  <2> SUFFICES ASSUME NEW k \in 1 .. settled + 1, t \in Preds(Edges, topo[k])
               PROVE  FALSE
    OBVIOUS
  <2>1. k \in DOMAIN topo
    BY <1>1
  <2>2. PICK j \in 1 .. k - 1 : topo[j] = t
    BY <1>2, <2>1 DEF OrderInv
  <2>3. j \in 1 .. settled
    BY <1>1
  <2> QED
    BY <1>3, <2>2, <2>3
<1>5. Preds(Edges, t) # {}
  <2>1. t \in Downstream(Edges, root)
    BY <1>2 DEF CollectInv
  <2>2. Edges \in SUBSET (Tasks \X Tasks) /\ root \in Tasks
    BY InputTypes DEF TypeOK
  <2> QED
    BY <2>1, <2>2, DownstreamFollows
<1>6. node[t] = given[t]
  BY <1>2, <1>3 DEF DatesInv
<1>7. t \notin Preds(Edges, t)
  BY <1>1, <1>4
<1> QED
  BY <1>1, <1>2, <1>3, <1>4, <1>5, <1>6, <1>7

(* A task that is already where it must be stays there, and is tight.      *)
LEMMA KeepStep ==
  ASSUME IInv, Keep
  PROVE  IInv'
<1> USE DEF IInv, LoopInvariant
<1> DEFINE t == topo[settled + 1]
<1>1. /\ pc = "recompute" /\ settled < Len(topo) /\ settled' = settled + 1
      /\ \A m \in Candidates(node, t) : EarliestStart(node, t, m) => m = node[t].start
      /\ UNCHANGED <<root, deps, given, node, pc, stack, affected, indegree, queue,
                     topo, changes>>
  BY DEF Keep, Moves, call
<1>2. /\ t \in Tasks /\ node[t] = given[t] /\ Preds(Edges, t) # {}
      /\ settled \in Nat /\ Len(topo) \in Nat /\ DOMAIN topo = 1 .. Len(topo)
      /\ \A k \in 1 .. settled : topo[k] # t
  BY <1>1, NextTask
<1>3. Edges' = Edges /\ Placed' = Placed
  BY <1>1 DEF Edges, Placed
<1>4. Tight(deps, node, t)
  <2>1. PICK m \in Candidates(node, t) : EarliestStart(node, t, m)
    BY <1>2, EarliestStartExists
  <2>2. EarliestStart(node, t, node[t].start)
    BY <1>1, <2>1
  <2>3. node \in [Tasks -> TaskNode]
    BY DEF TypeOK
  <2> QED
    BY <1>2, <2>2, <2>3, EarliestIsTight
<1> HIDE DEF t
<1>5. \A k \in 1 .. settled + 1 : k \in 1 .. settled \/ (k = settled + 1 /\ topo[k] = t)
  BY <1>2 DEF t
<1>6. TypeOK' /\ CollectInv' /\ CountInv' /\ OrderInv'
  <2>1. settled' \in 0 .. Len(topo)
    BY <1>1, <1>2
  <2>2. TypeOK'
    BY <1>1, <2>1 DEF TypeOK, Ranked
  <2>3. CollectInv' /\ CountInv'
    BY <1>1, <1>3 DEF CollectInv, CountInv, Ranked
  <2>4. OrderInv'
    BY <1>1, <1>3 DEF OrderInv
  <2> QED
    BY <2>2, <2>3, <2>4
<1>7. DatesInv'
  <2>1. SettledStayTight'
    BY <1>1, <1>4, <1>5 DEF DatesInv, SettledStayTight
  <2>2. \A u \in Tasks : (\A k \in 1 .. settled' : topo[k] # u) => node[u] = given[u]
    BY <1>1, <1>2 DEF DatesInv
  <2> QED
    BY <1>1, <2>1, <2>2 DEF DatesInv
<1>8. ChangesInv'
  <2>1. \A i \in DOMAIN changes : changes[i].task # t
    <3> TAKE i \in DOMAIN changes
    <3>1. PICK k \in 1 .. settled : topo[k] = changes[i].task
      BY DEF ChangesInv
    <3> QED
      BY <1>2, <3>1
  <2>2. \A i \in DOMAIN changes : \E k \in 1 .. settled' : topo[k] = changes[i].task
    <3> TAKE i \in DOMAIN changes
    <3>1. PICK k \in 1 .. settled : topo[k] = changes[i].task
      BY DEF ChangesInv
    <3>2. k \in 1 .. settled'
      BY <1>1, <1>2
    <3> QED
      BY <3>1, <3>2
  <2>3. \A k \in 1 .. settled' :
          node[topo[k]] # given[topo[k]]
            <=> \E i \in DOMAIN changes : changes[i].task = topo[k]
    BY <1>1, <1>2, <1>5, <2>1 DEF ChangesInv
  <2>4. \A i, j \in DOMAIN changes : i < j =>
          \A k, l \in 1 .. settled' :
            topo[k] = changes[i].task /\ topo[l] = changes[j].task => k < l
    BY <1>1, <1>5, <2>1 DEF ChangesInv
  <2> QED
    BY <1>1, <2>2, <2>3, <2>4 DEF ChangesInv
<1> QED
  BY <1>6, <1>7, <1>8

(* A task that slides becomes tight, leaves those recomputed before it     *)
(* tight, and is recorded after them.                                      *)
LEMMA SlideStep ==
  ASSUME IInv, Slide
  PROVE  IInv'
<1> USE DEF IInv, LoopInvariant
<1> DEFINE t == topo[settled + 1]
           ch == [task |-> t, start |-> node'[t].start, finish |-> node'[t].finish]
<1>1. PICK m \in Candidates(node, t) :
        /\ EarliestStart(node, t, m)
        /\ m # node[t].start
        /\ node' = Slid(node, t, m)
        /\ changes' = Append(changes, ch)
  BY DEF Slide, Moves
<1>2. /\ pc = "recompute" /\ settled < Len(topo) /\ settled' = settled + 1
      /\ UNCHANGED <<root, deps, given, pc, stack, affected, indegree, queue, topo>>
  BY DEF Slide, call
<1>3. /\ t \in Tasks /\ node[t] = given[t] /\ t \notin Preds(Edges, t)
      /\ \A k \in 1 .. settled : topo[k] # t /\ t \notin Preds(Edges, topo[k])
      /\ settled \in Nat /\ Len(topo) \in Nat /\ DOMAIN topo = 1 .. Len(topo)
  BY <1>2, NextTask
<1>4. Edges' = Edges /\ Placed' = Placed
  BY <1>2 DEF Edges, Placed
<1>5. /\ node \in [Tasks -> TaskNode] /\ m \in Int
      /\ duration(node, t) \in Int
  <2>1. node \in [Tasks -> TaskNode]
    BY DEF TypeOK
  <2>2. m \in Int
    BY <1>3, <2>1, SlackIsRoom DEF Candidates
  <2>3. duration(node, t) \in Int
    BY <1>3, <2>1 DEF TaskNode, duration
  <2> QED
    BY <2>1, <2>2, <2>3
<1> HIDE DEF t
<1>6. /\ node' \in [Tasks -> TaskNode]
      /\ node'[t] = [start |-> m, finish |-> m + duration(node, t)]
      /\ \A u \in Tasks \ {t} : node'[u] = node[u]
  BY <1>1, <1>3, <1>5 DEF Slid, TaskNode
<1>7. duration(node', t) = duration(node, t) /\ node'[t].start = m
  BY <1>5, <1>6 DEF duration
<1>8. Tight(deps, node', t)
  <2>1. \A p \in Preds(Edges, t) : Candidate(node', p, t) = Candidate(node, p, t)
    <3> TAKE p \in Preds(Edges, t)
    <3>1. node'[p] = node[p]
      BY <1>3, <1>6, Neighbours
    <3> QED
      BY <1>7, <3>1 DEF Candidate
  <2>2. Candidates(node', t) = Candidates(node, t)
    BY <2>1 DEF Candidates
  <2>3. EarliestStart(node', t, node'[t].start)
    BY <1>1, <1>7, <2>2 DEF EarliestStart
  <2> QED
    BY <1>3, <1>6, <2>3, EarliestIsTight
<1>9. \A k \in 1 .. settled + 1 : k \in 1 .. settled \/ (k = settled + 1 /\ topo[k] = t)
  BY <1>3 DEF t
<1>10. \A k \in 1 .. settled : topo[k] \in Tasks /\ node'[topo[k]] = node[topo[k]]
  <2>1. \A k \in 1 .. settled : topo[k] \in Tasks
    BY <1>2, <1>3 DEF TypeOK
  <2> QED
    BY <1>3, <1>6, <2>1
<1>11. /\ changes \in Seq([task : Tasks, start : Int, finish : Int])
       /\ ch \in [task : Tasks, start : Int, finish : Int]
  BY <1>3, <1>5, <1>6 DEF TypeOK
<1>12. /\ DOMAIN changes = 1 .. Len(changes) /\ DOMAIN changes' = 1 .. Len(changes) + 1
       /\ Len(changes) \in Nat /\ changes'[Len(changes) + 1] = ch
       /\ \A i \in 1 .. Len(changes) : changes'[i] = changes[i]
       /\ changes' \in Seq([task : Tasks, start : Int, finish : Int])
  BY <1>1, <1>11, AppendFacts
<1>13. TypeOK' /\ CollectInv' /\ CountInv' /\ OrderInv'
  <2>1. settled' \in 0 .. Len(topo)
    BY <1>2, <1>3
  <2>2. TypeOK'
    BY <1>2, <1>6, <1>12, <2>1 DEF TypeOK, Ranked
  <2>3. CollectInv' /\ CountInv'
    BY <1>2, <1>4 DEF CollectInv, CountInv, Ranked
  <2>4. OrderInv'
    BY <1>2, <1>4 DEF OrderInv
  <2> QED
    BY <2>2, <2>3, <2>4
<1>14. DatesInv'
  <2>1. \A k \in 1 .. settled : Tight(deps, node', topo[k])
    <3> TAKE k \in 1 .. settled
    <3>1. Tight(deps, node, topo[k])
      BY DEF DatesInv, SettledStayTight
    <3>2. \A p \in Preds(Edges, topo[k]) : node'[p] = node[p]
      BY <1>3, <1>6, Neighbours
    <3> QED
      BY <1>10, <3>1, <3>2, TightAgrees DEF Edges
  <2>2. SettledStayTight'
    BY <1>2, <1>8, <1>9, <2>1 DEF SettledStayTight
  <2>3. \A u \in Tasks : (\A k \in 1 .. settled' : topo[k] # u) => node'[u] = given[u]
    <3> SUFFICES ASSUME NEW u \in Tasks, \A k \in 1 .. settled' : topo[k] # u
                 PROVE  node'[u] = given[u]
      OBVIOUS
    <3>1. settled + 1 \in 1 .. settled' /\ \A k \in 1 .. settled : k \in 1 .. settled'
      BY <1>2, <1>3
    <3>2. u # t
      BY <3>1 DEF t
    <3>3. node[u] = given[u]
      BY <3>1 DEF DatesInv
    <3> QED
      BY <1>6, <3>2, <3>3
  <2>4. \A u \in Tasks : duration(node', u) = duration(given, u)
    <3> TAKE u \in Tasks
    <3>1. duration(node, u) = duration(given, u)
      BY DEF DatesInv
    <3>2. CASE u = t
      BY <1>7, <3>1, <3>2
    <3>3. CASE u # t
      BY <1>6, <3>1, <3>3 DEF duration
    <3> QED
      BY <3>2, <3>3
  <2> QED
    BY <1>2, <2>2, <2>3, <2>4 DEF DatesInv
<1>15. ChangesInv'
  <2>1. \A i \in DOMAIN changes : changes[i].task # t
    <3> TAKE i \in DOMAIN changes
    <3>1. PICK k \in 1 .. settled : topo[k] = changes[i].task
      BY DEF ChangesInv
    <3> QED
      BY <1>3, <3>1
  <2>2. \A i \in DOMAIN changes' :
          /\ \E k \in 1 .. settled' : topo[k] = changes'[i].task
          /\ node'[changes'[i].task] = [start |-> changes'[i].start,
                                        finish |-> changes'[i].finish]
    <3> TAKE i \in DOMAIN changes'
    <3>1. CASE i = Len(changes) + 1
      <4>1. topo[settled + 1] = ch.task /\ settled + 1 \in 1 .. settled'
        BY <1>2, <1>3 DEF t
      <4>2. node'[t] = [start |-> node'[t].start, finish |-> node'[t].finish]
        BY <1>6
      <4> QED
        BY <1>12, <3>1, <4>1, <4>2
    <3>2. CASE i \in 1 .. Len(changes)
      <4>1. PICK k \in 1 .. settled : topo[k] = changes[i].task
        BY <1>12, <3>2 DEF ChangesInv
      <4>2. k \in 1 .. settled'
        BY <1>2, <1>3
      <4>3. node[changes[i].task] = [start |-> changes[i].start, finish |-> changes[i].finish]
        BY <1>12, <3>2 DEF ChangesInv
      <4> QED
        BY <1>10, <1>12, <3>2, <4>1, <4>2, <4>3
    <3> QED
      BY <1>12, <3>1, <3>2
  <2>3. \A k \in 1 .. settled' :
          node'[topo[k]] # given[topo[k]]
            <=> \E i \in DOMAIN changes' : changes'[i].task = topo[k]
    <3> TAKE k \in 1 .. settled'
    <3>1. CASE k \in 1 .. settled
      <4>1. topo[k] # t /\ node'[topo[k]] = node[topo[k]]
        BY <1>3, <1>10, <3>1
      <4>2. ASSUME NEW i \in DOMAIN changes', changes'[i].task = topo[k]
            PROVE  \E j \in DOMAIN changes : changes[j].task = topo[k]
        <5>1. i # Len(changes) + 1
          BY <1>12, <4>1, <4>2
        <5>2. i \in DOMAIN changes /\ changes'[i] = changes[i]
          BY <1>12, <5>1
        <5> QED
          BY <4>2, <5>2
      <4>3. ASSUME NEW j \in DOMAIN changes, changes[j].task = topo[k]
            PROVE  \E i \in DOMAIN changes' : changes'[i].task = topo[k]
        <5>1. j \in DOMAIN changes' /\ changes'[j] = changes[j]
          BY <1>12
        <5> QED
          BY <4>3, <5>1
      <4>4. node[topo[k]] # given[topo[k]]
              <=> \E i \in DOMAIN changes : changes[i].task = topo[k]
        BY <3>1 DEF ChangesInv
      <4> QED
        BY <4>1, <4>2, <4>3, <4>4
    <3>2. CASE topo[k] = t
      <4>1. node'[t] # given[t]
        BY <1>1, <1>3, <1>7
      <4>2. Len(changes) + 1 \in DOMAIN changes' /\ changes'[Len(changes) + 1].task = t
        BY <1>12
      <4> QED
        BY <3>2, <4>1, <4>2
    <3> QED
      BY <1>2, <1>9, <3>1, <3>2
  <2>4. \A i, j \in DOMAIN changes' : i < j =>
          \A k, l \in 1 .. settled' :
            topo[k] = changes'[i].task /\ topo[l] = changes'[j].task => k < l
    <3> SUFFICES ASSUME NEW i \in DOMAIN changes', NEW j \in DOMAIN changes', i < j,
                        NEW k \in 1 .. settled', NEW l \in 1 .. settled',
                        topo[k] = changes'[i].task, topo[l] = changes'[j].task
                 PROVE  k < l
      OBVIOUS
    <3>1. i \in 1 .. Len(changes) /\ changes'[i] = changes[i]
      BY <1>12
    <3>2. topo[k] # t
      BY <1>12, <2>1, <3>1
    <3>3. k \in 1 .. settled
      BY <1>2, <1>9, <3>2
    <3>4. CASE j = Len(changes) + 1
      <4>1. topo[l] = t
        BY <1>12, <3>4
      <4>2. l = settled + 1
        BY <1>2, <1>3, <1>9, <4>1
      <4> QED
        BY <1>3, <3>3, <4>2
    <3>5. CASE j \in 1 .. Len(changes)
      <4>1. topo[l] # t
        BY <1>12, <2>1, <3>5
      <4>2. l \in 1 .. settled
        BY <1>2, <1>9, <4>1
      <4>3. i \in DOMAIN changes /\ j \in DOMAIN changes
            /\ topo[k] = changes[i].task /\ topo[l] = changes[j].task
        BY <1>12, <3>1, <3>5
      <4> QED
        BY <3>3, <4>2, <4>3 DEF ChangesInv
    <3> QED
      BY <1>12, <3>4, <3>5
  <2> QED
    BY <1>2, <2>2, <2>3, <2>4 DEF ChangesInv
<1> QED
  BY <1>13, <1>14, <1>15

-----------------------------------------------------------------------------
(* Every step of a call preserves the invariant.                           *)
LEMMA NextIInv == IInv /\ [Next]_vars => IInv'
<1> SUFFICES ASSUME IInv, [Next]_vars
             PROVE  IInv'
  OBVIOUS
<1>1. CASE Collect
  BY <1>1, CollectStep
<1>2. CASE CountPredecessors
  BY <1>2, CountStep
<1>3. CASE Order
  BY <1>3, OrderStep
<1>4. CASE RaiseCycle \/ Ordered
  BY <1>4, EndOrderStep
<1>5. CASE Keep
  BY <1>5, KeepStep
<1>6. CASE Slide
  BY <1>6, SlideStep
<1>7. CASE Return
  BY <1>7, ReturnStep
<1>8. CASE Terminated \/ UNCHANGED vars
  <2> USE <1>8 DEF Terminated, vars, call, IInv, LoopInvariant
  <2>1. Edges' = Edges /\ Placed' = Placed
    BY DEF Edges, Placed
  <2>2. TypeOK' /\ CollectInv' /\ CountInv'
    BY <2>1 DEF TypeOK, Ranked, CollectInv, CountInv
  <2>3. OrderInv'
    BY <2>1 DEF OrderInv
  <2>4. DatesInv' /\ ChangesInv'
    BY DEF DatesInv, SettledStayTight, ChangesInv
  <2> QED
    BY <2>2, <2>3, <2>4
<1> QED
  BY <1>1, <1>2, <1>3, <1>4, <1>5, <1>6, <1>7, <1>8 DEF Next

(* Type correctness and the loop invariants hold in every call.            *)
THEOREM Invariance == Spec => [](TypeOK /\ LoopInvariant)
<1>1. Init => IInv
  BY InitIInv
<1>2. IInv /\ [Next]_vars => IInv'
  BY NextIInv
<1> QED
  BY <1>1, <1>2, PTL DEF Spec, IInv

(* Each variable keeps its type; no count drops below zero.                *)
THEOREM TypeCorrect == Spec => []TypeOK
BY Invariance, PTL

(* A task that was recomputed is never invalidated by a later iteration.   *)
THEOREM SettledTasksStayTight == Spec => []SettledStayTight
<1>1. LoopInvariant => SettledStayTight
  BY DEF LoopInvariant, DatesInv
<1> QED
  BY <1>1, Invariance, PTL

(* No task downstream of the root precedes itself once all are placed: the *)
(* least-placed member of a set cannot have a predecessor in the set.      *)
LEMMA AllPlacedAcyclic ==
  ASSUME IInv, Placed = affected
  PROVE  ~ Cyclic(Edges, affected)
<1> USE DEF IInv, LoopInvariant
<1> SUFFICES ASSUME NEW C \in (SUBSET affected) \ {{}},
                    \A t \in C : Preds(Edges, t) \cap C # {}
             PROVE  FALSE
  BY DEF Cyclic
<1>1. Len(topo) \in Nat /\ DOMAIN topo = 1 .. Len(topo)
  BY DEF TypeOK
<1> DEFINE Ranks == {i \in DOMAIN topo : topo[i] \in C}
<1>2. \A i : i \in Ranks <=> i \in DOMAIN topo /\ topo[i] \in C
  OBVIOUS
<1>3. Ranks # {} /\ Ranks \in SUBSET Nat
  BY <1>1 DEF Placed
<1> HIDE DEF Ranks
<1>4. PICK i \in Ranks : \A j \in Ranks : i <= j
  BY <1>3, LeastNat
<1>5. PICK p \in C : p \in Preds(Edges, topo[i])
  BY <1>2
<1>6. PICK j \in 1 .. i - 1 : topo[j] = p
  BY <1>2, <1>5 DEF OrderInv
<1>7. j \in Ranks /\ ~ (i <= j)
  BY <1>1, <1>2, <1>6
<1> QED
  BY <1>4, <1>7

(* When the queue runs dry with tasks left over, those tasks wait for each *)
(* other.                                                                  *)
LEMMA LeftOverCyclic ==
  ASSUME IInv, Ranked, queue = {}, Placed # affected
  PROVE  Cyclic(Edges, affected)
<1> USE DEF IInv, LoopInvariant
<1> DEFINE C == affected \ Placed
<1>1. C \in (SUBSET affected) \ {{}}
  BY PlacedCount
<1>2. \A t \in C : Preds(Edges, t) \cap C # {}
  <2> SUFFICES ASSUME NEW t \in C, Preds(Edges, t) \cap C = {}
               PROVE  FALSE
    OBVIOUS
  <2>1. (Preds(Edges, t) \cap affected) \ Placed = {}
    OBVIOUS
  <2>2. indegree[t] = 0
    BY <2>1, FS_EmptySet DEF CountInv
  <2> QED
    BY <2>2 DEF CountInv
<1> QED
  BY <1>1, <1>2 DEF Cyclic

(* A root downstream of itself could not have been placed: the tasks       *)
(* placed after it would contain everything downstream, itself included.   *)
LEMMA RootNotAffected ==
  ASSUME IInv, Placed = affected, pc # "collect"
  PROVE  root \notin affected
<1> USE DEF IInv, LoopInvariant
<1> SUFFICES ASSUME root \in affected
             PROVE  FALSE
  OBVIOUS
<1>1. /\ Len(topo) \in Nat /\ DOMAIN topo = 1 .. Len(topo)
      /\ affected \subseteq Tasks /\ root \in Tasks
      /\ affected = Downstream(Edges, root)
  BY DEF TypeOK, CollectInv
<1>2. PICK i \in DOMAIN topo : topo[i] = root
  BY DEF Placed
<1> DEFINE S == {topo[k] : k \in i + 1 .. Len(topo)}
<1>3. \A x : x \in S <=> \E k \in i + 1 .. Len(topo) : topo[k] = x
  OBVIOUS
<1> HIDE DEF S
<1>4. ASSUME NEW k \in DOMAIN topo, k >= i, NEW s \in Succs(Edges, topo[k])
      PROVE  s \in S
  <2>1. topo[k] \in affected /\ topo[k] \in Tasks
    BY <1>1 DEF Placed
  <2>2. s \in affected
    BY <1>1, <2>1, DownstreamClosed
  <2>3. PICK l \in DOMAIN topo : topo[l] = s
    BY <2>2 DEF Placed
  <2>4. topo[k] \in Preds(Edges, topo[l]) \cap affected
    BY <1>4, <2>1, <2>3 DEF Preds, Succs
  <2>5. PICK j \in 1 .. l - 1 : topo[j] = topo[k]
    BY <2>4 DEF OrderInv
  <2>6. j \in DOMAIN topo
    BY <1>1, <2>3, <2>5
  <2>7. j = k
    BY <1>4, <2>5, <2>6 DEF OrderInv
  <2>8. l \in i + 1 .. Len(topo)
    BY <1>1, <1>2, <1>4, <2>3, <2>5, <2>7
  <2> QED
    BY <1>3, <2>3, <2>8
<1>5. S \in SUBSET Tasks
  BY <1>1, <1>2, <1>3 DEF Placed
<1>6. Succs(Edges, root) \subseteq S
  <2> SUFFICES ASSUME NEW s \in Succs(Edges, root)
               PROVE  s \in S
    OBVIOUS
  <2>1. i >= i
    BY <1>1
  <2> QED
    BY <1>2, <1>4, <2>1
<1>7. Closed(Edges, S)
  <2> SUFFICES ASSUME NEW p \in S, NEW s \in Succs(Edges, p)
               PROVE  s \in S
    BY DEF Closed
  <2>1. PICK k \in i + 1 .. Len(topo) : topo[k] = p
    BY <1>3
  <2>2. k \in DOMAIN topo /\ k >= i
    BY <1>1, <1>2
  <2> QED
    BY <1>4, <2>1, <2>2
<1>8. root \in S
  BY <1>1, <1>5, <1>6, <1>7, DownstreamLeast
<1>9. PICK k \in i + 1 .. Len(topo) : topo[k] = root
  BY <1>3, <1>8
<1>10. k \in DOMAIN topo /\ k # i
  BY <1>1, <1>2
<1> QED
  BY <1>2, <1>9, <1>10 DEF OrderInv

(* The returned list holds each task that moved, once, with its final      *)
(* dates, and never a task before one of its predecessors.                 *)
THEOREM ChangesAreExact == Spec => []ChangesExact
<1>1. TypeOK /\ LoopInvariant => ChangesExact
  <2> SUFFICES ASSUME IInv, pc = "returned"
               PROVE  ChangesExact
    BY DEF ChangesExact, IInv
  <2> USE DEF IInv, LoopInvariant
  <2>1. /\ settled = Len(topo) /\ Placed = affected
        /\ DOMAIN topo = 1 .. settled /\ settled \in Nat
        /\ DOMAIN changes = 1 .. Len(changes) /\ Len(changes) \in Nat
    BY DEF DatesInv, OrderInv, TypeOK
  <2>2. \A i \in DOMAIN changes : \E k \in 1 .. settled : topo[k] = changes[i].task
    BY DEF ChangesInv
  <2>3. \A i \in DOMAIN changes :
          /\ changes[i].task # root
          /\ node[changes[i].task] = [start |-> changes[i].start,
                                      finish |-> changes[i].finish]
    <3> TAKE i \in DOMAIN changes
    <3>1. changes[i].task \in affected
      BY <2>1, <2>2 DEF Placed
    <3>2. root \notin affected
      BY <2>1, RootNotAffected
    <3> QED
      BY <3>1, <3>2 DEF ChangesInv
  <2>4. \A t \in Tasks :
          node[t] # given[t] <=> \E i \in DOMAIN changes : changes[i].task = t
    <3> TAKE t \in Tasks
    <3>1. CASE \E k \in 1 .. settled : topo[k] = t
      BY <3>1 DEF ChangesInv
    <3>2. CASE \A k \in 1 .. settled : topo[k] # t
      <4>1. node[t] = given[t]
        BY <3>2 DEF DatesInv
      <4> QED
        BY <2>2, <3>2, <4>1
    <3> QED
      BY <3>1, <3>2
  <2>5. \A i, j \in DOMAIN changes :
          i < j => /\ changes[i].task # changes[j].task
                   /\ <<changes[j].task, changes[i].task>> \notin Edges
    <3> SUFFICES ASSUME NEW i \in DOMAIN changes, NEW j \in DOMAIN changes, i < j
                 PROVE  /\ changes[i].task # changes[j].task
                        /\ <<changes[j].task, changes[i].task>> \notin Edges
      OBVIOUS
    <3>1. PICK k \in 1 .. settled : topo[k] = changes[i].task
      BY <2>2
    <3>2. PICK l \in 1 .. settled : topo[l] = changes[j].task
      BY <2>2
    <3>3. k < l
      BY <3>1, <3>2 DEF ChangesInv
    <3>4. topo[k] # topo[l]
      BY <2>1, <3>3 DEF OrderInv
    <3>5. <<topo[l], topo[k]>> \notin Edges
      <4> SUFFICES ASSUME <<topo[l], topo[k]>> \in Edges
                   PROVE  FALSE
        OBVIOUS
      <4>1. topo[l] \in Preds(Edges, topo[k]) \cap affected
        BY <2>1 DEF Preds, Placed, TypeOK
      <4>2. PICK h \in 1 .. k - 1 : topo[h] = topo[l]
        BY <2>1, <4>1 DEF OrderInv
      <4>3. h \in DOMAIN topo /\ h = l
        BY <2>1, <4>2 DEF OrderInv
      <4> QED
        BY <2>1, <3>3, <4>2, <4>3
    <3> QED
      BY <3>1, <3>2, <3>4, <3>5
  <2> QED
    BY <2>3, <2>4, <2>5 DEF ChangesExact
<1> QED
  BY <1>1, Invariance, PTL

(* The contract's operators are those of Cascade.                          *)
LEMMA SameOperators ==
  /\ \A E, r : Contract!Downstream(E, r) = Downstream(E, r)
  /\ \A E, A : Contract!Cyclic(E, A) <=> Cyclic(E, A)
  /\ \A D, n, t : Contract!Tight(D, n, t) <=> Tight(D, n, t)
  /\ \A n, t : Contract!duration(n, t) = duration(n, t)
<1>1. \A E, r : Contract!Downstream(E, r) = Downstream(E, r)
  BY DEF Contract!Downstream, Contract!Succs, Contract!Closed,
         Downstream, Succs, Closed
<1>2. \A E, A : Contract!Cyclic(E, A) <=> Cyclic(E, A)
  BY DEF Contract!Cyclic, Contract!Preds, Cyclic, Preds
<1>3. \A D, n, t : Contract!Tight(D, n, t) <=> Tight(D, n, t)
  BY DEF Contract!Tight, Contract!Slack, Contract!Preds, Tight, Slack, Preds
<1>4. \A n, t : Contract!duration(n, t) = duration(n, t)
  BY DEF Contract!duration, duration
<1> QED
  BY <1>1, <1>2, <1>3, <1>4

(* How a call that has ended appears to the handlers that make it: they    *)
(* see a raise when it raised or when a date it would return is not one    *)
(* the code can represent, and otherwise the one schedule it returns.      *)
AppearsAsResult ==
  /\ pc = "raised" => Raises(deps, given, root)
  /\ pc = "returned" =>
       IF \A t \in Downstream(Edges, root) : node[t].start \in Times
       THEN ~ Raises(deps, given, root) /\ Results(deps, given, root) = {node}
       ELSE Raises(deps, given, root)

(* Once all the tasks are recomputed there was no cycle, and the dates are *)
(* those of the contract.                                                  *)
LEMMA Recomputed ==
  ASSUME IInv, pc \in {"recompute", "returned"}, settled = Len(topo)
  PROVE  /\ ~ Cyclic(Edges, Downstream(Edges, root))
         /\ Reschedules(deps, given, node, root)
<1> USE DEF IInv, LoopInvariant
<1>1. /\ Placed = affected /\ affected = Downstream(Edges, root)
      /\ DOMAIN topo = 1 .. settled
  BY DEF OrderInv, CollectInv, TypeOK
<1>2. DOMAIN given = Tasks
  BY SchedulesAssumption DEF TypeOK
<1>3. ASSUME NEW t \in Tasks
      PROVE  /\ duration(node, t) = duration(given, t)
             /\ IF t \in affected THEN Tight(deps, node, t) ELSE node[t] = given[t]
  <2>1. CASE t \in affected
    <3>1. PICK k \in 1 .. settled : topo[k] = t
      BY <1>1, <2>1 DEF Placed
    <3> QED
      BY <2>1, <3>1 DEF DatesInv, SettledStayTight
  <2>2. CASE t \notin affected
    <3>1. \A k \in 1 .. settled : topo[k] # t
      BY <1>1, <2>2 DEF Placed
    <3> QED
      BY <2>2, <3>1 DEF DatesInv
  <2> QED
    BY <2>1, <2>2
<1> QED
  BY <1>1, <1>2, <1>3, AllPlacedAcyclic DEF Reschedules, Tightens, Edges

(* The step that the models of the handlers take for a whole call is the   *)
(* loops of the code, run to their end (cascade.py:61-114, main.py:419,    *)
(* handler.py:80).                                                         *)
THEOREM CallsAppearAsResults == Spec => []AppearsAsResult
<1>1. IInv /\ pc = "raised" => Raises(deps, given, root)
  <2> SUFFICES ASSUME IInv, pc = "raised" PROVE Raises(deps, given, root)
    OBVIOUS
  <2>1. affected = Downstream(Edges, root) /\ queue = {} /\ Placed # affected
    BY DEF IInv, LoopInvariant, CollectInv, OrderInv
  <2>2. Cyclic(Edges, affected)
    BY <2>1, LeftOverCyclic DEF Ranked
  <2> QED  BY <2>1, <2>2 DEF Raises, Edges
<1>2. ASSUME IInv, pc = "returned"
      PROVE  IF \A t \in Downstream(Edges, root) : node[t].start \in Times
             THEN ~ Raises(deps, given, root) /\ Results(deps, given, root) = {node}
             ELSE Raises(deps, given, root)
  <2> DEFINE A == Downstream(Edges, root)
             s == [t \in A |-> node[t].start]
  <2>1. /\ root \in Tasks /\ deps \in [DOMAIN deps -> DepEdge]
        /\ given \in [Tasks -> TaskNode] /\ node \in [Tasks -> TaskNode]
    BY <1>2, GraphsAssumption, SchedulesAssumption DEF IInv, TypeOK
  <2>2. ~ Cyclic(DOMAIN deps, A) /\ Tightens(deps, given, node, A) /\ A \subseteq Tasks
    BY <1>2, Recomputed DEF Reschedules, Edges, Downstream, IInv, LoopInvariant, DatesInv
  <2>3. ASSUME NEW n \in Results(deps, given, root)
        PROVE  n = node /\ \A t \in A : n[t].start \in Times
    <3>1. PICK z \in [A -> Times] : n = SlidTo(given, z)
      BY DEF Results, Edges
    <3>2. \A t \in DOMAIN given : given[t] \in TaskNode
      BY <2>1
    <3>3. n \in [Tasks -> TaskNode]
      <4>1. DOMAIN n = DOMAIN given /\ \A t \in DOMAIN n : n[t] \in TaskNode
        BY <3>2, ResultType
      <4>2. n = [t \in DOMAIN n |-> n[t]]
        BY <3>1 DEF SlidTo
      <4> QED  BY <2>1, <4>1, <4>2
    <3>4. Reschedules(deps, given, n, root) /\ Reschedules(deps, given, node, root)
      BY <2>2, ResultTightens DEF Reschedules, Edges
    <3>5. n = node
      BY <2>1, <2>2, <3>3, <3>4, RescheduledIsUnique DEF Edges
    <3>6. \A t \in A : n[t].start = z[t]
      BY <2>1, <2>2, <3>1 DEF SlidTo
    <3> QED  BY <3>1, <3>5, <3>6
  <2>4. CASE \A t \in A : node[t].start \in Times
    <3>1. s \in [A -> Times]
      BY <2>4
    <3>2. ASSUME NEW t \in Tasks PROVE node[t] = SlidTo(given, s)[t]
      <4>1. /\ node[t].start \in Int /\ node[t].finish \in Int
            /\ given[t].start \in Int /\ given[t].finish \in Int
            /\ node[t] = [start |-> node[t].start, finish |-> node[t].finish]
        BY <2>1 DEF TaskNode
      <4>2. duration(node, t) = duration(given, t)
        BY <2>1, <2>2 DEF Tightens
      <4>3. CASE t \in A
        <5>1. SlidTo(given, s)[t] = [start |-> node[t].start,
                                     finish |-> node[t].start + duration(given, t)]
          BY <2>1, <4>3 DEF SlidTo
        <5>2. node[t].start + duration(given, t) = node[t].finish
          BY <4>1, <4>2 DEF duration
        <5> QED  BY <4>1, <5>1, <5>2
      <4>4. CASE t \notin A
        BY <2>1, <2>2, <4>4 DEF SlidTo, Tightens
      <4> QED  BY <4>3, <4>4
    <3>3. node = SlidTo(given, s)
      BY <2>1, <3>2 DEF SlidTo
    <3>4. node \in Results(deps, given, root)
      BY <2>2, <3>1, <3>3 DEF Results, Edges
    <3>5. Results(deps, given, root) = {node}
      BY <2>3, <3>4
    <3> QED  BY <2>2, <2>4, <3>5 DEF Raises, Edges
  <2>5. CASE ~ \A t \in A : node[t].start \in Times
    BY <2>3, <2>5 DEF Raises
  <2> QED  BY <2>4, <2>5
<1>3. TypeOK /\ LoopInvariant => AppearsAsResult
  BY <1>1, <1>2 DEF AppearsAsResult, IInv
<1> QED  BY <1>3, Invariance, PTL

(* A call implements its contract, as far as safety goes: the iterations   *)
(* of the loops are invisible, the raise is the contract's Raise and the   *)
(* return is its Return.                                                   *)
THEOREM ImplementsContractSafety == Spec => Contract!Safety
<1>1. Init => Contract!Init
  BY DEF Init, Contract!Init
<1>2. TypeOK /\ LoopInvariant /\ [Next]_vars => [Contract!Next]_(Contract!vars)
  <2> SUFFICES ASSUME IInv, [Next]_vars
               PROVE  [Contract!Next]_(Contract!vars)
    BY DEF IInv
  <2> USE DEF IInv, LoopInvariant
  <2>1. CASE RaiseCycle
    <3>1. /\ pc = "order" /\ pc' = "raised" /\ queue = {} /\ node = given
          /\ UNCHANGED <<root, deps, given, node>>
      <4>1. pc = "order" /\ pc' = "raised" /\ queue = {} /\ settled = 0
            /\ UNCHANGED <<root, deps, given, node>>
        BY <2>1 DEF RaiseCycle, call, DatesInv
      <4>2. \A t \in Tasks : node[t] = given[t]
        BY <4>1 DEF DatesInv
      <4>3. node = given
        BY <4>2, SchedulesAssumption DEF TypeOK
      <4> QED
        BY <4>1, <4>3
    <3>2. Placed # affected
      BY <2>1, PlacedCount DEF RaiseCycle
    <3>3. Cyclic(Edges, affected)
      BY <3>1, <3>2, LeftOverCyclic DEF Ranked
    <3>4. affected = Downstream(Edges, root)
      BY <3>1 DEF CollectInv
    <3>5. Contract!Raise
      BY <3>1, <3>3, <3>4, SameOperators
           DEF Contract!Raise, Contract!Affected, Edges
    <3> QED
      BY <3>5 DEF Contract!Next
  <2>2. CASE Return
    <3>1. /\ pc = "recompute" /\ pc' = "returned" /\ settled = Len(topo)
          /\ Placed = affected /\ affected = Downstream(Edges, root)
          /\ UNCHANGED <<root, deps, given, node, affected>>
      BY <2>2 DEF Return, call, OrderInv, CollectInv
    <3>2. ~ Cyclic(Edges, affected) /\ Reschedules(deps, given, node, root)
      BY <3>1, Recomputed
    <3>3. Tightens(deps, given, node, affected)
      BY <3>1, <3>2 DEF Reschedules, Edges
    <3>4. Contract!Affected = affected /\ Contract!Affected' = affected
      BY <3>1, SameOperators DEF Contract!Affected, Edges
    <3>5. Contract!Rescheduled'
      <4>1. DOMAIN given = Tasks
        BY SchedulesAssumption DEF TypeOK
      <4>2. Contract!Rescheduled' <=> Contract!Reschedules(deps, given, node, root)
        BY <3>1 DEF Contract!Rescheduled
      <4>3. Contract!Downstream(DOMAIN deps, root) = affected
        BY <3>4 DEF Contract!Affected
      <4> QED
        BY <3>3, <4>1, <4>2, <4>3, SameOperators
           DEF Contract!Reschedules, Contract!Tightens, Tightens
    <3>6. Contract!Return
      BY <3>1, <3>2, <3>4, <3>5, SameOperators DEF Contract!Return, Edges
    <3> QED
      BY <3>6 DEF Contract!Next
  <2>3. CASE Collect \/ CountPredecessors \/ Order \/ Ordered \/ Keep
    BY <2>3 DEF Collect, CountPredecessors, Order, Ordered, Keep, call, Contract!vars
  <2>4. CASE Slide
    BY <2>4 DEF Slide, call, Contract!vars
  <2>5. CASE Terminated \/ UNCHANGED vars
    BY <2>5 DEF Terminated, vars, call, Contract!vars
  <2> QED
    BY <2>1, <2>2, <2>3, <2>4, <2>5 DEF Next
<1> QED
  BY <1>1, <1>2, Invariance, PTL DEF Spec, Contract!Safety
=============================================================================
