---------------------------- MODULE CascadeFacts ----------------------------
(* Facts about the schedules a cascade returns.                            *)
EXTENDS CascadeResults, TLAPS

(* They keep the tasks and the types of the dates they are made from.      *)
LEMMA ResultType ==
  ASSUME NEW D, NEW r, NEW m, NEW n \in Results(D, m, r),
         \A t \in DOMAIN m : m[t] \in TaskNode
  PROVE  DOMAIN n = DOMAIN m /\ \A t \in DOMAIN n : n[t] \in TaskNode
<1>1. PICK s \in [Downstream(DOMAIN D, r) -> Times] : n = SlidTo(m, s)
  BY DEF Results
<1>2. DOMAIN n = DOMAIN m
  BY <1>1 DEF SlidTo
<1>3. ASSUME NEW t \in DOMAIN n PROVE n[t] \in TaskNode
  <2>1. CASE t \in DOMAIN s
    <3>1. s[t] \in Int
      BY <1>1, <2>1, TimesAssumption
    <3>2. duration(m, t) \in Int
      BY <1>2 DEF duration, TaskNode
    <3> QED  BY <1>1, <1>2, <2>1, <3>1, <3>2 DEF SlidTo, TaskNode
  <2>2. CASE t \notin DOMAIN s
    BY <1>1, <1>2, <2>2 DEF SlidTo
  <2> QED  BY <2>1, <2>2
<1> QED  BY <1>2, <1>3

(* They are tight wherever the cascade leads from its root.                *)
LEMMA ResultTightens ==
  ASSUME NEW D, NEW r, NEW m, NEW n \in Results(D, m, r)
  PROVE  Tightens(D, m, n, Downstream(DOMAIN D, r))
BY DEF Results

(* Whatever follows the root, or a task downstream of it, is downstream.   *)
LEMMA DownstreamClosed ==
  ASSUME NEW E, NEW r \in Tasks, NEW p \in Tasks,
         p \in Downstream(E, r) \cup {r}
  PROVE  Succs(E, p) \subseteq Downstream(E, r)
BY DEF Downstream, Closed, Succs

(* A set that contains the root's successors and is closed contains all    *)
(* that is downstream.                                                     *)
LEMMA DownstreamLeast ==
  ASSUME NEW E, NEW r \in Tasks, NEW S \in SUBSET Tasks,
         Succs(E, r) \subseteq S, Closed(E, S)
  PROVE  Downstream(E, r) \subseteq S
BY DEF Downstream

(* A task downstream of the root waits for the root or for another.        *)
LEMMA DownstreamFollows ==
  ASSUME NEW E, NEW r \in Tasks, NEW t \in Downstream(E, r)
  PROVE  Preds(E, t) \cap (Downstream(E, r) \cup {r}) # {}
<1> DEFINE A == Downstream(E, r)
<1> SUFFICES ASSUME Preds(E, t) \cap (A \cup {r}) = {} PROVE FALSE
  OBVIOUS
<1>1. A \subseteq Tasks
  BY DEF Downstream
<1>2. \A p \in A \cup {r} : Succs(E, p) \subseteq A \ {t}
  <2> TAKE p \in A \cup {r}
  <2>1. t \notin Succs(E, p)
    BY <1>1 DEF Succs, Preds
  <2>2. Succs(E, p) \subseteq A
    BY <1>1, DownstreamClosed
  <2> QED  BY <2>1, <2>2
<1>3. A \subseteq A \ {t}
  <2>1. A \ {t} \in SUBSET Tasks
    BY <1>1
  <2>2. Closed(E, A \ {t})
    BY <1>2 DEF Closed
  <2> HIDE DEF A
  <2> QED  BY <1>2, <2>1, <2>2, DownstreamLeast DEF A
<1> QED  BY <1>3

(* Where a cascade does not raise, its root is not downstream of itself.   *)
LEMMA RootNotDownstream ==
  ASSUME NEW E, NEW r \in Tasks, ~ Cyclic(E, Downstream(E, r))
  PROVE  r \notin Downstream(E, r)
<1> DEFINE A == Downstream(E, r)
<1> SUFFICES ASSUME r \in A PROVE FALSE
  OBVIOUS
<1>1. \A t \in A : Preds(E, t) \cap A # {}
  BY DownstreamFollows
<1> QED  BY <1>1 DEF Cyclic

(* Whether a task is tight depends on its own dates and those of its       *)
(* predecessors.                                                           *)
LEMMA TightAgrees ==
  ASSUME NEW D, NEW m, NEW n, NEW t,
         \A u \in Preds(DOMAIN D, t) \cup {t} : n[u] = m[u],
         Tight(D, m, t)
  PROVE  Tight(D, n, t)
<1>1. n[t] = m[t] /\ \A p \in Preds(DOMAIN D, t) : n[p] = m[p]
  OBVIOUS
<1>2. \A p \in Preds(DOMAIN D, t) : Slack(D, n, p, t) = Slack(D, m, p, t)
  BY <1>1 DEF Slack
<1> QED  BY <1>2 DEF Tight

(* It depends on the dependencies of the task alone.                       *)
LEMMA TightSameEdges ==
  ASSUME NEW D, NEW E, NEW n, NEW t,
         Preds(DOMAIN E, t) = Preds(DOMAIN D, t),
         \A p \in Preds(DOMAIN D, t) : E[<<p, t>>] = D[<<p, t>>],
         Tight(D, n, t)
  PROVE  Tight(E, n, t)
<1>1. \A p \in Preds(DOMAIN D, t) : Slack(E, n, p, t) = Slack(D, n, p, t)
  BY DEF Slack
<1> QED  BY <1>1 DEF Tight

(* The dates of a tight task are determined by those of its predecessors   *)
(* and by its duration.                                                    *)
LEMMA TightPlace ==
  ASSUME NEW D, D \in [DOMAIN D -> DepEdge], NEW m \in [Tasks -> TaskNode],
         NEW n \in [Tasks -> TaskNode], NEW t \in Tasks,
         Tight(D, m, t), Tight(D, n, t), duration(m, t) = duration(n, t),
         \A p \in Preds(DOMAIN D, t) : m[p] = n[p]
  PROVE  m[t] = n[t]
<1>1. /\ m[t].start \in Int /\ m[t].finish \in Int
      /\ n[t].start \in Int /\ n[t].finish \in Int
      /\ m[t].finish - m[t].start = n[t].finish - n[t].start
  BY DEF TaskNode, duration
<1>2. ASSUME NEW p \in Preds(DOMAIN D, t)
      PROVE  /\ Slack(D, m, p, t) \in Int /\ Slack(D, n, p, t) \in Int
             /\ Slack(D, m, p, t) - m[t].start = Slack(D, n, p, t) - n[t].start
  <2> DEFINE d == D[<<p, t>>]
  <2>1. d.type \in DepType /\ d.lag \in Int
    BY <1>2 DEF Preds, DepEdge
  <2>2. p \in Tasks /\ m[p] = n[p] /\ n[p].start \in Int /\ n[p].finish \in Int
    BY DEF Preds, TaskNode
  <2>3. /\ Slack(D, m, p, t) = CASE d.type = "FS" -> m[t].start  - (m[p].finish + d.lag)
                                 [] d.type = "SS" -> m[t].start  - (m[p].start  + d.lag)
                                 [] d.type = "FF" -> m[t].finish - (m[p].finish + d.lag)
                                 [] d.type = "SF" -> m[t].finish - (m[p].start  + d.lag)
        /\ Slack(D, n, p, t) = CASE d.type = "FS" -> n[t].start  - (n[p].finish + d.lag)
                                 [] d.type = "SS" -> n[t].start  - (n[p].start  + d.lag)
                                 [] d.type = "FF" -> n[t].finish - (n[p].finish + d.lag)
                                 [] d.type = "SF" -> n[t].finish - (n[p].start  + d.lag)
    BY DEF Slack
  <2> HIDE DEF d
  <2>4. CASE d.type = "FS"
    BY <1>1, <2>1, <2>2, <2>3, <2>4
  <2>5. CASE d.type = "SS"
    BY <1>1, <2>1, <2>2, <2>3, <2>5
  <2>6. CASE d.type = "FF"
    BY <1>1, <2>1, <2>2, <2>3, <2>6
  <2>7. CASE d.type = "SF"
    BY <1>1, <2>1, <2>2, <2>3, <2>7
  <2> QED  BY <2>1, <2>4, <2>5, <2>6, <2>7 DEF DepType
<1>3. PICK p \in Preds(DOMAIN D, t) : Slack(D, m, p, t) = 0
  BY DEF Tight
<1>4. PICK q \in Preds(DOMAIN D, t) : Slack(D, n, q, t) = 0
  BY DEF Tight
<1>5. Slack(D, n, p, t) >= 0 /\ Slack(D, m, q, t) >= 0
  BY DEF Tight
<1>6. n[t].start >= m[t].start
  BY <1>1, <1>2, <1>3, <1>5
<1>7. m[t].start >= n[t].start
  BY <1>1, <1>2, <1>4, <1>5
<1>8. m[t].start = n[t].start /\ m[t].finish = n[t].finish
  BY <1>1, <1>6, <1>7
<1> QED  BY <1>8 DEF TaskNode

(* One schedule at most is what a cascade must leave: where two of them    *)
(* differed, each task would differ because a predecessor does, round a    *)
(* cycle.  The order in which the code visits the tasks, taken from        *)
(* database rows and Python sets, therefore changes no date                *)
(* (cascade.py:71-114).                                                    *)
THEOREM RescheduledIsUnique ==
  ASSUME NEW D, D \in [DOMAIN D -> DepEdge], NEW r \in Tasks, NEW k \in [Tasks -> TaskNode],
         NEW m \in [Tasks -> TaskNode], NEW n \in [Tasks -> TaskNode],
         ~ Cyclic(DOMAIN D, Downstream(DOMAIN D, r)),
         Reschedules(D, k, m, r), Reschedules(D, k, n, r)
  PROVE  m = n
<1> DEFINE A == Downstream(DOMAIN D, r)
           C == {t \in Tasks : m[t] # n[t]}
<1>1. \A t \in Tasks : /\ duration(m, t) = duration(n, t)
                       /\ t \in A => Tight(D, m, t) /\ Tight(D, n, t)
                       /\ t \notin A => m[t] = n[t]
  BY DEF Reschedules, Tightens
<1>2. C \in SUBSET A
  BY <1>1
<1>3. \A t \in C : Preds(DOMAIN D, t) \cap C # {}
  <2> SUFFICES ASSUME NEW t \in C, Preds(DOMAIN D, t) \cap C = {} PROVE FALSE
    OBVIOUS
  <2>1. \A p \in Preds(DOMAIN D, t) : m[p] = n[p]
    BY DEF Preds
  <2>2. Tight(D, m, t) /\ Tight(D, n, t) /\ duration(m, t) = duration(n, t)
    BY <1>1, <1>2
  <2> QED  BY <2>1, <2>2, TightPlace
<1>4. C = {}
  BY <1>2, <1>3 DEF Cyclic
<1> QED  BY <1>4
=============================================================================
