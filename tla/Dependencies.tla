---------------------------- MODULE Dependencies ----------------------------
(***************************************************************************)
(* The dependency graph a cascade walks, as pure operators.  An edge       *)
(* <<p, s>> is a row of the predecessor table: task p precedes task s.     *)
(* The table has a unique constraint on the pair, so a set of pairs is all *)
(* there is to the shape of the graph.                                     *)
(***************************************************************************)
EXTENDS FiniteSets

CONSTANT Tasks

Preds(E, t) == {p \in Tasks : <<p, t>> \in E}
Succs(E, t) == {s \in Tasks : <<t, s>> \in E}

(* S contains every successor of each of its members.                      *)
Closed(E, S) == \A p \in S : Succs(E, p) \subseteq S

(* The transitive successors of r: the least closed set with r's own       *)
(* successors.  r itself is a member exactly when it lies on a cycle.      *)
Downstream(E, r) ==
  {t \in Tasks : \A S \in SUBSET Tasks :
                    Succs(E, r) \subseteq S /\ Closed(E, S) => t \in S}

(* A non-empty subset of A in which every task waits for another of the    *)
(* same subset.  A finite graph has one exactly when it has a cycle.       *)
Cyclic(E, A) ==
  \E C \in (SUBSET A) \ {{}} : \A t \in C : Preds(E, t) \cap C # {}
=============================================================================
