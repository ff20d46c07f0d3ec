------------------------------ MODULE MCCascade ------------------------------
(* Instances of Cascade for TLC.                                           *)
EXTENDS Cascade

CONSTANTS r, a, b, c

Join == [type |-> "FS", lag |-> 0]
Shape(E) == [e \in E |-> Join]

(* Every shape of graph over three tasks, cycles and self-loops included.  *)
Shapes == {Shape(E) : E \in SUBSET ({r, a, b} \X {r, a, b})}

(* Every graph of four tasks that respects the order r, a, b, c: paths of  *)
(* different lengths meet in a task.                                       *)
Forward == {<<r, a>>, <<r, b>>, <<r, c>>, <<a, b>>, <<a, c>>, <<b, c>>}
Paths == {Shape(E) : E \in SUBSET Forward}

(* A task moved by two predecessors, one of them moved itself: every type  *)
(* on every edge, with a negative and a positive lag.                      *)
Triangles == [{<<r, a>>, <<r, b>>, <<a, b>>} -> [type : DepType, lag : {-1, 2}]]

MCGraphs == Shapes \cup Paths \cup Triangles

At(s, d) == [start |-> s, finish |-> s + d]

(* Durations of every sign; the root moved to the right or to the left.    *)
MCSchedules ==
  {[t \in Tasks |-> CASE t = r -> At(s, d) [] t = a -> At(2, 0)
                      [] t = b -> At(3, 2) [] t = c -> At(5, 1)] :
     <<s, d>> \in {<<4, -1>>, <<4, 3>>, <<0, 1>>}}
=============================================================================
