-------------------------- MODULE MCInlineCascade ---------------------------
(* Instances of InlineCascade for TLC.                                     *)
EXTENDS InlineCascade, TLC

CONSTANTS a, b, c, z, r1, r2

MCSymmetry == Permutations(Requests)

At(s, n) == [start |-> s, finish |-> s + n]
FS == [type |-> "FS", lag |-> 0]

(* a before b before c; the same with the cycle add_predecessor does not   *)
(* refuse; and a and b both before c.                                      *)
Chain == [e \in {<<a, b>>, <<b, c>>} |-> FS]
Ring == [e \in {<<a, b>>, <<b, c>>, <<c, b>>} |-> FS]
Join == [e \in {<<a, c>>, <<b, c>>} |-> FS]

Dates == [t \in Tasks |-> CASE t = a -> At(0, 1) [] t = b -> At(1, 1)
                            [] t = c -> At(2, 0) [] OTHER -> At(1, 1)]

(* b is a part of c.  A dependency past b, one that closes a cycle of the  *)
(* chain, and one upon a task that is created first.                       *)
MCParents == {<<c, b>>}
MCLinks == {<<a, c>>, <<c, a>>, <<z, b>>} \X {FS}

MCGraphs == {Chain, Ring, Join}
JoinOnly == {Join}
MCSchedules == {Dates}
MCTimes == 0 .. 3
MCMoves == {At(0, 1), At(1, 1)}

(* The last task of the chain was created first, so a flush updates it     *)
(* before the others and can deadlock with a request that moves b.         *)
MCKey == [t \in Tasks |-> CASE t = c -> 1 [] t = b -> 2 [] t = a -> 3 [] OTHER -> 4]
=============================================================================
