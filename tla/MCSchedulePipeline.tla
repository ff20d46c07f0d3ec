------------------------- MODULE MCSchedulePipeline -------------------------
(* Instances of SchedulePipeline for TLC.                                  *)
EXTENDS SchedulePipeline, TLC

CONSTANTS a, b, c, z, w1, w2

MCSymmetry == Permutations(Workers)

At(s, k) == [start |-> s, finish |-> s + k]
FS(k) == [type |-> "FS", lag |-> k]

(* a before b before c.                                                    *)
Chain == [e \in {<<a, b>>, <<b, c>>} |-> FS(0)]
ChainDates == [t \in Tasks |-> CASE t = a -> At(0, 1) [] t = b -> At(1, 1) [] OTHER -> At(2, 0)]

MCGraphs == {Chain}
MCSchedules == {ChainDates}
MCTimes == 0 .. 3
MCMoves == {At(0, 1), At(2, 1)}

(* c is a part of a.                                                       *)
MCParents == {<<a, c>>}

(* A link that closes a cycle, one that jumps ahead, and one to the task   *)
(* that is created.                                                        *)
MCLinks == {<<<<c, a>>, FS(0)>>, <<<<a, c>>, FS(2)>>, <<<<c, z>>, FS(0)>>}

MovedOnly == {"rebalance", "crash"}
DatabaseOnly == {"database"}
NoLinks == {}

(* a before b.                                                             *)
Pair == [e \in {<<a, b>>} |-> FS(0)]
PairDates == [t \in Tasks |-> CASE t = a -> At(0, 1) [] OTHER -> At(1, 1)]
PairGraphs == {Pair}
PairSchedules == {PairDates}
PairMoves == {At(2, 1)}
PairTimes == 0 .. 3
=============================================================================
