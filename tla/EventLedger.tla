---------------------------- MODULE EventLedger -----------------------------
(***************************************************************************)
(* What the pipeline promises of the moves it is told about, whatever is   *)
(* redelivered, lost or restarted on the way: the moves of a project are   *)
(* dealt with in the order they were made, none is skipped, each takes     *)
(* effect and is announced at most once, and every one is dealt with in    *)
(* the end.  Dealt with means applied, or set aside in the dead-letter     *)
(* topic, or both.                                                         *)
(***************************************************************************)
EXTENDS Naturals, Sequences

CONSTANT MaxMoves   \* bound on the moves recorded

VARIABLES
  recorded,   \* how many moves have been recorded; they are 1 .. recorded
  applied,    \* the moves whose cascade has taken effect
  abandoned,  \* the moves set aside
  announced   \* the applied moves announced as changes of the project, in order

vars == <<recorded, applied, abandoned, announced>>

Settled == applied \cup abandoned

Init ==
  /\ recorded = 0
  /\ applied = {}
  /\ abandoned = {}
  /\ announced = <<>>

Record ==
  /\ recorded < MaxMoves
  /\ recorded' = recorded + 1
  /\ UNCHANGED <<applied, abandoned, announced>>

(* Nothing recorded before e is left undecided.                            *)
Due(e) == \A f \in 1 .. e - 1 : f \in Settled

Apply(e) ==
  /\ Due(e)
  /\ e \notin applied
  /\ applied' = applied \cup {e}
  /\ announced' = announced \/ announced' = Append(announced, e)
  /\ UNCHANGED <<recorded, abandoned>>

Abandon(e) ==
  /\ Due(e)
  /\ abandoned' = abandoned \cup {e}
  /\ UNCHANGED <<recorded, applied, announced>>

Next == Record \/ \E e \in 1 .. recorded : Apply(e) \/ Abandon(e)

Safety == Init /\ [][Next]_vars

(* Every recorded move is dealt with in the end.                           *)
Decided == \A e \in 1 .. MaxMoves : recorded >= e ~> e \in Settled

Spec == Safety /\ Decided
=============================================================================
