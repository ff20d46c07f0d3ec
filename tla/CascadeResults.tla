--------------------------- MODULE CascadeResults ---------------------------
(***************************************************************************)
(* A call of cascade() as its callers see it, in one step: the schedules   *)
(* it may return and when it raises.  What the call itself does is module  *)
(* Cascade, which is proved to return only such a schedule.                *)
(***************************************************************************)
EXTENDS CascadeInputs

CONSTANT Times   \* the starts a date may have; the code's datetime range

ASSUME TimesAssumption == Times \subseteq Int

(* The dates m with the tasks of the domain of s slid to start there.      *)
SlidTo(m, s) ==
  [t \in DOMAIN m |-> IF t \in DOMAIN s
                      THEN [start |-> s[t], finish |-> s[t] + duration(m, t)]
                      ELSE m[t]]

(* The schedules a cascade from r over D may make of the dates m.          *)
Results(D, m, r) ==
  LET affected == Downstream(DOMAIN D, r)
  IN  {n \in {SlidTo(m, s) : s \in [affected -> Times]} : Tightens(D, m, n, affected)}

(* DependencyCycleError, or OverflowError when a date falls outside the    *)
(* range of datetime.                                                      *)
Raises(D, m, r) == Cyclic(DOMAIN D, Downstream(DOMAIN D, r)) \/ Results(D, m, r) = {}

(* The part of the dependencies D whose two ends are in S.                 *)
Among(D, S) == [e \in DOMAIN D \cap (S \X S) |-> D[e]]

(* The entries of the schedule n that differ from the dates m.             *)
Changed(n, m) == [t \in {t \in DOMAIN n : n[t] # m[t]} |-> n[t]]
=============================================================================
