--------------------------- MODULE MCProjectRoom ----------------------------
(* Instances of ProjectRoom for TLC: c1 and c2 tell all they change, m is  *)
(* a call of reschedule_task.                                              *)
EXTENDS ProjectRoom

CONSTANTS c1, c2, m
=============================================================================
