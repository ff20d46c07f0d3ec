---------------------------- MODULE RecordStream ----------------------------
(***************************************************************************)
(* What ws-fanout promises of one partition of project.changed, whatever   *)
(* it loses or repeats when it stops: the records are published in their   *)
(* order, and once it has settled on a place in the partition none is left *)
(* out.  A record that is published again is no news.  Until then it       *)
(* starts, every time, with what is produced from then on.                 *)
(***************************************************************************)
EXTENDS Integers

VARIABLES
  produced,   \* how many records there are; their offsets count from 0
  heard,      \* the offsets that have been published
  settled     \* a restart goes on from where it was

vars == <<produced, heard, settled>>

Init ==
  /\ produced = 0
  /\ heard = {}
  /\ settled = FALSE

Produce ==
  /\ produced' = produced + 1
  /\ UNCHANGED <<heard, settled>>

Publish(o) ==
  /\ \A h \in heard : h < o
  /\ settled => o - 1 \in heard
  /\ heard' = heard \cup {o}
  /\ UNCHANGED <<produced, settled>>

Settle ==
  /\ heard # {}
  /\ settled' = TRUE
  /\ UNCHANGED <<produced, heard>>

Next == Produce \/ (\E o \in 0 .. produced - 1 : Publish(o)) \/ Settle

Spec == Init /\ [][Next]_vars
=============================================================================
