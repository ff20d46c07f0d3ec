------------------------------- MODULE FanOut -------------------------------
(***************************************************************************)
(* services/ws_fanout/src/main.py: the loop that reads one partition of    *)
(* project.changed and publishes what it reads on Redis.  It publishes     *)
(* first and commits the offset afterwards, without waiting for the        *)
(* answer; it stops when Redis refuses, and whoever supervises it starts   *)
(* it again.  Kafka is external: a group that has committed no offset is   *)
(* given the end of the partition (auto.offset.reset: latest).             *)
(***************************************************************************)
EXTENDS Integers, Sequences

CONSTANTS
  Records,      \* what Debezium writes to the topic
  MaxRecords,   \* bound on the length of the partition
  MaxStops      \* bound on how often the process stops

VARIABLES
  topic,       \* the partition; the record of offset o is topic[o + 1]
  committed,   \* the offset to resume at that the group has committed, or None
  position,    \* the offset to be polled next, None while it has no partition
  held,        \* the offset of msg, or None
  sent,        \* msg has been published
  stops,
  heard        \* history: the offsets that have been published

vars == <<topic, committed, position, held, sent, stops, heard>>

None == -1

Init ==
  /\ topic = <<>>
  /\ committed = None
  /\ position = None
  /\ held = None
  /\ sent = FALSE
  /\ stops = 0
  /\ heard = {}

(* Debezium writes a row of the outbox, at least once.                     *)
Produce(k) ==
  /\ Len(topic) < MaxRecords
  /\ topic' = Append(topic, k)
  /\ UNCHANGED <<committed, position, held, sent, stops, heard>>

(* subscribe, and the partition is assigned.                               *)
Join ==
  /\ position = None
  /\ position' = IF committed = None THEN Len(topic) ELSE committed
  /\ UNCHANGED <<topic, committed, held, sent, stops, heard>>

(* enable.auto.commit is off.  The first form is a slip: it is on, and     *)
(* polling commits.                                                        *)
AutoCommit == committed' = position + 1
ManualCommit == committed' = committed

Poll ==
  /\ position # None
  /\ held = None
  /\ position < Len(topic)
  /\ held' = position
  /\ position' = position + 1
  /\ ManualCommit
  /\ UNCHANGED <<topic, sent, stops, heard>>

Publish ==
  /\ held # None
  /\ ~ sent
  /\ sent' = TRUE
  /\ heard' = heard \cup {held}
  /\ UNCHANGED <<topic, committed, position, held, stops>>

(* consumer.commit(msg) commits the offset after that of msg.  The first   *)
(* form is a slip: one too many.                                           *)
OneTooMany == held + 2
NextOffset == held + 1

(* It returns at once, and may never reach the broker.                     *)
Commit ==
  /\ held # None
  /\ sent
  /\ committed' \in {committed, NextOffset}
  /\ held' = None
  /\ sent' = FALSE
  /\ UNCHANGED <<topic, position, stops, heard>>

(* The process stops, at any await or because publish has raised.          *)
Stop ==
  /\ position # None
  /\ stops < MaxStops
  /\ stops' = stops + 1
  /\ position' = None
  /\ held' = None
  /\ sent' = FALSE
  /\ UNCHANGED <<topic, committed, heard>>

Loop == Join \/ Poll \/ Publish \/ Commit

Next == (\E k \in Records : Produce(k)) \/ Loop \/ Stop

Spec == Init /\ [][Next]_vars /\ WF_vars(Loop)

-----------------------------------------------------------------------------
(* The records are published in order, and none is left out once an offset *)
(* has been committed, although the process stops between publishing and   *)
(* committing and although a commit may be lost (ws_fanout/src/main.py:    *)
(* 41-58).                                                                 *)
Stream == INSTANCE RecordStream
            WITH produced <- Len(topic), settled <- committed # None

StreamKept == Stream!Spec

-----------------------------------------------------------------------------
Offsets == 0 .. Len(topic) - 1

(* Each variable has its type, and a message that is held is the last one  *)
(* that was polled.                                                        *)
TypeOK ==
  /\ topic \in Seq(Records)
  /\ committed \in {None} \cup 0 .. Len(topic)
  /\ position \in {None} \cup 0 .. Len(topic)
  /\ held \in {None} \cup Offsets
  /\ held # None => position = held + 1
  /\ sent \in BOOLEAN
  /\ sent => held # None
  /\ stops \in Nat
  /\ heard \subseteq Offsets

(* What is published next: the message held, or the one to be polled.      *)
Upcoming == IF held = None THEN position ELSE held

(* While no offset has been committed it publishes what nobody has heard.  *)
FreshWhileUnsettled ==
  committed = None /\ position # None =>
     \A h \in heard : h < Upcoming \/ (sent /\ h = held)

(* Between the committed offset and the last one published no record is    *)
(* missing, and the one before is published.                               *)
NoGap ==
  committed # None =>
    /\ committed - 1 \in heard
    /\ \A h \in heard : committed .. h \subseteq heard

(* It never polls past a record that has not been published.               *)
NeverAhead ==
  /\ committed # None /\ position # None =>
       /\ committed <= Upcoming
       /\ Upcoming - 1 \in heard
  /\ sent => held \in heard

StreamInv == TypeOK /\ FreshWhileUnsettled /\ NoGap /\ NeverAhead
=============================================================================
