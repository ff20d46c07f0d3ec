------------------------------ MODULE LiveRoom ------------------------------
(***************************************************************************)
(* The room of ProjectRoom with the pipeline on: the worker commits what a *)
(* move does to the tasks after it, the record of that reaches             *)
(* project.changed, FanOut publishes it on Redis, _redis_subscriber of the *)
(* api process takes it from there and push_local sends it, under its      *)
(* Kafka offset, to the sockets of the room, beside the events that        *)
(* broadcast numbers with the counter of the process.                      *)
(***************************************************************************)
EXTENDS ProjectRoom

CONSTANTS
  Cascades,     \* the records of this project
  Elsewhere,    \* the records of other projects in the same partition
  MaxRecords,   \* bound on the length of the partition
  MaxStops,     \* bound on how often ws-fanout stops
  MaxTroubles   \* bound on the faults, of whatever kind

ASSUME LiveAssumption ==
  /\ Cascades \cap (Changes \cup Elsewhere) = {}
  /\ MaxTroubles \in Nat

VARIABLES
  (* FanOut *)
  topic, committed, position, held, sent, stops, heard,
  (* _redis_subscriber *)
  linked,      \* it is subscribed to Redis
  inbox,       \* the offsets published and not yet taken, in order
  pushing,     \* the offset of the event that push_local is sending, or None
  targets,     \* the sockets it has still to send it to
  failed,      \* those it could not send to
  (* budget *)
  troubles,    \* the faults there have been
  (* history, read by no action's guard *)
  told,        \* the cascades sent to the viewer and not lost on its socket
  ignored,     \* the events it has ignored for their seq
  crossed      \* the cursor has been moved by an event of the pipeline
               \* since its last Gantt

F == INSTANCE FanOut WITH Records <- Cascades \cup Elsewhere

stream == <<topic, committed, position, held, sent, stops, heard>>
subscriber == <<linked, inbox, pushing, targets, failed>>
heardOf == <<told, ignored, crossed>>
live == <<vars, stream, subscriber, troubles, heardOf>>

None == F!None
RecordAt(o) == topic[o + 1]

LiveInit ==
  /\ Init
  /\ F!Init
  /\ linked = FALSE /\ inbox = <<>> /\ troubles = 0
  /\ pushing = None /\ targets = {} /\ failed = {}
  /\ told = {} /\ ignored = {} /\ crossed = FALSE

-----------------------------------------------------------------------------
(* The worker commits the new dates and the row of the outbox in one       *)
(* transaction.                                                            *)
CascadeCommits(k) ==
  /\ k \notin stored
  /\ stored' = stored \cup {k}
  /\ UNCHANGED <<seq, room, requests, connection, viewer, visits, restarts, history, stream,
                 subscriber, troubles, heardOf>>

(* Debezium reads the rows that are committed.  The first form is a slip:  *)
(* the worker sends the record itself, before it commits.                  *)
DualWrite(k) == TRUE
Committed(k) == k \in stored \cup Elsewhere

Relay(k) ==
  /\ Committed(k)
  /\ F!Produce(k)
  /\ UNCHANGED <<vars, subscriber, troubles, heardOf>>

(* ws-fanout.  Redis hands what is published to whoever is subscribed at   *)
(* that moment.                                                            *)
Quietly == F!Join \/ F!Poll \/ F!Commit

FanOutStep ==
  /\ \/ Quietly /\ UNCHANGED inbox
     \/ F!Publish /\ inbox' = (IF linked THEN Append(inbox, held) ELSE inbox)
  /\ UNCHANGED <<vars, linked, pushing, targets, failed, troubles, heardOf>>

Trouble == troubles < MaxTroubles /\ troubles' = troubles + 1

FanOutStops == Trouble /\ F!Stop /\ UNCHANGED <<vars, subscriber, heardOf>>

-----------------------------------------------------------------------------
(* _redis_subscriber                                                       *)

(* psubscribe, at the start and two seconds after an error.                *)
Link ==
  /\ ~ linked
  /\ pushing = None
  /\ linked' = TRUE
  /\ UNCHANGED <<vars, stream, inbox, pushing, targets, failed, troubles, heardOf>>

(* The connection is lost with what it holds.                              *)
Unlink ==
  /\ Trouble
  /\ linked
  /\ linked' = FALSE
  /\ inbox' = <<>>
  /\ UNCHANGED <<vars, stream, pushing, targets, failed, heardOf>>

(* get_message, and push_local copies the room of the project.  The first  *)
(* form is a slip: the room is looked up under another key, and is empty.  *)
NobodyYet(o) == {}
RoomOf(o) == IF RecordAt(o) \in Cascades THEN room ELSE {}

TakeMessage ==
  /\ pushing = None
  /\ inbox # <<>>
  /\ inbox' = Tail(inbox)
  /\ targets' = RoomOf(Head(inbox))
  /\ pushing' = IF targets' = {} THEN None ELSE Head(inbox)
  /\ UNCHANGED <<vars, stream, linked, failed, troubles, heardOf>>

(* One send of push_local; after the last one the sockets it could not     *)
(* send to leave the room.                                                 *)
PushTo(s) ==
  /\ s \in targets
  /\ targets' = targets \ {s}
  /\ LET k == RecordAt(pushing)
     IN  IF Connected(s)
         THEN /\ wire' = Append(wire, [seq |-> pushing, about |-> {k}])
              /\ told' = told \cup {k}
              /\ UNCHANGED failed
         ELSE /\ \E f \in {{}, {s}} : failed' = failed \cup f
              /\ UNCHANGED <<wire, told>>
  /\ IF targets' = {}
     THEN room' = room \ failed' /\ pushing' = None
     ELSE UNCHANGED <<room, pushing>>
  /\ UNCHANGED <<stored, seq, requests, socket, open, viewer, visits, restarts, history, stream,
                 linked, inbox, troubles, ignored, crossed>>

Subscriber == Link \/ TakeMessage \/ \E s \in Sockets : PushTo(s)

-----------------------------------------------------------------------------
(* What ProjectRoom does goes on as it was.                                *)
OnTheWire == UNION {wire[i].about : i \in DOMAIN wire}

RoomStep ==
  /\ \/ (\E c \in Changes : Announce(c) \/ Request(c)) /\ UNCHANGED heardOf
     \/ (Endpoint \/ Connect \/ Unsubscribe \/ Fetch \/ ReadTasks) /\ UNCHANGED heardOf
     \/ Answer /\ crossed' = FALSE /\ UNCHANGED <<told, ignored>>
     \/ Ignore /\ ignored' = ignored \cup received.about /\ UNCHANGED <<told, crossed>>
     \/ Apply /\ crossed' = (crossed \/ received.about \subseteq Cascades)
              /\ UNCHANGED <<told, ignored>>
     \/ Gap /\ UNCHANGED heardOf
  /\ UNCHANGED <<stream, subscriber, troubles>>

SocketDrops ==
  /\ Trouble
  /\ Drop
  /\ told' = told \ OnTheWire
  /\ UNCHANGED <<stream, subscriber, ignored, crossed>>

(* The api restarts, and its subscriber with it.                           *)
ApiRestarts ==
  /\ Trouble
  /\ Restart
  /\ linked' = FALSE
  /\ inbox' = <<>>
  /\ pushing' = None
  /\ targets' = {}
  /\ failed' = {}
  /\ told' = told \ OnTheWire
  /\ UNCHANGED <<stream, ignored, crossed>>

LiveIdle == Idle /\ UNCHANGED live

LiveNext ==
  \/ \E k \in Cascades : CascadeCommits(k)
  \/ \E k \in Cascades \cup Elsewhere : Relay(k)
  \/ FanOutStep
  \/ FanOutStops
  \/ Subscriber
  \/ Unlink
  \/ RoomStep
  \/ SocketDrops
  \/ ApiRestarts
  \/ LiveIdle

(* ws-fanout is started again whenever it stops, the subscriber reconnects *)
(* whenever it loses Redis, and both loops run.                            *)
LiveSpec ==
  /\ LiveInit /\ [][LiveNext]_live
  /\ WF_stream(F!Loop)
  /\ WF_live(Subscriber)

-----------------------------------------------------------------------------
(* Properties                                                              *)

All == Changes \cup Cascades

(* Each variable has its type; nothing is left of a push that has ended.   *)
LiveTypeOK ==
  /\ F!TypeOK
  /\ stored \subseteq All /\ view \subseteq All /\ snapshot \subseteq All
  /\ raced \subseteq All
  /\ wire \in Seq([seq : Nat, about : SUBSET All])
  /\ linked \in BOOLEAN /\ inbox \in Seq(F!Offsets) /\ troubles \in 0 .. MaxTroubles
  /\ pushing \in {None} \cup F!Offsets
  /\ targets \subseteq Sockets /\ failed \subseteq Sockets
  /\ pushing = None <=> targets = {}
  /\ told \subseteq Cascades /\ ignored \subseteq All /\ crossed \in BOOLEAN

(* The cascade a viewer has been told of is on show when all is quiet, or  *)
(* was ignored for its seq: the record reaches it only after the change is *)
(* committed, so the Gantt that it fetches upon a gap has the change       *)
(* (models.py:321-323, api/src/main.py:76-83, ws.py:46-59).                *)
ToldIsShown == Quiet => told \subseteq view \cup ignored

(* As long as no event of the pipeline has moved its cursor, the viewer    *)
(* misses no request for all that the pipeline sends beside them, but      *)
(* those that ProjectRoom excuses (ws.py:46-78).                           *)
MissesNoRequest ==
  Quiet /\ ~ outdated /\ ~ crossed =>
    (stored \cap Changes) \ view \subseteq raced \cup Reschedules

(* FanOut keeps its promise here too.                                      *)
StreamKept == F!StreamKept

Waiting(k) ==
  committed # None /\ \E o \in F!Offsets \ heard : RecordAt(o) = k /\ \A h \in heard : h < o
Listening == open /\ socket \in room /\ linked

(* A cascade that is not yet published is told to every viewer that        *)
(* listens: neither a stop of ws-fanout nor what it has to send before     *)
(* keeps it from the socket (ws_fanout/src/main.py:41-58, api/src/main.py: *)
(* 69-83).  A viewer or a link that goes away meanwhile excuses it.        *)
ReachesTheViewer ==
  \A k \in Cascades : (Waiting(k) /\ Listening) ~> (k \in told \/ ~ Listening)
=============================================================================
