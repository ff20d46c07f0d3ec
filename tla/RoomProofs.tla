----------------------------- MODULE RoomProofs ------------------------------
(* Theorems about a viewer of ProjectRoom, for any requests and bounds:    *)
(* its cursor passes over no event, and when all is quiet it misses only   *)
(* what raced with its last Gantt.                                         *)
EXTENDS ProjectRoom, TLAPS

USE DEF requests, connection, viewer, history

-----------------------------------------------------------------------------
(* Types                                                                   *)

LEMMA InitType == Init => TypeOK
<1> SUFFICES ASSUME Init PROVE TypeOK
  OBVIOUS
<1>1. wire \in Seq(Message)
  BY DEF Init
<1>2. /\ stage \in [Changes -> {"none", "sending", "committed", "failed"}]
      /\ number \in [Changes -> Nat]
      /\ pending \in [Changes -> SUBSET Sockets] /\ dead \in [Changes -> SUBSET Sockets]
      /\ \A c \in Changes : pending[c] = {} /\ dead[c] = {}
  BY DEF Init
<1>3. seq \in Nat /\ socket \in 0 .. MaxSockets /\ cursor \in Nat /\ base \in Nat
  BY RoomAssumption DEF Init
<1>4. visits \in 0 .. MaxVisits /\ restarts \in 0 .. MaxRestarts
  BY RoomAssumption DEF Init
<1>5. /\ stored = {} /\ room = {} /\ view = {} /\ snapshot = {} /\ raced = {} /\ fetch = "none"
      /\ open = FALSE /\ shown = FALSE /\ stale = FALSE /\ outdated = FALSE
  BY DEF Init
<1> QED  BY <1>1, <1>2, <1>3, <1>4, <1>5 DEF TypeOK

LEMMA AnnounceType ==
  ASSUME TypeOK, NEW c \in Changes, Announce(c)
  PROVE  TypeOK'
<1>1. room \subseteq Sockets
  BY RoomAssumption DEF TypeOK, Sockets
<1>2. pending' \in [Changes -> SUBSET Sockets] /\ number' \in [Changes -> Nat] /\ seq' \in Nat
  BY <1>1 DEF TypeOK, Announce, NextSeq
<1>3. stage' \in [Changes -> {"none", "sending", "committed", "failed"}]
  BY DEF TypeOK, Announce
<1>4. \A d \in Changes : stage'[d] # "sending" => pending'[d] = {} /\ dead'[d] = {}
  BY DEF TypeOK, Announce
<1> QED  BY <1>2, <1>3, <1>4 DEF TypeOK, Announce

LEMMA SendType ==
  ASSUME TypeOK, NEW c \in Changes, NEW s \in Sockets, Send(c, s)
  PROVE  TypeOK'
<1>1. pending' \in [Changes -> SUBSET Sockets] /\ dead' \in [Changes -> SUBSET Sockets]
  BY DEF TypeOK, Send
<1>2. wire' \in Seq(Message)
  <2>1. [seq |-> number[c], about |-> {c}] \in Message
    BY DEF TypeOK, Message
  <2>2. wire \in Seq(Message)
    BY DEF TypeOK
  <2>3. wire' = wire \/ wire' = Append(wire, [seq |-> number[c], about |-> {c}])
    BY DEF Send
  <2> QED  BY <2>1, <2>2, <2>3
<1>3. stage[c] = "sending"
  BY DEF TypeOK, Send
<1>4. \A d \in Changes : stage'[d] # "sending" => pending'[d] = {} /\ dead'[d] = {}
  BY <1>3 DEF TypeOK, Send
<1>5. room' \subseteq 1 .. socket
  BY DEF TypeOK, Send
<1> QED  BY <1>1, <1>2, <1>4, <1>5 DEF TypeOK, Send

LEMMA EndsType ==
  ASSUME TypeOK, NEW c \in Changes, NEW how \in {"committed", "failed"}, Ends(c, how),
         stored' \subseteq Changes
  PROVE  TypeOK'
<1>1. /\ stage' \in [Changes -> {"none", "sending", "committed", "failed"}]
      /\ dead' \in [Changes -> SUBSET Sockets]
      /\ \A d \in Changes : stage'[d] # "sending" => pending'[d] = {} /\ dead'[d] = {}
  BY DEF TypeOK, Ends, Awaited
<1> QED  BY <1>1 DEF TypeOK, Ends

(* The endpoint and the connection: what a room or a wire may hold.        *)
LEMMA SocketType ==
  ASSUME TypeOK, open => socket # 0, Endpoint \/ Connect \/ Unsubscribe \/ Drop
  PROVE  TypeOK'
<1>1. CASE Subscribe
  <2>1. Ack \in Message
    BY DEF Ack, Message, TypeOK
  <2>2. room' \subseteq 1 .. socket
    BY <1>1 DEF TypeOK, Subscribe, Sockets
  <2>3. wire' \in Seq(Message) /\ visits' \in 0 .. MaxVisits
    BY <1>1, <2>1, RoomAssumption DEF TypeOK, Subscribe
  <2> QED  BY <1>1, <2>2, <2>3 DEF TypeOK, Subscribe
<1>2. ASSUME NEW s \in Sockets, Disconnect(s) PROVE TypeOK'
  BY <1>2 DEF TypeOK, Disconnect
<1>3. CASE Connect
  <2>1. socket' \in 0 .. MaxSockets /\ room \subseteq 1 .. socket' /\ wire' \in Seq(Message)
    BY <1>3, RoomAssumption DEF TypeOK, Connect
  <2> QED  BY <1>3, <2>1 DEF TypeOK, Connect
<1>4. CASE Unsubscribe
  BY <1>4 DEF TypeOK, Unsubscribe
<1>5. CASE Drop
  <2>1. wire' \in Seq(Message)
    BY <1>5 DEF Drop
  <2> QED  BY <1>5, <2>1 DEF TypeOK, Drop
<1> QED  BY <1>1, <1>2, <1>3, <1>4, <1>5 DEF Endpoint

LEMMA ViewerType ==
  ASSUME TypeOK, Gantt \/ Listen
  PROVE  TypeOK'
<1>1. CASE Gantt
  BY <1>1 DEF TypeOK, Gantt, Fetch, ReadTasks, Answer, CurrentSeq
<1>2. CASE Listen
  <2>1. wire # <<>> /\ wire' = Tail(wire)
    BY <1>2 DEF Listen, Ignore, Apply, Gap, Receive
  <2>2. wire' \in Seq(Message) /\ received \in Message
    BY <2>1 DEF TypeOK, received
  <2>3. received.about \subseteq Changes
    BY <2>2 DEF Message
  <2>4. view' \subseteq Changes /\ cursor' \in Nat /\ stale' \in BOOLEAN
    <3>1. CASE Ignore
      BY <3>1 DEF TypeOK, Ignore
    <3>2. CASE Apply
      BY <2>3, <3>2 DEF TypeOK, Apply
    <3>3. CASE Gap
      BY <3>3 DEF TypeOK, Gap
    <3> QED  BY <1>2, <3>1, <3>2, <3>3 DEF Listen
  <2> QED
    BY <1>2, <2>2, <2>4 DEF TypeOK, Listen, Ignore, Apply, Gap, Receive
<1> QED  BY <1>1, <1>2

LEMMA RestartType ==
  ASSUME TypeOK, Restart
  PROVE  TypeOK'
<1>1. /\ stage' \in [Changes -> {"none", "sending", "committed", "failed"}]
      /\ number' \in [Changes -> Nat]
      /\ pending' \in [Changes -> SUBSET Sockets] /\ dead' \in [Changes -> SUBSET Sockets]
      /\ \A c \in Changes : pending'[c] = {} /\ dead'[c] = {}
  BY DEF TypeOK, Restart
<1>2. restarts' \in 0 .. MaxRestarts /\ wire' \in Seq(Message)
  BY RoomAssumption DEF TypeOK, Restart
<1> QED  BY <1>1, <1>2 DEF TypeOK, Restart

-----------------------------------------------------------------------------
(* The invariant                                                           *)

(* A number is given out once, and never runs ahead of the counter.        *)
NumbersUnique ==
  /\ \A c \in Changes : /\ number[c] <= seq
                        /\ stage[c] = "none" => number[c] = 0
                        /\ stage[c] = "sending" => number[c] # 0
  /\ \A c, d \in Changes : number[c] = number[d] /\ number[c] # 0 => c = d

(* A message is an acknowledgement, or tells of one change under the       *)
(* number it was given.                                                    *)
WireNumbered ==
  \A i \in DOMAIN wire :
    \/ wire[i].about = {}
    \/ \E c \in Changes : wire[i].about = {c} /\ number[c] = wire[i].seq /\ number[c] # 0

(* Within the life of one api process, a viewer is never ahead of it.      *)
CursorBehind == shown /\ ~ outdated => cursor <= seq

(* The viewer has a connection only after it has opened one.               *)
OpenedOne == open => socket # 0

Counted == TypeOK /\ NumbersUnique /\ WireNumbered /\ CursorBehind /\ NonePassedOver

IInv == OpenedOne /\ Counted

LEMMA InitIInv == Init => IInv
<1> SUFFICES ASSUME Init PROVE IInv
  OBVIOUS
<1>1. OpenedOne /\ NumbersUnique /\ WireNumbered /\ CursorBehind /\ NonePassedOver
  BY DEF Init, OpenedOne, NumbersUnique, WireNumbered, CursorBehind, NonePassedOver
<1> QED  BY <1>1, InitType DEF IInv, Counted

LEMMA NextOpenedOne == TypeOK /\ OpenedOne /\ [Next]_vars => OpenedOne'
<1> SUFFICES ASSUME TypeOK, OpenedOne, [Next]_vars PROVE OpenedOne'
  OBVIOUS
<1>1. \/ UNCHANGED <<open, socket>>
      \/ open' = FALSE
      \/ socket' = socket + 1
  <2>1. ASSUME NEW c \in Changes, Announce(c) \/ Request(c)
        PROVE  UNCHANGED <<open, socket>>
    BY <2>1 DEF Announce, Request, Send, Commit, Rollback, Ends
  <2>2. CASE Endpoint \/ Gantt \/ Listen \/ Unsubscribe
    BY <2>2 DEF Endpoint, Subscribe, Disconnect, Gantt, Fetch, ReadTasks, Answer, Listen, Ignore,
                Apply, Gap, Receive, Unsubscribe
  <2>3. CASE Connect
    BY <2>3 DEF Connect
  <2>4. CASE Drop \/ Restart
    BY <2>4 DEF Drop, Restart
  <2>5. CASE UNCHANGED vars
    BY <2>5 DEF vars
  <2> QED  BY <2>1, <2>2, <2>3, <2>4, <2>5 DEF Next, Idle
<1>2. socket \in Nat
  BY DEF TypeOK
<1>3. socket' = socket + 1 => socket' # 0
  BY <1>2
<1> QED  BY <1>1, <1>3, Zenon DEF OpenedOne

LEMMA AnnounceCounted ==
  ASSUME IInv, NEW c \in Changes, Announce(c)
  PROVE  Counted'
<1>1. /\ seq' = seq + 1 /\ number'[c] = seq + 1 /\ stage'[c] = "sending" /\ number[c] = 0
      /\ \A d \in Changes \ {c} : number'[d] = number[d] /\ stage'[d] = stage[d]
  BY DEF IInv, Counted, TypeOK, NumbersUnique, Announce, NextSeq
<1>2. seq \in Nat /\ \A d \in Changes : number[d] \in Nat /\ number[d] <= seq
  BY DEF IInv, Counted, TypeOK, NumbersUnique
<1>3. NumbersUnique'
  BY <1>1, <1>2 DEF IInv, Counted, NumbersUnique
<1>4. WireNumbered'
  BY <1>1 DEF IInv, Counted, WireNumbered, Announce
<1>5. UNCHANGED <<shown, outdated, cursor, base, view>> /\ cursor \in Nat /\ base \in Nat
  BY DEF Announce, IInv, Counted, TypeOK
<1>6. CursorBehind'
  BY <1>1, <1>2, <1>5 DEF IInv, Counted, CursorBehind
<1>7. NonePassedOver'
  BY <1>1, <1>2, <1>5 DEF IInv, Counted, CursorBehind, NonePassedOver
<1> QED  BY <1>3, <1>4, <1>6, <1>7, AnnounceType DEF IInv, Counted

LEMMA SendCounted ==
  ASSUME IInv, NEW c \in Changes, NEW s \in Sockets, Send(c, s)
  PROVE  Counted'
<1>1. number[c] # 0
  BY DEF IInv, Counted, TypeOK, NumbersUnique, Send
<1>2. WireNumbered'
  <2>1. CASE UNCHANGED wire
    BY <2>1 DEF IInv, Counted, WireNumbered, Send
  <2>2. CASE wire' = Append(wire, [seq |-> number[c], about |-> {c}])
    <3>1. Len(wire') = Len(wire) + 1 /\ Len(wire) \in Nat /\ DOMAIN wire' = 1 .. Len(wire) + 1
      BY <2>2 DEF IInv, Counted, TypeOK
    <3>2. ASSUME NEW i \in DOMAIN wire'
          PROVE  \/ wire'[i].about = {}
                 \/ \E d \in Changes : wire'[i].about = {d} /\ number[d] = wire'[i].seq /\ number[d] # 0
      <4>1. CASE i = Len(wire) + 1
        <5>1. wire'[i] = [seq |-> number[c], about |-> {c}]
          BY <2>2, <4>1 DEF IInv, Counted, TypeOK
        <5> QED  BY <1>1, <5>1
      <4>2. CASE i # Len(wire) + 1
        <5>1. i \in DOMAIN wire /\ wire'[i] = wire[i]
          BY <2>2, <3>1, <4>2 DEF IInv, Counted, TypeOK
        <5> QED  BY <5>1 DEF IInv, Counted, WireNumbered
      <4> QED  BY <4>1, <4>2
    <3>3. UNCHANGED number
      BY DEF Send
    <3> QED  BY <3>2, <3>3 DEF WireNumbered
  <2> QED  BY <2>1, <2>2 DEF Send
<1>3. NumbersUnique' /\ CursorBehind' /\ NonePassedOver'
  BY DEF IInv, Counted, NumbersUnique, CursorBehind, NonePassedOver, Send
<1> QED  BY <1>2, <1>3, SendType DEF IInv, Counted

LEMMA EndsCounted ==
  ASSUME IInv, NEW c \in Changes, Commit(c) \/ Rollback(c)
  PROVE  Counted'
<1>1. PICK how \in {"committed", "failed"} : Ends(c, how)
  BY DEF Commit, Rollback
<1>2. stored' \subseteq Changes
  BY DEF IInv, Counted, TypeOK, Commit, Rollback
<1>3. NumbersUnique'
  BY <1>1 DEF IInv, Counted, TypeOK, NumbersUnique, Ends
<1>4. WireNumbered' /\ CursorBehind' /\ NonePassedOver'
  BY <1>1 DEF IInv, Counted, WireNumbered, CursorBehind, NonePassedOver, Ends
<1> QED  BY <1>1, <1>2, <1>3, <1>4, EndsType DEF IInv, Counted

LEMMA SocketCounted ==
  ASSUME IInv, Endpoint \/ Connect \/ Unsubscribe \/ Drop
  PROVE  Counted'
<1>1. UNCHANGED <<seq, number, stage, outdated, cursor, base, view>> /\ (shown' => shown)
  BY DEF Endpoint, Subscribe, Disconnect, Connect, Unsubscribe, Drop
<1>2. NumbersUnique' /\ CursorBehind' /\ NonePassedOver'
  BY <1>1 DEF IInv, Counted, NumbersUnique, CursorBehind, NonePassedOver
<1>3. WireNumbered'
  <2>1. CASE Subscribe
    <3>1. Len(wire) \in Nat /\ DOMAIN wire' = 1 .. Len(wire) + 1
      BY <2>1 DEF IInv, Counted, TypeOK, Subscribe
    <3>2. \A i \in DOMAIN wire' : IF i = Len(wire) + 1 THEN wire'[i].about = {}
                                   ELSE i \in DOMAIN wire /\ wire'[i] = wire[i]
      BY <2>1, <3>1 DEF IInv, Counted, TypeOK, Subscribe, Ack
    <3> QED  BY <1>1, <3>2 DEF IInv, Counted, WireNumbered
  <2>2. CASE wire' = wire
    BY <1>1, <2>2 DEF IInv, Counted, WireNumbered
  <2>3. CASE wire' = <<>>
    BY <2>3 DEF WireNumbered
  <2> QED  BY <2>1, <2>2, <2>3 DEF Endpoint, Disconnect, Connect, Unsubscribe, Drop
<1> QED  BY <1>2, <1>3, SocketType DEF IInv, Counted, OpenedOne

LEMMA GanttCounted ==
  ASSUME IInv, Gantt
  PROVE  Counted'
<1>1. UNCHANGED <<seq, number, stage, wire>>
  BY DEF Gantt, Fetch, ReadTasks, Answer
<1>2. NumbersUnique' /\ WireNumbered'
  BY <1>1 DEF IInv, Counted, NumbersUnique, WireNumbered
<1>3. CASE Answer
  <2>1. cursor' = seq /\ base' = seq /\ seq \in Nat
    BY <1>3 DEF Answer, CurrentSeq, IInv, Counted, TypeOK
  <2>2. CursorBehind' /\ NonePassedOver'
    BY <1>1, <2>1 DEF CursorBehind, NonePassedOver
  <2> QED  BY <1>2, <2>2, ViewerType DEF IInv, Counted
<1>4. CASE Fetch \/ ReadTasks
  <2>1. CursorBehind' /\ NonePassedOver'
    BY <1>4 DEF IInv, Counted, CursorBehind, NonePassedOver, Fetch, ReadTasks
  <2> QED  BY <1>2, <2>1, ViewerType DEF IInv, Counted
<1> QED  BY <1>3, <1>4 DEF Gantt

LEMMA ListenCounted ==
  ASSUME IInv, Listen
  PROVE  Counted'
<1>1. wire # <<>> /\ wire' = Tail(wire) /\ UNCHANGED <<seq, number, stage, shown, base, outdated>>
  BY DEF Listen, Ignore, Apply, Gap, Receive
<1>2. NumbersUnique'
  BY <1>1 DEF IInv, Counted, NumbersUnique
<1>3. WireNumbered'
  <2>1. \A i \in DOMAIN wire' : i + 1 \in DOMAIN wire /\ wire'[i] = wire[i + 1]
    BY <1>1 DEF IInv, Counted, TypeOK
  <2> QED  BY <1>1, <2>1 DEF IInv, Counted, WireNumbered
<1>4. CASE Ignore \/ Gap
  <2>1. CursorBehind' /\ NonePassedOver'
    BY <1>1, <1>4 DEF IInv, Counted, CursorBehind, NonePassedOver, Ignore, Gap
  <2> QED  BY <1>2, <1>3, <2>1, ViewerType DEF IInv, Counted
<1>5. CASE Apply
  <2>1. PICK c \in Changes : received.about = {c} /\ number[c] = cursor + 1
    <3>1. 1 \in DOMAIN wire /\ received = wire[1]
      BY <1>1 DEF IInv, Counted, TypeOK, received
    <3> QED  BY <1>5, <3>1 DEF IInv, Counted, WireNumbered, Apply, IsNext
  <2>2. cursor' = cursor + 1 /\ view' = view \cup ({c} \ Reschedules) /\ cursor \in Nat /\ base \in Nat
    BY <1>5, <2>1 DEF Apply, IInv, Counted, TypeOK
  <2>3. number[c] <= seq /\ seq \in Nat /\ \A d \in Changes : number[d] \in Nat
    BY DEF IInv, Counted, NumbersUnique, TypeOK
  <2>4. CursorBehind'
    BY <1>1, <2>1, <2>2, <2>3 DEF CursorBehind
  <2>5. NonePassedOver'
    <3> SUFFICES ASSUME shown, ~ outdated, NEW d \in Changes \ Reschedules,
                        number[d] \in base + 1 .. cursor + 1
                 PROVE  d \in view'
      BY <1>1, <2>2 DEF NonePassedOver
    <3>1. CASE number[d] = cursor + 1
      <4>1. d = c
        BY <2>1, <2>2, <3>1 DEF IInv, Counted, NumbersUnique
      <4> QED  BY <2>2, <4>1
    <3>2. CASE number[d] # cursor + 1
      <4>1. number[d] \in base + 1 .. cursor
        BY <2>2, <2>3, <3>2
      <4> QED  BY <2>2, <4>1 DEF IInv, Counted, NonePassedOver
    <3> QED  BY <3>1, <3>2
  <2> QED  BY <1>2, <1>3, <2>4, <2>5, ViewerType DEF IInv, Counted
<1> QED  BY <1>4, <1>5 DEF Listen

LEMMA RestartCounted ==
  ASSUME IInv, Restart
  PROVE  Counted'
<1>1. NumbersUnique'
  BY DEF IInv, Counted, TypeOK, Restart, NumbersUnique
<1>2. WireNumbered' /\ CursorBehind' /\ NonePassedOver'
  BY DEF Restart, WireNumbered, CursorBehind, NonePassedOver
<1> QED  BY <1>1, <1>2, RestartType DEF IInv, Counted

LEMMA NextIInv == IInv /\ [Next]_vars => IInv'
<1> SUFFICES ASSUME IInv, [Next]_vars PROVE IInv'
  OBVIOUS
<1>0. OpenedOne'
  BY NextOpenedOne DEF IInv, Counted
<1>1. ASSUME NEW c \in Changes, Announce(c) \/ Request(c) PROVE Counted'
  BY <1>1, AnnounceCounted, SendCounted, EndsCounted DEF Request
<1>2. ASSUME UNCHANGED vars PROVE Counted'
  <2>1. TypeOK'
    BY <1>2 DEF IInv, Counted, TypeOK, vars
  <2>2. NumbersUnique' /\ WireNumbered' /\ CursorBehind' /\ NonePassedOver'
    BY <1>2 DEF IInv, Counted, NumbersUnique, WireNumbered, CursorBehind, NonePassedOver, vars
  <2> QED  BY <2>1, <2>2 DEF Counted
<1>3. Counted'
  BY <1>1, <1>2, SocketCounted, GanttCounted, ListenCounted, RestartCounted DEF Next, Idle
<1> QED  BY <1>0, <1>3 DEF IInv

LEMMA Invariance == Spec => []IInv
BY InitIInv, NextIInv, PTL DEF Spec

-----------------------------------------------------------------------------
(* Results                                                                 *)

(* Each variable keeps its type; a request that has ended owes no socket   *)
(* anything.                                                               *)
THEOREM TypeInvariant == Spec => []TypeOK
<1>1. IInv => TypeOK
  BY DEF IInv, Counted
<1> QED  BY <1>1, Invariance, PTL

(* Whatever order the broadcasts of any number of requests reach the       *)
(* viewer's sockets in, whatever it loses and however often it comes back, *)
(* its cursor counts only events it has applied (ws.py:42-44, 61-78).      *)
THEOREM NoneIsPassedOver == Spec => []NonePassedOver
<1>1. IInv => NonePassedOver
  BY DEF IInv, Counted
<1> QED  BY <1>1, Invariance, PTL
-----------------------------------------------------------------------------
(* What the viewer misses                                                  *)

(* What a subscribed viewer has still to count is on its way to it: an     *)
(* event above its cursor is owed to its socket, or a message on the wire  *)
(* carries that seq or a later one.                                        *)
OnItsWay ==
  shown /\ ~ stale /\ ~ outdated /\ open /\ socket \in room =>
    \A c \in Changes : number[c] > cursor =>
      socket \in pending[c] \/ \E i \in DOMAIN wire : wire[i].seq >= number[c]

(* A change that the last Gantt lacks and that was announced before its    *)
(* seq was read is one of raced; one made before the api was restarted is  *)
(* in it.                                                                  *)
GanttShows ==
  /\ shown /\ ~ outdated =>
       /\ base <= cursor
       /\ \A c \in Changes : number[c] \in 1 .. base => c \in view \cup raced
       /\ \A c \in stored : number[c] = 0 => c \in view
  /\ fetch = "read" => \A c \in stored : number[c] = 0 => c \in snapshot

(* What a viewer shows has been announced; what a Gantt read is stored.    *)
ShowsAnnounced ==
  /\ stored = {c \in Changes : stage[c] = "committed"}
  /\ snapshot \subseteq stored
  /\ \A c \in view : stage[c] # "none"

Caught == OnItsWay /\ GanttShows /\ ShowsAnnounced

(* Initially nothing is announced, stored or shown.                        *)
LEMMA InitCaught == Init => Caught
BY DEF Init, Caught, OnItsWay, GanttShows, ShowsAnnounced

(* A new event is owed to every socket in the room.                        *)
LEMMA AnnounceCaught ==
  ASSUME IInv, Caught, NEW c \in Changes, Announce(c)
  PROVE  Caught'
<1>1. /\ number'[c] = seq + 1 /\ stage'[c] = "sending" /\ pending'[c] = room /\ number[c] = 0
      /\ \A d \in Changes \ {c} : /\ number'[d] = number[d] /\ stage'[d] = stage[d]
                                  /\ pending'[d] = pending[d]
  BY DEF IInv, Counted, TypeOK, NumbersUnique, Announce, NextSeq
<1>2. UNCHANGED <<stored, room, connection, viewer, history>>
  BY DEF Announce
<1>3. OnItsWay'
  BY <1>1, <1>2 DEF Caught, OnItsWay
<1>4. c \notin stored /\ stage[c] = "none"
  BY DEF Announce, Caught, ShowsAnnounced
<1>5. GanttShows'
  <2>1. \A d \in stored : number'[d] = 0 => number[d] = 0
    <3>1. \A d \in stored : d \in Changes /\ d # c
      BY <1>4 DEF IInv, Counted, TypeOK
    <3> QED  BY <1>1, <3>1
  <2>2. shown /\ ~ outdated => number'[c] \notin 1 .. base
    <3> SUFFICES ASSUME shown, ~ outdated PROVE seq + 1 \notin 1 .. base
      BY <1>1
    <3>1. base <= cursor /\ cursor <= seq /\ base \in Nat /\ cursor \in Nat /\ seq \in Nat
      BY DEF IInv, Counted, TypeOK, CursorBehind, Caught, GanttShows
    <3> QED  BY <3>1
  <2>3. shown /\ ~ outdated => \A d \in Changes : number'[d] \in 1 .. base => d \in view \cup raced
    BY <1>1, <2>2 DEF Caught, GanttShows
  <2> QED  BY <1>2, <2>1, <2>3 DEF Caught, GanttShows
<1>6. ShowsAnnounced'
  BY <1>1, <1>2, <1>4 DEF Caught, ShowsAnnounced, IInv, Counted, TypeOK
<1> QED  BY <1>3, <1>5, <1>6 DEF Caught

(* What is sent to the viewer's socket is on its wire.                     *)
LEMMA SendCaught ==
  ASSUME IInv, Caught, NEW c \in Changes, NEW s \in Sockets, Send(c, s)
  PROVE  Caught'
<1>1. UNCHANGED <<stored, number, stage, socket, open, viewer, history>> /\ room' \subseteq room
  BY DEF Send
<1>2. GanttShows' /\ ShowsAnnounced'
  BY <1>1 DEF Caught, GanttShows, ShowsAnnounced
<1>3. /\ \A d \in Changes \ {c} : pending'[d] = pending[d]
      /\ pending'[c] = pending[c] \ {s}
  BY DEF Send, IInv, Counted, TypeOK
<1>4. OnItsWay'
  <2> SUFFICES ASSUME shown, ~ stale, ~ outdated, open, socket \in room,
                      NEW d \in Changes, number[d] > cursor, socket \notin pending'[d]
               PROVE  \E i \in DOMAIN wire' : wire'[i].seq >= number[d]
    BY <1>1 DEF OnItsWay
  <2>1. socket \in pending[d] \/ \E i \in DOMAIN wire : wire[i].seq >= number[d]
    BY DEF Caught, OnItsWay
  <2>2. \A i \in DOMAIN wire : i \in DOMAIN wire' /\ wire'[i] = wire[i]
    <3>1. CASE UNCHANGED wire
      BY <3>1
    <3>2. CASE wire' = Append(wire, [seq |-> number[c], about |-> {c}])
      BY <3>2 DEF IInv, Counted, TypeOK
    <3> QED  BY <3>1, <3>2 DEF Send
  <2>3. CASE socket \in pending[d]
    <3>1. d = c /\ s = socket
      BY <1>3, <2>3
    <3>2. wire' = Append(wire, [seq |-> number[c], about |-> {c}])
      BY <3>1 DEF Send, Connected
    <3>3. Len(wire) + 1 \in DOMAIN wire' /\ wire'[Len(wire) + 1].seq = number[c]
      BY <3>2 DEF IInv, Counted, TypeOK
    <3>4. number[c] \in Nat
      BY DEF IInv, Counted, TypeOK
    <3> QED  BY <3>1, <3>3, <3>4
  <2>4. CASE \E i \in DOMAIN wire : wire[i].seq >= number[d]
    BY <2>2, <2>4
  <2> QED  BY <2>1, <2>3, <2>4
<1> QED  BY <1>2, <1>4 DEF Caught

(* A request that ends has sent its event, so it has a number.             *)
LEMMA EndsCaught ==
  ASSUME IInv, Caught, NEW c \in Changes, Commit(c) \/ Rollback(c)
  PROVE  Caught'
<1>1. PICK how \in {"committed", "failed"} :
        /\ Ends(c, how)
        /\ stored' = IF how = "committed" THEN stored \cup {c} ELSE stored
  BY DEF Commit, Rollback
<1>2. /\ stage[c] = "sending" /\ number[c] # 0 /\ stage'[c] = how
      /\ \A d \in Changes \ {c} : stage'[d] = stage[d]
      /\ UNCHANGED <<room, number, pending, connection, viewer, history>>
  BY <1>1 DEF Ends, IInv, Counted, TypeOK, NumbersUnique
<1>3. OnItsWay'
  BY <1>2 DEF Caught, OnItsWay
<1>4. GanttShows'
  BY <1>1, <1>2 DEF Caught, GanttShows
<1>5. ShowsAnnounced'
  <2>1. stored = {d \in Changes : stage[d] = "committed"} /\ snapshot \subseteq stored
    BY DEF Caught, ShowsAnnounced
  <2>2. stored' = {d \in Changes : stage'[d] = "committed"}
    <3>1. CASE how = "committed"
      BY <1>1, <1>2, <2>1, <3>1
    <3>2. CASE how = "failed"
      BY <1>1, <1>2, <2>1, <3>2
    <3> QED  BY <3>1, <3>2
  <2>3. \A d \in view' : stage'[d] # "none"
    BY <1>2 DEF Caught, ShowsAnnounced, IInv, Counted, TypeOK
  <2> QED  BY <1>1, <1>2, <2>1, <2>2, <2>3 DEF ShowsAnnounced
<1> QED  BY <1>3, <1>4, <1>5 DEF Caught

(* A socket that enters the room is told the current seq.                  *)
LEMMA SocketCaught ==
  ASSUME IInv, Caught, Endpoint \/ Connect \/ Unsubscribe \/ Drop
  PROVE  Caught'
<1>1. /\ UNCHANGED <<stored, number, stage, pending, outdated, cursor, base, view, raced>>
      /\ shown' => shown
      /\ (fetch' = "read") => fetch = "read"
      /\ snapshot' = snapshot \/ (snapshot' = {} /\ fetch' = "none")
  BY DEF Endpoint, Subscribe, Disconnect, Connect, Unsubscribe, Drop
<1>2. GanttShows' /\ ShowsAnnounced'
  BY <1>1 DEF Caught, GanttShows, ShowsAnnounced
<1>3. OnItsWay'
  <2>1. CASE Subscribe
    <3>1. Len(wire) + 1 \in DOMAIN wire' /\ wire'[Len(wire) + 1].seq = seq
      BY <2>1 DEF IInv, Counted, TypeOK, Subscribe, Ack
    <3>2. \A d \in Changes : seq >= number[d]
      BY DEF IInv, Counted, TypeOK, NumbersUnique
    <3> QED  BY <1>1, <3>1, <3>2 DEF OnItsWay
  <2>2. ASSUME NEW s \in Sockets, Disconnect(s) PROVE OnItsWay'
    BY <2>2 DEF Disconnect, Caught, OnItsWay
  <2>3. CASE Connect
    <3>1. socket' \notin room'
      BY <2>3 DEF Connect, IInv, Counted, TypeOK
    <3> QED  BY <3>1 DEF OnItsWay
  <2>4. CASE Unsubscribe \/ Drop
    BY <2>4 DEF Unsubscribe, Drop, OnItsWay
  <2> QED  BY <2>1, <2>2, <2>3, <2>4 DEF Endpoint
<1> QED  BY <1>2, <1>3 DEF Caught

(* A Gantt gives the viewer the seq of the moment it is answered.          *)
LEMMA GanttCaught ==
  ASSUME IInv, Caught, Gantt
  PROVE  Caught'
<1>1. UNCHANGED <<stored, seq, room, requests, connection>>
  BY DEF Gantt, Fetch, ReadTasks, Answer
<1>2. CASE Answer
  <2>1. /\ cursor' = seq /\ base' = seq /\ view' = snapshot /\ snapshot' = {} /\ fetch' = "none"
        /\ raced' = {c \in Changes \ snapshot : number[c] # 0}
        /\ fetch = "read"
    BY <1>2 DEF Answer, CurrentSeq
  <2>2. seq \in Nat /\ \A d \in Changes : number[d] \in Nat /\ number[d] <= seq
    BY DEF IInv, Counted, TypeOK, NumbersUnique
  <2>3. OnItsWay'
    BY <1>1, <2>1, <2>2 DEF OnItsWay
  <2>4. GanttShows'
    BY <1>1, <2>1, <2>2 DEF Caught, GanttShows
  <2>5. ShowsAnnounced'
    BY <1>1, <2>1 DEF Caught, ShowsAnnounced
  <2> QED  BY <2>3, <2>4, <2>5 DEF Caught
<1>3. CASE Fetch
  BY <1>1, <1>3 DEF Fetch, Caught, OnItsWay, GanttShows, ShowsAnnounced
<1>4. CASE ReadTasks
  BY <1>1, <1>4 DEF ReadTasks, Caught, OnItsWay, GanttShows, ShowsAnnounced
<1> QED  BY <1>2, <1>3, <1>4 DEF Gantt

(* A message is taken off the wire only when the cursor has reached it or  *)
(* the viewer knows that it must fetch again.                              *)
LEMMA ListenCaught ==
  ASSUME IInv, Caught, Listen
  PROVE  Caught'
<1>1. /\ UNCHANGED <<stored, seq, room, requests, socket, open, shown, fetch, snapshot, history>>
      /\ wire # <<>> /\ wire' = Tail(wire)
  BY DEF Listen, Ignore, Apply, Gap, Receive
<1>2. /\ 1 \in DOMAIN wire /\ received = wire[1] /\ received.seq \in Nat
      /\ \A i \in DOMAIN wire : i # 1 => i - 1 \in DOMAIN wire' /\ wire'[i - 1] = wire[i]
  <2>1. wire \in Seq(Message)
    BY DEF IInv, Counted, TypeOK
  <2>2. 1 \in DOMAIN wire /\ received = wire[1] /\ received \in Message
    BY <1>1, <2>1 DEF received
  <2>3. \A i \in DOMAIN wire : i # 1 => i - 1 \in DOMAIN wire' /\ wire'[i - 1] = wire[i]
    BY <1>1, <2>1
  <2> QED  BY <2>2, <2>3 DEF Message
<1>3. cursor \in Nat /\ base \in Nat /\ \A d \in Changes : number[d] \in Nat
  BY DEF IInv, Counted, TypeOK
<1>4. cursor' \in {cursor, cursor + 1} /\ view \subseteq view'
  BY DEF Listen, Ignore, Apply, Gap
<1>5. OnItsWay'
  <2> SUFFICES ASSUME shown, ~ stale', ~ outdated, open, socket \in room,
                      NEW d \in Changes, number[d] > cursor', socket \notin pending[d]
               PROVE  \E i \in DOMAIN wire' : wire'[i].seq >= number[d]
    BY <1>1 DEF OnItsWay
  <2>1. received.seq <= cursor' /\ ~ stale
    BY <1>2, <1>3 DEF Listen, Ignore, Apply, Gap, IsNext
  <2>2. number[d] > cursor
    BY <1>3, <1>4
  <2>3. PICK i \in DOMAIN wire : wire[i].seq >= number[d]
    BY <2>1, <2>2 DEF Caught, OnItsWay
  <2>4. i # 1
    BY <1>2, <1>3, <1>4, <2>1, <2>3
  <2> QED  BY <1>2, <2>3, <2>4
<1>6. GanttShows'
  BY <1>1, <1>3, <1>4 DEF Caught, GanttShows
<1>7. \A d \in view' : stage[d] # "none"
  <2>1. CASE Apply
    <3>1. PICK c \in Changes : received.about = {c} /\ number[c] # 0
      BY <1>2, <2>1 DEF IInv, Counted, WireNumbered, Apply, IsNext
    <3>2. stage[c] # "none"
      BY <3>1 DEF IInv, Counted, NumbersUnique
    <3> QED  BY <2>1, <3>1, <3>2 DEF Apply, Caught, ShowsAnnounced
  <2>2. CASE Ignore \/ Gap
    BY <2>2 DEF Ignore, Gap, Caught, ShowsAnnounced
  <2> QED  BY <2>1, <2>2 DEF Listen
<1>8. ShowsAnnounced'
  BY <1>1, <1>7 DEF Caught, ShowsAnnounced
<1> QED  BY <1>5, <1>6, <1>8 DEF Caught

(* After a restart the viewer's cursor means nothing.                      *)
LEMMA RestartCaught ==
  ASSUME IInv, Caught, Restart
  PROVE  Caught'
<1>1. OnItsWay' /\ GanttShows'
  BY DEF Restart, OnItsWay, GanttShows
<1>2. \A c \in Changes : (stage'[c] = "committed" <=> stage[c] = "committed")
                         /\ (stage[c] # "none" => stage'[c] # "none")
  BY DEF Restart
<1>3. ShowsAnnounced'
  BY <1>2 DEF Restart, Caught, ShowsAnnounced, IInv, Counted, TypeOK
<1> QED  BY <1>1, <1>3 DEF Caught

LEMMA NextCaught == IInv /\ Caught /\ [Next]_vars => Caught'
<1> SUFFICES ASSUME IInv, Caught, [Next]_vars PROVE Caught'
  OBVIOUS
<1>1. ASSUME NEW c \in Changes, Announce(c) \/ Request(c) PROVE Caught'
  BY <1>1, AnnounceCaught, SendCaught, EndsCaught DEF Request
<1>2. ASSUME UNCHANGED vars PROVE Caught'
  BY <1>2 DEF Caught, OnItsWay, GanttShows, ShowsAnnounced, vars
<1> QED
  BY <1>1, <1>2, SocketCaught, GanttCaught, ListenCaught, RestartCaught DEF Next, Idle

(* A quiet viewer has counted every event, so what it lacks is in raced.   *)
LEMMA CaughtMissesOnlyRaces == IInv /\ Caught => MissesOnlyRaces
<1> SUFFICES ASSUME IInv, Caught, Quiet, ~ outdated
             PROVE  /\ stored \ view \subseteq raced \cup Reschedules
                    /\ \A c \in view \ stored : stage[c] = "failed"
  BY DEF MissesOnlyRaces
<1>1. \A c \in Changes : number[c] \in Nat /\ number[c] <= cursor
  <2> SUFFICES ASSUME NEW c \in Changes PROVE number[c] \in Nat /\ ~ (number[c] > cursor)
    BY DEF IInv, Counted, TypeOK
  <2>1. pending[c] = {} /\ number[c] \in Nat
    BY DEF Quiet, IInv, Counted, TypeOK
  <2> QED  BY <2>1 DEF Quiet, Caught, OnItsWay
<1>2. ASSUME NEW c \in stored \ view, c \notin raced, c \notin Reschedules PROVE FALSE
  <2>1. c \in Changes /\ number[c] \in Nat /\ base \in Nat /\ cursor \in Nat
    BY <1>1 DEF IInv, Counted, TypeOK
  <2>2. number[c] # 0 /\ ~ (number[c] \in 1 .. base)
    BY <1>2, <2>1 DEF Quiet, Caught, GanttShows
  <2>3. number[c] \in base + 1 .. cursor
    BY <1>1, <2>1, <2>2
  <2> QED  BY <1>2, <2>1, <2>3 DEF Quiet, IInv, Counted, NonePassedOver
<1>3. \A c \in view \ stored : stage[c] = "failed"
  BY DEF Quiet, Caught, ShowsAnnounced, IInv, Counted, TypeOK
<1> QED  BY <1>2, <1>3

(* When all is quiet, a viewer misses only the changes whose request       *)
(* overlapped its last Gantt and the reschedules, and shows in excess only *)
(* what was announced and then rolled back: for any number of requests, in *)
(* any order of broadcasts, drops, subscriptions and restarts (main.py:    *)
(* 182-203, 353-379; ws.py:61-78).                                         *)
THEOREM QuietViewerMissesOnlyRaces == Spec => []MissesOnlyRaces
<1>1. Init => IInv /\ Caught
  BY InitIInv, InitCaught
<1>2. IInv /\ Caught /\ [Next]_vars => (IInv /\ Caught)'
  BY NextIInv, NextCaught
<1> QED  BY <1>1, <1>2, CaughtMissesOnlyRaces, PTL DEF Spec
=============================================================================
