--------------------------- MODULE LiveRoomProofs ----------------------------
(***************************************************************************)
(* Theorems about LiveRoom, for any requests, cascades, records of other   *)
(* projects and faults: ws-fanout keeps its promise beside the room, a     *)
(* cascade that the viewer was told of is not lost on it, and the events   *)
(* of the pipeline cost the viewer no request while they leave its cursor  *)
(* alone.                                                                  *)
(***************************************************************************)
EXTENDS LiveRoom, TLAPS

FP == INSTANCE FanOutProofs WITH Records <- Cascades \cup Elsewhere

USE DEF requests, connection, viewer, history, stream, subscriber, heardOf, None, F!None

-----------------------------------------------------------------------------
(* ws-fanout                                                               *)

(* FanOutProofs speaks of the same process.                                *)
LEMMA SameFanOut ==
  /\ F!Init <=> FP!Init
  /\ F!Next <=> FP!Next
  /\ F!StreamInv <=> FP!StreamInv
  /\ F!vars = stream /\ FP!vars = stream
<1>1. F!Init <=> FP!Init
  BY DEF F!Init, FP!Init, FP!None
<1>2. F!Next <=> FP!Next
  <2>1. /\ F!Join <=> FP!Join
        /\ F!Poll <=> FP!Poll
        /\ F!Publish <=> FP!Publish
        /\ F!Commit <=> FP!Commit
        /\ F!Stop <=> FP!Stop
    BY DEF F!Join, FP!Join, F!Poll, FP!Poll, F!Publish, FP!Publish, F!Commit, FP!Commit, F!Stop,
           FP!Stop, FP!None, F!ManualCommit, FP!ManualCommit, F!NextOffset, FP!NextOffset
  <2>2. ASSUME NEW k \in Cascades \cup Elsewhere PROVE F!Produce(k) <=> FP!Produce(k)
    BY DEF F!Produce, FP!Produce
  <2> QED  BY <2>1, <2>2 DEF F!Next, FP!Next, F!Loop, FP!Loop
<1>3. F!StreamInv <=> FP!StreamInv
  <2>1. F!TypeOK <=> FP!TypeOK
    BY DEF F!TypeOK, FP!TypeOK, F!Offsets, FP!Offsets, FP!None
  <2>2. F!Upcoming = FP!Upcoming
    BY DEF F!Upcoming, FP!Upcoming, FP!None
  <2>3. /\ F!FreshWhileUnsettled <=> FP!FreshWhileUnsettled
        /\ F!NoGap <=> FP!NoGap
        /\ F!NeverAhead <=> FP!NeverAhead
    BY <2>2 DEF F!FreshWhileUnsettled, FP!FreshWhileUnsettled, F!NoGap, FP!NoGap, F!NeverAhead,
                FP!NeverAhead, FP!None
  <2> QED  BY <2>1, <2>3 DEF F!StreamInv, FP!StreamInv
<1>4. F!vars = stream /\ FP!vars = stream
  BY DEF F!vars, FP!vars
<1> QED  BY <1>1, <1>2, <1>3, <1>4

(* What the rest of LiveRoom does is no step of ws-fanout.                 *)
LEMMA LiveStepOfFanOut ==
  ASSUME [LiveNext]_live
  PROVE  [F!Next]_stream
<1>1. ASSUME NEW k \in Cascades \cup Elsewhere, Relay(k) PROVE F!Next
  BY <1>1 DEF Relay, F!Next
<1>2. CASE FanOutStep
  BY <1>2 DEF FanOutStep, Quietly, F!Next, F!Loop
<1>3. CASE FanOutStops
  BY <1>3 DEF FanOutStops, F!Next
<1>4. CASE Subscriber \/ Unlink
  BY <1>4 DEF Subscriber, Link, TakeMessage, PushTo, Unlink
<1>5. CASE RoomStep \/ SocketDrops \/ ApiRestarts
  BY <1>5 DEF RoomStep, SocketDrops, ApiRestarts
<1>6. CASE (\E k \in Cascades : CascadeCommits(k)) \/ LiveIdle \/ UNCHANGED live
  BY <1>6 DEF CascadeCommits, LiveIdle, live
<1> QED  BY <1>1, <1>2, <1>3, <1>4, <1>5, <1>6 DEF LiveNext

LEMMA InitStream == LiveInit => F!StreamInv
BY SameFanOut, FP!InitStreamInv DEF LiveInit

LEMMA NextStream == F!StreamInv /\ [LiveNext]_live => F!StreamInv'
<1> SUFFICES ASSUME F!StreamInv, [LiveNext]_live PROVE F!StreamInv'
  OBVIOUS
<1>1. FP!StreamInv /\ [FP!Next]_(FP!vars)
  BY LiveStepOfFanOut, SameFanOut DEF FP!vars
<1>2. FP!StreamInv'
  BY <1>1, FP!NextKeeps
<1> QED  BY <1>2, SameFanOut, PTL

-----------------------------------------------------------------------------
(* Types                                                                   *)

(* The variables of the room, beside those that LiveTypeOK types.          *)
RoomTyped ==
  /\ seq \in Nat
  /\ room \subseteq 1 .. socket
  /\ stage \in [Changes -> {"none", "sending", "committed", "failed"}]
  /\ number \in [Changes -> Nat]
  /\ pending \in [Changes -> SUBSET Sockets]
  /\ dead \in [Changes -> SUBSET Sockets]
  /\ \A c \in Changes : stage[c] # "sending" => pending[c] = {}
  /\ socket \in 0 .. MaxSockets /\ open \in BOOLEAN /\ (open => socket # 0)
  /\ shown \in BOOLEAN /\ cursor \in Nat /\ stale \in BOOLEAN
  /\ fetch \in {"none", "asked", "read"}
  /\ base \in Nat /\ outdated \in BOOLEAN

(* What is pushed is a record of the project.                              *)
PushesCascades == pushing # None => RecordAt(pushing) \in Cascades

(* A record is written only once its change is committed.                  *)
RelaysCommitted == \A i \in DOMAIN topic : topic[i] \in Cascades => topic[i] \in stored

(* Nothing is on the wire of a socket that is gone.                        *)
WireNeedsSocket == ~ open => wire = <<>>

WireMessage == [seq : Nat, about : SUBSET All]

RoomSide ==
  /\ stored \subseteq All /\ view \subseteq All /\ snapshot \subseteq All /\ raced \subseteq All
  /\ wire \in Seq(WireMessage)
  /\ told \subseteq Cascades /\ ignored \subseteq All /\ crossed \in BOOLEAN
  /\ RoomTyped
  /\ WireNeedsSocket

SubscriberSide ==
  /\ linked \in BOOLEAN /\ inbox \in Seq(F!Offsets) /\ troubles \in 0 .. MaxTroubles
  /\ pushing \in {None} \cup F!Offsets
  /\ targets \subseteq Sockets /\ failed \subseteq Sockets
  /\ pushing = None <=> targets = {}
  /\ PushesCascades

LiveTyped == F!StreamInv /\ RoomSide /\ SubscriberSide /\ RelaysCommitted

LEMMA TypedIsTypeOK == LiveTyped => LiveTypeOK
BY DEF LiveTyped, F!StreamInv, RoomSide, SubscriberSide, LiveTypeOK, WireMessage

LEMMA InitTyped == LiveInit => LiveTyped
<1> SUFFICES ASSUME LiveInit PROVE LiveTyped
  OBVIOUS
<1>1. wire = <<>> /\ inbox = <<>> /\ topic = <<>>
  BY DEF LiveInit, Init, F!Init
<1>2. /\ stage \in [Changes -> {"none", "sending", "committed", "failed"}]
      /\ number \in [Changes -> Nat]
      /\ pending \in [Changes -> SUBSET Sockets] /\ dead \in [Changes -> SUBSET Sockets]
      /\ \A c \in Changes : pending[c] = {}
  BY DEF LiveInit, Init
<1>3. RoomTyped
  <2>1. /\ seq = 0 /\ room = {} /\ socket = 0 /\ open = FALSE /\ shown = FALSE /\ cursor = 0
        /\ stale = FALSE /\ fetch = "none" /\ base = 0 /\ outdated = FALSE
    BY DEF LiveInit, Init
  <2>2. 0 \in 0 .. MaxSockets
    BY RoomAssumption
  <2> QED  BY <1>2, <2>1, <2>2 DEF RoomTyped
<1>4. RoomSide
  <2>1. /\ stored = {} /\ view = {} /\ snapshot = {} /\ raced = {} /\ told = {} /\ ignored = {}
        /\ crossed = FALSE
    BY DEF LiveInit, Init
  <2>2. wire \in Seq(WireMessage)
    BY <1>1
  <2> QED  BY <1>1, <1>3, <2>1, <2>2 DEF RoomSide, WireNeedsSocket
<1>5. SubscriberSide
  <2>1. /\ linked = FALSE /\ troubles = 0 /\ pushing = None /\ targets = {} /\ failed = {}
    BY DEF LiveInit
  <2>2. inbox \in Seq(F!Offsets) /\ 0 \in 0 .. MaxTroubles
    BY <1>1, LiveAssumption
  <2> QED  BY <2>1, <2>2 DEF SubscriberSide, PushesCascades
<1>6. RelaysCommitted
  BY <1>1 DEF RelaysCommitted
<1> QED  BY <1>4, <1>5, <1>6, InitStream DEF LiveTyped

(* The partition only grows, so what is in it stays where it is.           *)
LEMMA TopicGrows ==
  ASSUME LiveTyped, [LiveNext]_live
  PROVE  /\ topic \in Seq(Cascades \cup Elsewhere) /\ topic' \in Seq(Cascades \cup Elsewhere)
         /\ Len(topic) \in Nat /\ Len(topic') \in Nat /\ Len(topic) <= Len(topic')
         /\ \A i \in DOMAIN topic : i \in DOMAIN topic' /\ topic'[i] = topic[i]
         /\ F!Offsets \subseteq F!Offsets'
         /\ \A i \in DOMAIN topic' : i \notin DOMAIN topic =>
              \E k \in Cascades \cup Elsewhere : Relay(k) /\ topic'[i] = k
<1>1. topic \in Seq(Cascades \cup Elsewhere) /\ topic' \in Seq(Cascades \cup Elsewhere)
  BY NextStream DEF LiveTyped, F!StreamInv, F!TypeOK
<1>2. topic' = topic \/ \E k \in Cascades \cup Elsewhere : Relay(k)
  BY DEF LiveNext, FanOutStep, Quietly, F!Join, F!Poll, F!Commit, F!Publish, FanOutStops, F!Stop,
         Subscriber, Link, TakeMessage, PushTo, Unlink, RoomStep, SocketDrops, ApiRestarts,
         CascadeCommits, LiveIdle, live
<1>3. CASE topic' = topic
  BY <1>1, <1>3 DEF F!Offsets
<1>4. ASSUME NEW k \in Cascades \cup Elsewhere, Relay(k)
      PROVE  /\ Len(topic') = Len(topic) + 1
             /\ \A i \in DOMAIN topic' : IF i \in DOMAIN topic THEN topic'[i] = topic[i]
                                                               ELSE topic'[i] = k
  <2>1. topic' = Append(topic, k)
    BY <1>4 DEF Relay, F!Produce
  <2> QED  BY <1>1, <2>1
<1>5. ASSUME NEW k \in Cascades \cup Elsewhere, Relay(k)
      PROVE  /\ Len(topic) <= Len(topic')
             /\ \A i \in DOMAIN topic : i \in DOMAIN topic' /\ topic'[i] = topic[i]
             /\ F!Offsets \subseteq F!Offsets'
             /\ \A i \in DOMAIN topic' : i \notin DOMAIN topic => topic'[i] = k
  BY <1>1, <1>4, <1>5 DEF F!Offsets
<1>6. Len(topic) \in Nat /\ Len(topic') \in Nat
  BY <1>1
<1>7. CASE \E k \in Cascades \cup Elsewhere : Relay(k)
  BY <1>1, <1>5, <1>6, <1>7
<1> QED  BY <1>2, <1>3, <1>7

(* A longer partition changes nothing for the subscriber.                  *)
LEMMA SubscriberSideKept ==
  ASSUME LiveTyped, [LiveNext]_live, UNCHANGED subscriber, troubles' \in 0 .. MaxTroubles
  PROVE  SubscriberSide'
<1>1. inbox' \in Seq(F!Offsets')
  <2>1. \A i \in DOMAIN inbox : inbox[i] \in F!Offsets'
    BY TopicGrows DEF LiveTyped, SubscriberSide
  <2> QED  BY <2>1 DEF LiveTyped, SubscriberSide
<1>2. pushing # None => pushing + 1 \in DOMAIN topic
  BY TopicGrows DEF LiveTyped, SubscriberSide, F!Offsets
<1>3. PushesCascades'
  BY <1>2, TopicGrows DEF LiveTyped, SubscriberSide, PushesCascades, RecordAt
<1> QED  BY <1>1, <1>3, TopicGrows DEF LiveTyped, SubscriberSide

(* Every record of a cascade that is relayed is committed.                 *)
LEMMA RelaysCommittedKept ==
  ASSUME LiveTyped, [LiveNext]_live, stored \subseteq stored'
  PROVE  RelaysCommitted'
<1> SUFFICES ASSUME NEW i \in DOMAIN topic', topic'[i] \in Cascades PROVE topic'[i] \in stored'
  BY DEF RelaysCommitted
<1>1. CASE i \in DOMAIN topic
  BY <1>1, TopicGrows DEF LiveTyped, RelaysCommitted
<1>2. CASE i \notin DOMAIN topic
  <2>1. PICK k \in Cascades \cup Elsewhere : Relay(k) /\ topic'[i] = k
    BY <1>2, TopicGrows
  <2> QED  BY <2>1, LiveAssumption DEF Relay, Committed
<1> QED  BY <1>1, <1>2

LEMMA StoredGrows == RoomSide /\ [LiveNext]_live => stored \subseteq stored'
<1> SUFFICES ASSUME RoomSide, [LiveNext]_live PROVE stored \subseteq stored'
  OBVIOUS
<1>1. CASE RoomStep
  <2>1. ASSUME NEW c \in Changes, Announce(c) \/ Request(c) PROVE stored \subseteq stored'
    BY <2>1 DEF Announce, Request, Send, Commit, Rollback, Ends
  <2> QED
    BY <1>1, <2>1 DEF RoomStep, Endpoint, Subscribe, Disconnect, Connect, Unsubscribe, Fetch,
                      ReadTasks, Answer, Ignore, Apply, Gap, Receive
<1>2. CASE SocketDrops \/ ApiRestarts
  BY <1>2 DEF SocketDrops, ApiRestarts, Drop, Restart
<1> QED
  BY <1>1, <1>2 DEF LiveNext, CascadeCommits, Relay, FanOutStep, FanOutStops, Subscriber, Link,
     TakeMessage, PushTo, Unlink, LiveIdle, live, vars

(* The subscriber and what it is handed.                                   *)
LEMMA NextSubscriberSide == LiveTyped /\ [LiveNext]_live => SubscriberSide'
<1> SUFFICES ASSUME LiveTyped, [LiveNext]_live PROVE SubscriberSide'
  OBVIOUS
<1> USE DEF SubscriberSide
<1>0. /\ SubscriberSide /\ inbox \in Seq(F!Offsets) /\ F!TypeOK
      /\ topic' = topic => F!Offsets' = F!Offsets
  BY DEF LiveTyped, F!StreamInv, F!Offsets
<1>1. CASE UNCHANGED <<subscriber, troubles>>
  BY <1>0, <1>1, SubscriberSideKept
<1>2. CASE Trouble /\ UNCHANGED subscriber
  <2>1. troubles' \in 0 .. MaxTroubles
    BY <1>0, <1>2, LiveAssumption DEF Trouble
  <2> QED  BY <1>2, <2>1, SubscriberSideKept
<1>3. CASE FanOutStep
  <2>1. CASE UNCHANGED inbox
    BY <1>1, <1>3, <2>1 DEF FanOutStep
  <2>2. CASE F!Publish /\ inbox' = Append(inbox, held)
    <3>1. held \in F!Offsets /\ topic' = topic
      BY <1>0, <2>2 DEF F!TypeOK, F!Publish
    <3>2. inbox' \in Seq(F!Offsets)
      BY <1>0, <2>2, <3>1
    <3> QED  BY <1>0, <1>3, <3>1, <3>2 DEF FanOutStep, PushesCascades, RecordAt
  <2> QED  BY <1>3, <2>1, <2>2 DEF FanOutStep
<1>4. CASE Link
  BY <1>0, <1>4 DEF Link, PushesCascades, RecordAt
<1>5. CASE Unlink
  <2>1. troubles' \in 0 .. MaxTroubles /\ inbox' \in Seq(F!Offsets)
    BY <1>0, <1>5, LiveAssumption DEF Unlink, Trouble
  <2> QED  BY <1>0, <1>5, <2>1 DEF Unlink, PushesCascades, RecordAt
<1>6. CASE TakeMessage
  <2>1. inbox' \in Seq(F!Offsets) /\ Head(inbox) \in F!Offsets /\ topic' = topic
    BY <1>0, <1>6 DEF TakeMessage
  <2>2. targets' \subseteq room /\ (targets' # {} => RecordAt(Head(inbox)) \in Cascades)
    BY <1>6 DEF TakeMessage, RoomOf
  <2>3. room \subseteq Sockets
    BY RoomAssumption DEF LiveTyped, RoomSide, RoomTyped, Sockets
  <2>4. Head(inbox) # None
    BY <2>1, TopicGrows DEF F!Offsets
  <2>5. PushesCascades'
    BY <1>6, <2>1, <2>2 DEF TakeMessage, PushesCascades, RecordAt
  <2> QED  BY <1>0, <1>6, <2>1, <2>2, <2>3, <2>4, <2>5 DEF TakeMessage
<1>7. ASSUME NEW s \in Sockets, PushTo(s) PROVE SubscriberSide'
  <2>1. topic' = topic /\ UNCHANGED <<linked, inbox, troubles>>
    BY <1>7 DEF PushTo
  <2>2. targets' = targets \ {s} /\ failed' \subseteq failed \cup {s}
    BY <1>7 DEF PushTo
  <2>3. pushing # None
    BY <1>0, <1>7 DEF PushTo
  <2>4. IF targets' = {} THEN pushing' = None ELSE pushing' = pushing
    BY <1>7 DEF PushTo
  <2>5. PushesCascades'
    BY <1>0, <2>1, <2>4 DEF PushesCascades, RecordAt
  <2> QED  BY <1>0, <2>1, <2>2, <2>3, <2>4, <2>5
<1>8. CASE ApiRestarts
  <2>1. troubles' \in 0 .. MaxTroubles /\ inbox' \in Seq(F!Offsets) /\ topic' = topic
    BY <1>0, <1>8, LiveAssumption DEF ApiRestarts, Trouble
  <2> QED  BY <1>0, <1>8, <2>1 DEF ApiRestarts, PushesCascades
<1>9. CASE \/ \E k \in Cascades : CascadeCommits(k)
           \/ \E k \in Cascades \cup Elsewhere : Relay(k)
           \/ RoomStep \/ LiveIdle \/ UNCHANGED live
  <2>1. UNCHANGED <<subscriber, troubles>>
    BY <1>9 DEF CascadeCommits, Relay, RoomStep, LiveIdle, live
  <2> QED  BY <1>1, <2>1
<1>10. CASE FanOutStops \/ SocketDrops
  BY <1>2, <1>10 DEF FanOutStops, SocketDrops
<1> QED
  BY <1>3, <1>4, <1>5, <1>6, <1>7, <1>8, <1>9, <1>10 DEF LiveNext, Subscriber
-----------------------------------------------------------------------------
(* The types of the room, one lemma per kind of step                       *)

LEMMA RoomSideKept == RoomSide /\ UNCHANGED <<vars, heardOf>> => RoomSide'
BY DEF RoomSide, RoomTyped, WireNeedsSocket, WireMessage, vars

LEMMA AnnounceTyped ==
  ASSUME RoomSide, NEW c \in Changes, Announce(c), UNCHANGED heardOf
  PROVE  RoomSide'
<1>1. room \subseteq Sockets
  BY RoomAssumption DEF RoomSide, RoomTyped, Sockets
<1>2. /\ pending' \in [Changes -> SUBSET Sockets] /\ number' \in [Changes -> Nat] /\ seq' \in Nat
      /\ stage' \in [Changes -> {"none", "sending", "committed", "failed"}]
      /\ \A d \in Changes : stage'[d] # "sending" => pending'[d] = {}
  BY <1>1 DEF RoomSide, RoomTyped, Announce, NextSeq
<1>3. RoomTyped'
  BY <1>2 DEF RoomSide, RoomTyped, Announce
<1> QED  BY <1>3 DEF RoomSide, WireNeedsSocket, Announce

LEMMA SendTyped ==
  ASSUME RoomSide, NEW c \in Changes, NEW s \in Sockets, Send(c, s), UNCHANGED heardOf
  PROVE  RoomSide'
<1>1. /\ pending' \in [Changes -> SUBSET Sockets] /\ dead' \in [Changes -> SUBSET Sockets]
      /\ room' \subseteq room
      /\ \A d \in Changes : stage'[d] # "sending" => pending'[d] = {}
  BY DEF RoomSide, RoomTyped, Send
<1>2. wire' \in Seq(WireMessage) /\ WireNeedsSocket'
  <2>1. CASE UNCHANGED wire
    BY <2>1 DEF RoomSide, WireNeedsSocket, Send
  <2>2. CASE open /\ wire' = Append(wire, [seq |-> number[c], about |-> {c}])
    <3>1. [seq |-> number[c], about |-> {c}] \in WireMessage
      BY DEF RoomSide, RoomTyped, WireMessage, All
    <3>2. wire' \in Seq(WireMessage)
      BY <2>2, <3>1 DEF RoomSide
    <3> QED  BY <2>2, <3>2 DEF WireNeedsSocket, Send
  <2> QED  BY <2>1, <2>2 DEF Send, Connected
<1>3. RoomTyped'
  BY <1>1 DEF RoomSide, RoomTyped, Send
<1> QED  BY <1>2, <1>3 DEF RoomSide, Send

LEMMA EndsTyped ==
  ASSUME RoomSide, NEW c \in Changes, Commit(c) \/ Rollback(c), UNCHANGED heardOf
  PROVE  RoomSide'
<1>1. PICK how \in {"committed", "failed"} : Ends(c, how)
  BY DEF Commit, Rollback
<1>2. /\ stage' \in [Changes -> {"none", "sending", "committed", "failed"}]
      /\ dead' \in [Changes -> SUBSET Sockets]
      /\ \A d \in Changes : stage'[d] # "sending" => pending'[d] = {}
  BY <1>1 DEF RoomSide, RoomTyped, Ends, Awaited
<1>3. RoomTyped'
  BY <1>1, <1>2 DEF RoomSide, RoomTyped, Ends
<1>4. stored' \subseteq All
  BY DEF Commit, Rollback, RoomSide, All
<1> QED  BY <1>1, <1>3, <1>4 DEF RoomSide, WireNeedsSocket, Ends

LEMMA EndpointTyped ==
  ASSUME RoomSide, Endpoint \/ Connect \/ Unsubscribe, UNCHANGED heardOf
  PROVE  RoomSide'
<1>1. CASE Subscribe
  <2>1. Ack \in WireMessage
    BY DEF Ack, WireMessage, RoomSide, RoomTyped
  <2>2. wire' \in Seq(WireMessage) /\ WireNeedsSocket'
    BY <1>1, <2>1 DEF RoomSide, Subscribe, WireNeedsSocket
  <2>3. socket # 0
    BY <1>1 DEF Subscribe, RoomSide, RoomTyped
  <2>4. room' \subseteq 1 .. socket
    BY <1>1, <2>3 DEF Subscribe, RoomSide, RoomTyped
  <2>5. RoomTyped'
    BY <1>1, <2>4 DEF Subscribe, RoomSide, RoomTyped
  <2> QED  BY <1>1, <2>2, <2>5 DEF Subscribe, RoomSide
<1>2. ASSUME NEW s \in Sockets, Disconnect(s) PROVE RoomSide'
  BY <1>2 DEF Disconnect, RoomSide, RoomTyped, WireNeedsSocket
<1>3. CASE Connect
  <2>1. /\ socket' \in 0 .. MaxSockets /\ room \subseteq 1 .. socket' /\ wire' \in Seq(WireMessage)
        /\ socket' # 0
    BY <1>3, RoomAssumption DEF RoomSide, RoomTyped, Connect
  <2>2. RoomTyped' /\ WireNeedsSocket'
    BY <1>3, <2>1 DEF RoomSide, RoomTyped, Connect, WireNeedsSocket
  <2> QED  BY <1>3, <2>1, <2>2 DEF RoomSide, Connect
<1>4. CASE Unsubscribe
  BY <1>4 DEF Unsubscribe, RoomSide, RoomTyped, WireNeedsSocket
<1> QED  BY <1>1, <1>2, <1>3, <1>4 DEF Endpoint

(* crossed may change with an answer or with an event that is applied,     *)
(* ignored with one that is not.                                           *)
LEMMA ViewerTyped ==
  ASSUME RoomSide, Gantt \/ Listen, UNCHANGED told, crossed' \in BOOLEAN,
         \/ UNCHANGED ignored
         \/ Listen /\ ignored' = ignored \cup received.about
  PROVE  RoomSide'
<1>1. CASE Gantt
  <2>1. /\ stored' \subseteq All /\ view' \subseteq All /\ snapshot' \subseteq All
        /\ raced' \subseteq All /\ wire' \in Seq(WireMessage) /\ WireNeedsSocket'
    BY <1>1 DEF RoomSide, WireNeedsSocket, Gantt, Fetch, ReadTasks, Answer, All
  <2>2. RoomTyped'
    <3>1. /\ UNCHANGED <<seq, room, requests, socket, open>>
          /\ shown' \in BOOLEAN /\ cursor' \in Nat /\ stale' \in BOOLEAN
          /\ fetch' \in {"none", "asked", "read"}
          /\ base' \in Nat /\ outdated' \in BOOLEAN
      BY <1>1 DEF RoomSide, RoomTyped, Gantt, Fetch, ReadTasks, Answer, CurrentSeq
    <3> QED  BY <3>1 DEF RoomSide, RoomTyped
  <2>3. UNCHANGED ignored
    BY <1>1 DEF Gantt, Fetch, ReadTasks, Answer, Listen, Ignore, Apply, Gap, Receive
  <2> QED  BY <2>1, <2>2, <2>3 DEF RoomSide
<1>2. CASE Listen
  <2>1. wire # <<>> /\ wire' = Tail(wire)
    BY <1>2 DEF Listen, Ignore, Apply, Gap, Receive
  <2>2. wire' \in Seq(WireMessage) /\ received \in WireMessage
    BY <2>1 DEF RoomSide, received
  <2>3. received.about \subseteq All
    BY <2>2 DEF WireMessage
  <2>4. view' \subseteq All /\ cursor' \in Nat /\ stale' \in BOOLEAN
    <3>1. CASE Ignore
      BY <3>1 DEF RoomSide, RoomTyped, Ignore
    <3>2. CASE Apply
      BY <2>3, <3>2 DEF RoomSide, RoomTyped, Apply
    <3>3. CASE Gap
      BY <3>3 DEF RoomSide, RoomTyped, Gap
    <3> QED  BY <1>2, <3>1, <3>2, <3>3 DEF Listen
  <2>5. UNCHANGED <<stored, seq, room, requests, socket, open, shown, fetch, snapshot, history>>
    BY <1>2 DEF Listen, Ignore, Apply, Gap, Receive
  <2>6. RoomTyped'
    BY <2>4, <2>5 DEF RoomSide, RoomTyped
  <2>7. WireNeedsSocket'
    BY <2>1, <2>5 DEF RoomSide, WireNeedsSocket
  <2> QED  BY <2>2, <2>3, <2>4, <2>5, <2>6, <2>7 DEF RoomSide
<1> QED  BY <1>1, <1>2

(* A push adds a message about one cascade of the project.                 *)
LEMMA PushTyped ==
  ASSUME LiveTyped, NEW s \in Sockets, PushTo(s)
  PROVE  RoomSide'
<1>1. pushing # None /\ pushing \in Nat /\ RecordAt(pushing) \in Cascades
  BY DEF PushTo, LiveTyped, SubscriberSide, PushesCascades, F!Offsets
<1>2. wire' \in Seq(WireMessage) /\ WireNeedsSocket' /\ told' \subseteq Cascades
  <2>1. CASE UNCHANGED <<wire, told>>
    BY <2>1 DEF LiveTyped, RoomSide, WireNeedsSocket, PushTo
  <2>2. CASE /\ open
             /\ wire' = Append(wire, [seq |-> pushing, about |-> {RecordAt(pushing)}])
             /\ told' = told \cup {RecordAt(pushing)}
    <3>1. [seq |-> pushing, about |-> {RecordAt(pushing)}] \in WireMessage
      BY <1>1 DEF WireMessage, All
    <3>2. wire' \in Seq(WireMessage)
      BY <2>2, <3>1 DEF LiveTyped, RoomSide
    <3> QED  BY <1>1, <2>2, <3>2 DEF LiveTyped, RoomSide, WireNeedsSocket, PushTo
  <2> QED  BY <2>1, <2>2 DEF PushTo, Connected
<1>3. room' \subseteq room
  BY DEF PushTo
<1>4. RoomTyped'
  BY <1>3 DEF LiveTyped, RoomSide, RoomTyped, PushTo
<1> QED  BY <1>2, <1>4 DEF LiveTyped, RoomSide, PushTo

LEMMA LossTyped ==
  ASSUME RoomSide, SocketDrops \/ ApiRestarts
  PROVE  RoomSide'
<1>1. wire' = <<>> /\ wire' \in Seq(WireMessage) /\ told' \subseteq told
  <2>1. wire' = <<>> /\ told' \subseteq told
    BY DEF SocketDrops, ApiRestarts, Drop, Restart
  <2> QED  BY <2>1
<1>2. CASE SocketDrops
  BY <1>1, <1>2 DEF SocketDrops, Drop, RoomSide, RoomTyped, WireNeedsSocket
<1>3. CASE ApiRestarts
  <2>1. /\ stage' \in [Changes -> {"none", "sending", "committed", "failed"}]
        /\ number' \in [Changes -> Nat]
        /\ pending' \in [Changes -> SUBSET Sockets] /\ dead' \in [Changes -> SUBSET Sockets]
        /\ \A c \in Changes : pending'[c] = {}
    BY <1>3 DEF ApiRestarts, Restart, RoomSide, RoomTyped
  <2>2. RoomTyped'
    BY <1>3, <2>1 DEF ApiRestarts, Restart, RoomSide, RoomTyped
  <2> QED  BY <1>1, <1>3, <2>2 DEF ApiRestarts, Restart, RoomSide, WireNeedsSocket
<1> QED  BY <1>2, <1>3

LEMMA RoomStepTyped ==
  ASSUME RoomSide, RoomStep
  PROVE  RoomSide'
<1>1. ASSUME NEW c \in Changes, Announce(c) \/ Request(c), UNCHANGED heardOf PROVE RoomSide'
  BY <1>1, AnnounceTyped, SendTyped, EndsTyped DEF Request
<1>2. CASE (Endpoint \/ Connect \/ Unsubscribe) /\ UNCHANGED heardOf
  BY <1>2, EndpointTyped
<1>3. CASE /\ Gantt \/ Listen
           /\ UNCHANGED told /\ crossed' \in BOOLEAN
           /\ \/ UNCHANGED ignored
              \/ Listen /\ ignored' = ignored \cup received.about
  BY <1>3, ViewerTyped
<1>4. CASE (Fetch \/ ReadTasks) /\ UNCHANGED heardOf
  BY <1>3, <1>4 DEF Gantt, RoomSide
<1>5. CASE Answer /\ crossed' = FALSE /\ UNCHANGED <<told, ignored>>
  BY <1>3, <1>5 DEF Gantt
<1>6. CASE Ignore /\ ignored' = ignored \cup received.about /\ UNCHANGED <<told, crossed>>
  BY <1>3, <1>6 DEF Listen, RoomSide
<1>7. CASE Apply /\ crossed' = (crossed \/ received.about \subseteq Cascades)
                 /\ UNCHANGED <<told, ignored>>
  BY <1>3, <1>7 DEF Listen, RoomSide
<1>8. CASE Gap /\ UNCHANGED heardOf
  BY <1>3, <1>8 DEF Listen, RoomSide
<1> QED  BY <1>1, <1>2, <1>4, <1>5, <1>6, <1>7, <1>8 DEF RoomStep

LEMMA NextRoomSide == LiveTyped /\ [LiveNext]_live => RoomSide'
<1> SUFFICES ASSUME LiveTyped, [LiveNext]_live PROVE RoomSide'
  OBVIOUS
<1>0. RoomSide
  BY DEF LiveTyped
<1>1. ASSUME NEW k \in Cascades, CascadeCommits(k) PROVE RoomSide'
  BY <1>0, <1>1 DEF CascadeCommits, RoomSide, RoomTyped, WireNeedsSocket, All
<1>2. CASE \/ \E k \in Cascades \cup Elsewhere : Relay(k)
           \/ FanOutStep \/ FanOutStops \/ Link \/ TakeMessage \/ Unlink \/ LiveIdle
           \/ UNCHANGED live
  <2>1. UNCHANGED <<vars, heardOf>>
    BY <1>2 DEF Relay, FanOutStep, FanOutStops, Link, TakeMessage, Unlink, LiveIdle, live
  <2> QED  BY <1>0, <2>1, RoomSideKept
<1>3. ASSUME NEW s \in Sockets, PushTo(s) PROVE RoomSide'
  BY <1>3, PushTyped
<1>4. CASE RoomStep
  BY <1>0, <1>4, RoomStepTyped
<1>5. CASE SocketDrops \/ ApiRestarts
  BY <1>0, <1>5, LossTyped
<1> QED  BY <1>1, <1>2, <1>3, <1>4, <1>5 DEF LiveNext, Subscriber

LEMMA NextTyped == LiveTyped /\ [LiveNext]_live => LiveTyped'
<1> SUFFICES ASSUME LiveTyped, [LiveNext]_live PROVE LiveTyped'
  OBVIOUS
<1>1. stored \subseteq stored'
  BY StoredGrows DEF LiveTyped
<1>2. RelaysCommitted'
  BY <1>1, RelaysCommittedKept
<1>3. F!StreamInv'
  BY NextStream DEF LiveTyped
<1> QED  BY <1>2, <1>3, NextRoomSide, NextSubscriberSide DEF LiveTyped
-----------------------------------------------------------------------------
(* The invariant                                                           *)

(* As in RoomProofs: a number is given out once, and not before the        *)
(* request announces its change.                                           *)
NumbersUnique ==
  /\ \A c \in Changes : /\ number[c] <= seq
                        /\ stage[c] = "none" => number[c] = 0
                        /\ stage[c] = "sending" => number[c] # 0
                        /\ c \in stored => stage[c] = "committed"
  /\ \A c, d \in Changes : number[c] = number[d] /\ number[c] # 0 => c = d

(* A message is about no request or tells of one under its number.         *)
WireNumbered ==
  \A i \in DOMAIN wire :
    \/ wire[i].about \subseteq Cascades
    \/ \E c \in Changes : wire[i].about = {c} /\ number[c] = wire[i].seq /\ number[c] # 0

(* A cascade that the viewer was told of is stored, and if its message has *)
(* been taken, the viewer shows it, has ignored it, or will fetch it.      *)
ToldComes ==
  \A k \in told :
    /\ k \in stored
    /\ \/ k \in OnTheWire
       \/ /\ fetch = "read" => k \in snapshot
          /\ k \in view \cup ignored \/ stale \/ ~ shown

(* Until an event of the pipeline moves it, the cursor counts events of    *)
(* this process that the viewer has applied.                               *)
CountsOwn ==
  shown /\ ~ outdated =>
    /\ base <= seq
    /\ ~ crossed =>
         /\ cursor <= seq
         /\ \A c \in Changes \ Reschedules : number[c] \in base + 1 .. cursor => c \in view

(* An event above the cursor is owed to the viewer's socket, or the wire   *)
(* carries that seq or a later one, whoever numbered it.                   *)
OnItsWay ==
  shown /\ ~ stale /\ ~ outdated /\ open /\ socket \in room =>
    \A c \in Changes : number[c] > cursor =>
      socket \in pending[c] \/ \E i \in DOMAIN wire : wire[i].seq >= number[c]

(* What the last Gantt lacks of the changes up to its seq is in raced.     *)
GanttShows ==
  /\ shown /\ ~ outdated =>
       /\ \A c \in Changes : number[c] \in 1 .. base => c \in view \cup raced
       /\ \A c \in Changes \cap stored : number[c] = 0 => c \in view
  /\ fetch = "read" => \A c \in Changes \cap stored : number[c] = 0 => c \in snapshot

Seen == NumbersUnique /\ WireNumbered /\ ToldComes /\ CountsOwn /\ OnItsWay /\ GanttShows

LInv == LiveTyped /\ Seen

LEMMA InitLInv == LiveInit => LInv
<1> SUFFICES ASSUME LiveInit PROVE LInv
  OBVIOUS
<1>1. Seen
  BY DEF LiveInit, Init, Seen, NumbersUnique, WireNumbered, ToldComes, CountsOwn, OnItsWay, GanttShows
<1> QED  BY <1>1, InitTyped DEF LInv

(* What sending a message does to the wire.                                *)
LEMMA WireAppended ==
  ASSUME RoomSide, NEW m \in WireMessage, wire' = Append(wire, m)
  PROVE  /\ Len(wire) + 1 \in DOMAIN wire' /\ wire'[Len(wire) + 1] = m
         /\ \A i \in DOMAIN wire : i \in DOMAIN wire' /\ wire'[i] = wire[i]
         /\ \A i \in DOMAIN wire' : i \in DOMAIN wire \/ wire'[i] = m
         /\ OnTheWire' = OnTheWire \cup m.about
<1>1. /\ Len(wire) + 1 \in DOMAIN wire' /\ wire'[Len(wire) + 1] = m
      /\ \A i \in DOMAIN wire : i \in DOMAIN wire' /\ wire'[i] = wire[i]
      /\ \A i \in DOMAIN wire' : i \in DOMAIN wire \/ wire'[i] = m
  BY DEF RoomSide
<1>2. OnTheWire' = OnTheWire \cup m.about
  BY <1>1 DEF OnTheWire
<1> QED  BY <1>1, <1>2

(* What receiving the first message does to it.                            *)
LEMMA WireTaken ==
  ASSUME RoomSide, wire # <<>>, wire' = Tail(wire)
  PROVE  /\ 1 \in DOMAIN wire /\ received = wire[1] /\ received \in WireMessage
         /\ \A i \in DOMAIN wire : i = 1 \/ (i - 1 \in DOMAIN wire' /\ wire'[i - 1] = wire[i])
         /\ \A i \in DOMAIN wire' : i + 1 \in DOMAIN wire /\ wire'[i] = wire[i + 1]
         /\ OnTheWire \subseteq OnTheWire' \cup received.about
<1>0. wire \in Seq(WireMessage)
  BY DEF RoomSide
<1>1. 1 \in DOMAIN wire /\ received = wire[1] /\ received \in WireMessage
  BY <1>0 DEF received
<1>2. \A i \in DOMAIN wire : i = 1 \/ (i - 1 \in DOMAIN wire' /\ wire'[i - 1] = wire[i])
  BY <1>0
<1>3. \A i \in DOMAIN wire' : i + 1 \in DOMAIN wire /\ wire'[i] = wire[i + 1]
  BY <1>0
<1>4. OnTheWire \subseteq OnTheWire' \cup received.about
  <2> SUFFICES ASSUME NEW k \in OnTheWire, k \notin received.about PROVE k \in OnTheWire'
    OBVIOUS
  <2>1. PICK i \in DOMAIN wire : k \in wire[i].about
    BY DEF OnTheWire
  <2>2. i - 1 \in DOMAIN wire' /\ wire'[i - 1] = wire[i]
    BY <1>1, <1>2, <2>1
  <2> QED  BY <2>1, <2>2 DEF OnTheWire
<1> QED  BY <1>1, <1>2, <1>3, <1>4

(* What is stored beside the requests is no concern of theirs.             *)
LEMMA CascadeSeen ==
  ASSUME LInv, NEW k \in Cascades, CascadeCommits(k)
  PROVE  Seen'
<1>1. stored' = stored \cup {k} /\ k \notin Changes
  BY LiveAssumption DEF CascadeCommits
<1>2. UNCHANGED <<seq, room, requests, connection, viewer, history, heardOf>>
  BY DEF CascadeCommits
<1>3. NumbersUnique' /\ WireNumbered'
  BY <1>1, <1>2 DEF LInv, Seen, NumbersUnique, WireNumbered
<1>4. ToldComes'
  BY <1>1, <1>2 DEF LInv, Seen, ToldComes, OnTheWire
<1>5. CountsOwn' /\ OnItsWay' /\ GanttShows'
  BY <1>1, <1>2 DEF LInv, Seen, CountsOwn, OnItsWay, GanttShows
<1> QED  BY <1>3, <1>4, <1>5 DEF Seen

LEMMA SeenKept == Seen /\ UNCHANGED <<vars, heardOf>> => Seen'
<1> SUFFICES ASSUME Seen, UNCHANGED <<vars, heardOf>> PROVE Seen'
  OBVIOUS
<1>1. NumbersUnique' /\ WireNumbered' /\ ToldComes'
  BY DEF Seen, NumbersUnique, WireNumbered, ToldComes, OnTheWire, vars
<1>2. CountsOwn' /\ OnItsWay' /\ GanttShows'
  BY DEF Seen, CountsOwn, OnItsWay, GanttShows, vars
<1> QED  BY <1>1, <1>2 DEF Seen

(* A push tells of a cascade whose record was relayed, so it is stored.    *)
LEMMA PushSeen ==
  ASSUME LInv, NEW s \in Sockets, PushTo(s)
  PROVE  Seen'
<1> DEFINE k == RecordAt(pushing)
           m == [seq |-> pushing, about |-> {k}]
<1>1. /\ UNCHANGED <<stored, seq, stage, number, pending, socket, open, viewer, history>>
      /\ UNCHANGED <<ignored, crossed>> /\ room' \subseteq room
      /\ UNCHANGED <<wire, told>> \/ (wire' = Append(wire, m) /\ told' = told \cup {k})
  BY DEF PushTo
<1>2. RoomSide /\ k \in Cascades /\ k \in stored /\ m \in WireMessage
  <2>1. pushing # None /\ pushing + 1 \in DOMAIN topic /\ pushing \in Nat
    BY DEF PushTo, LInv, LiveTyped, SubscriberSide, F!StreamInv, F!TypeOK, F!Offsets
  <2>2. k \in Cascades /\ k \in stored
    BY <2>1 DEF LInv, LiveTyped, SubscriberSide, PushesCascades, RelaysCommitted, RecordAt
  <2> QED  BY <2>1, <2>2 DEF LInv, LiveTyped, WireMessage, All
<1> HIDE DEF k, m
<1>3. /\ \A i \in DOMAIN wire : i \in DOMAIN wire' /\ wire'[i] = wire[i]
      /\ \A i \in DOMAIN wire' : i \in DOMAIN wire \/ wire'[i] = m
      /\ OnTheWire' = OnTheWire \/ OnTheWire' = OnTheWire \cup m.about
  <2>1. CASE UNCHANGED <<wire, told>>
    BY <2>1 DEF OnTheWire
  <2>2. CASE wire' = Append(wire, m)
    BY <1>2, <2>2, WireAppended
  <2> QED  BY <1>1, <2>1, <2>2
<1>4. m.about = {k}
  BY DEF m
<1>5. NumbersUnique' /\ CountsOwn' /\ GanttShows'
  BY <1>1 DEF LInv, Seen, NumbersUnique, CountsOwn, GanttShows
<1>6. WireNumbered'
  BY <1>1, <1>2, <1>3, <1>4 DEF LInv, Seen, WireNumbered
<1>7. ToldComes'
  <2>1. CASE UNCHANGED <<wire, told>>
    BY <1>1, <2>1 DEF LInv, Seen, ToldComes, OnTheWire
  <2>2. CASE wire' = Append(wire, m) /\ told' = told \cup {k}
    <3>1. OnTheWire' = OnTheWire \cup {k}
      BY <1>2, <1>4, <2>2, WireAppended
    <3> QED  BY <1>1, <1>2, <2>2, <3>1 DEF LInv, Seen, ToldComes
  <2> QED  BY <1>1, <2>1, <2>2
<1>8. OnItsWay'
  BY <1>1, <1>3 DEF LInv, Seen, OnItsWay
<1> QED  BY <1>5, <1>6, <1>7, <1>8 DEF Seen
(* A new event is owed to every socket in the room.                        *)
LEMMA AnnounceSeen ==
  ASSUME LInv, NEW c \in Changes, Announce(c), UNCHANGED heardOf
  PROVE  Seen'
<1>1. /\ seq' = seq + 1 /\ number'[c] = seq + 1 /\ stage'[c] = "sending" /\ pending'[c] = room
      /\ number[c] = 0 /\ stage[c] = "none"
      /\ \A d \in Changes \ {c} : /\ number'[d] = number[d] /\ stage'[d] = stage[d]
                                  /\ pending'[d] = pending[d]
  BY DEF LInv, LiveTyped, RoomSide, RoomTyped, Seen, NumbersUnique, Announce, NextSeq
<1>2. /\ UNCHANGED <<stored, room, connection, viewer, history>>
      /\ seq \in Nat /\ base \in Nat /\ cursor \in Nat
      /\ \A d \in Changes : number[d] \in Nat /\ number[d] <= seq
  BY DEF Announce, LInv, LiveTyped, RoomSide, RoomTyped, Seen, NumbersUnique
<1>3. NumbersUnique'
  BY <1>1, <1>2 DEF LInv, Seen, NumbersUnique
<1>4. WireNumbered'
  <2>1. wire \in Seq(WireMessage)
    BY DEF LInv, LiveTyped, RoomSide
  <2> SUFFICES ASSUME NEW i \in DOMAIN wire, NEW d \in Changes, wire[i].about = {d},
                      number[d] = wire[i].seq, number[d] # 0
               PROVE  number'[d] = wire[i].seq /\ number'[d] # 0
    BY <1>2 DEF LInv, Seen, WireNumbered
  <2> QED  BY <1>1
<1>5. ToldComes'
  BY <1>2 DEF LInv, Seen, ToldComes, OnTheWire
<1>6. CountsOwn'
  BY <1>1, <1>2 DEF LInv, Seen, CountsOwn
<1>7. OnItsWay'
  BY <1>1, <1>2 DEF LInv, Seen, OnItsWay
<1>8. GanttShows'
  <2>1. c \notin stored
    BY <1>1 DEF LInv, Seen, NumbersUnique
  <2>2. \A d \in Changes \cap stored : number'[d] = 0 => number[d] = 0
    BY <1>1, <2>1
  <2>3. shown /\ ~ outdated => number'[c] \notin 1 .. base
    BY <1>1, <1>2 DEF LInv, Seen, CountsOwn
  <2>4. shown /\ ~ outdated => \A d \in Changes : number'[d] \in 1 .. base => d \in view \cup raced
    BY <1>1, <2>3 DEF LInv, Seen, GanttShows
  <2> QED  BY <1>2, <2>2, <2>4 DEF LInv, Seen, GanttShows
<1> QED  BY <1>3, <1>4, <1>5, <1>6, <1>7, <1>8 DEF Seen

(* What is sent to the viewer's socket is on its wire.                     *)
LEMMA SendSeen ==
  ASSUME LInv, NEW c \in Changes, NEW s \in Sockets, Send(c, s), UNCHANGED heardOf
  PROVE  Seen'
<1> DEFINE m == [seq |-> number[c], about |-> {c}]
<1>1. /\ UNCHANGED <<stored, seq, stage, number, socket, open, viewer, history>>
      /\ room' \subseteq room
      /\ pending'[c] = pending[c] \ {s}
      /\ \A d \in Changes \ {c} : pending'[d] = pending[d]
      /\ IF open /\ s = socket THEN wire' = Append(wire, m) ELSE wire' = wire
  BY DEF Send, Connected, LInv, LiveTyped, RoomSide, RoomTyped
<1>2. /\ RoomSide /\ m \in WireMessage /\ m.about = {c} /\ m.seq = number[c]
      /\ number[c] \in Nat /\ number[c] # 0
  <2>1. stage[c] = "sending"
    BY DEF Send, LInv, LiveTyped, RoomSide, RoomTyped
  <2> QED
    BY <2>1 DEF LInv, LiveTyped, RoomSide, RoomTyped, Seen, NumbersUnique, WireMessage, All
<1> HIDE DEF m
<1>3. /\ \A i \in DOMAIN wire : i \in DOMAIN wire' /\ wire'[i] = wire[i]
      /\ \A i \in DOMAIN wire' : i \in DOMAIN wire \/ wire'[i] = m
      /\ OnTheWire \subseteq OnTheWire'
  <2>1. CASE wire' = wire
    BY <2>1 DEF OnTheWire
  <2>2. CASE wire' = Append(wire, m)
    BY <1>2, <2>2, WireAppended
  <2> QED  BY <1>1, <2>1, <2>2
<1>4. NumbersUnique' /\ CountsOwn' /\ GanttShows'
  BY <1>1 DEF LInv, Seen, NumbersUnique, CountsOwn, GanttShows
<1>5. WireNumbered'
  BY <1>1, <1>2, <1>3 DEF LInv, Seen, WireNumbered
<1>6. ToldComes'
  BY <1>1, <1>3 DEF LInv, Seen, ToldComes
<1>7. OnItsWay'
  <2> SUFFICES ASSUME shown, ~ stale, ~ outdated, open, socket \in room,
                      NEW d \in Changes, number[d] > cursor, socket \notin pending'[d]
               PROVE  \E i \in DOMAIN wire' : wire'[i].seq >= number[d]
    BY <1>1 DEF OnItsWay
  <2>1. socket \in pending[d] \/ \E i \in DOMAIN wire : wire[i].seq >= number[d]
    BY DEF LInv, Seen, OnItsWay
  <2>2. CASE socket \in pending[d]
    <3>1. d = c /\ s = socket
      BY <1>1, <2>2
    <3>2. Len(wire) + 1 \in DOMAIN wire' /\ wire'[Len(wire) + 1] = m
      BY <1>1, <1>2, <3>1, WireAppended
    <3> QED  BY <1>2, <3>1, <3>2
  <2>3. CASE \E i \in DOMAIN wire : wire[i].seq >= number[d]
    BY <1>3, <2>3
  <2> QED  BY <2>1, <2>2, <2>3
<1> QED  BY <1>4, <1>5, <1>6, <1>7 DEF Seen

(* A request that ends has been announced.                                 *)
LEMMA EndsSeen ==
  ASSUME LInv, NEW c \in Changes, Commit(c) \/ Rollback(c), UNCHANGED heardOf
  PROVE  Seen'
<1>1. PICK how \in {"committed", "failed"} :
        /\ Ends(c, how)
        /\ stored' = IF how = "committed" THEN stored \cup {c} ELSE stored
  BY DEF Commit, Rollback
<1>2. /\ stage[c] = "sending" /\ number[c] # 0 /\ stage'[c] = how
      /\ \A d \in Changes \ {c} : stage'[d] = stage[d]
      /\ UNCHANGED <<seq, room, number, pending, connection, viewer, history>>
  BY <1>1 DEF Ends, LInv, LiveTyped, RoomSide, RoomTyped, Seen, NumbersUnique
<1>3. NumbersUnique'
  <2>1. c \notin stored
    BY <1>2 DEF LInv, Seen, NumbersUnique
  <2>2. \A d \in Changes : /\ stage'[d] = "none" => stage[d] = "none"
                           /\ stage'[d] = "sending" => stage[d] = "sending"
                           /\ d \in stored' => stage'[d] = "committed"
    <3>1. CASE how = "committed"
      BY <1>1, <1>2, <3>1 DEF LInv, Seen, NumbersUnique
    <3>2. CASE how = "failed"
      BY <1>1, <1>2, <2>1, <3>2 DEF LInv, Seen, NumbersUnique
    <3> QED  BY <3>1, <3>2
  <2> QED  BY <1>2, <2>2 DEF LInv, Seen, NumbersUnique
<1>4. WireNumbered' /\ OnItsWay' /\ CountsOwn'
  BY <1>2 DEF LInv, Seen, WireNumbered, OnItsWay, CountsOwn
<1>5. ToldComes'
  BY <1>1, <1>2 DEF LInv, Seen, ToldComes, OnTheWire
<1>6. GanttShows'
  BY <1>1, <1>2 DEF LInv, Seen, GanttShows
<1> QED  BY <1>3, <1>4, <1>5, <1>6 DEF Seen

(* A socket that enters the room is told the current seq.                  *)
LEMMA EndpointSeen ==
  ASSUME LInv, Endpoint \/ Connect \/ Unsubscribe, UNCHANGED heardOf
  PROVE  Seen'
<1>1. /\ UNCHANGED <<stored, seq, number, stage, pending, outdated, cursor, base, view, raced>>
      /\ shown' => shown
      /\ stale' = stale \/ ~ shown'
      /\ (fetch' = "read") => (fetch = "read" /\ snapshot' = snapshot)
  BY DEF Endpoint, Subscribe, Disconnect, Connect, Unsubscribe
<1>2. NumbersUnique' /\ CountsOwn' /\ GanttShows'
  BY <1>1 DEF LInv, Seen, NumbersUnique, CountsOwn, GanttShows
<1>3. RoomSide
  BY DEF LInv, LiveTyped
<1>4. CASE Subscribe
  <2>1. Ack \in WireMessage /\ Ack.about = {} /\ Ack.seq = seq
    BY <1>3 DEF Ack, WireMessage, RoomSide, RoomTyped
  <2>2. /\ Len(wire) + 1 \in DOMAIN wire' /\ wire'[Len(wire) + 1] = Ack
        /\ \A i \in DOMAIN wire : i \in DOMAIN wire' /\ wire'[i] = wire[i]
        /\ \A i \in DOMAIN wire' : i \in DOMAIN wire \/ wire'[i] = Ack
        /\ OnTheWire' = OnTheWire
    <3>1. wire' = Append(wire, Ack)
      BY <1>4 DEF Subscribe
    <3>2. OnTheWire' = OnTheWire \cup Ack.about
      BY <1>3, <2>1, <3>1, WireAppended
    <3>3. OnTheWire' = OnTheWire
      BY <2>1, <3>2
    <3> QED  BY <1>3, <2>1, <3>1, <3>3, WireAppended
  <2>3. WireNumbered'
    BY <1>1, <2>1, <2>2 DEF LInv, Seen, WireNumbered
  <2>4. ToldComes'
    BY <1>1, <1>4, <2>2 DEF LInv, Seen, ToldComes, Subscribe
  <2>5. OnItsWay'
    <3>1. \A d \in Changes : Ack.seq >= number[d]
      BY <1>3, <2>1 DEF RoomSide, RoomTyped, LInv, Seen, NumbersUnique
    <3> QED  BY <1>1, <2>2, <3>1 DEF OnItsWay
  <2> QED  BY <1>2, <2>3, <2>4, <2>5 DEF Seen
<1>5. ASSUME ~ Subscribe PROVE Seen'
  <2>1. UNCHANGED wire
    BY <1>3, <1>5 DEF Endpoint, Disconnect, Connect, Unsubscribe, RoomSide, WireNeedsSocket
  <2>2. WireNumbered'
    BY <1>1, <2>1 DEF LInv, Seen, WireNumbered
  <2>3. ToldComes'
    <3>1. OnTheWire' = OnTheWire
      BY <2>1 DEF OnTheWire
    <3> QED  BY <1>1, <3>1 DEF LInv, Seen, ToldComes
  <2>4. OnItsWay'
    <3>1. CASE Connect
      <4>1. socket' \notin room'
        BY <1>3, <3>1 DEF Connect, RoomSide, RoomTyped
      <4> QED  BY <4>1 DEF OnItsWay
    <3>2. CASE Unsubscribe
      BY <3>2 DEF Unsubscribe, OnItsWay
    <3>3. ASSUME NEW s \in Sockets, Disconnect(s) PROVE OnItsWay'
      BY <3>3 DEF Disconnect, LInv, Seen, OnItsWay
    <3> QED  BY <1>5, <3>1, <3>2, <3>3 DEF Endpoint
  <2> QED  BY <1>2, <2>2, <2>3, <2>4 DEF Seen
<1> QED  BY <1>4, <1>5
(* A Gantt read after a cascade was told has it, and gives the viewer the  *)
(* seq of the moment it is answered.                                       *)
LEMMA FetchSeen ==
  ASSUME LInv, Fetch \/ ReadTasks, UNCHANGED heardOf
  PROVE  Seen'
<1>1. /\ UNCHANGED <<stored, seq, room, requests, connection, history>>
      /\ UNCHANGED <<shown, view, cursor, stale>>
      /\ fetch' = "asked" \/ (fetch' = "read" /\ snapshot' = stored)
  BY DEF Fetch, ReadTasks
<1>2. NumbersUnique' /\ WireNumbered' /\ CountsOwn' /\ OnItsWay'
  BY <1>1 DEF LInv, Seen, NumbersUnique, WireNumbered, CountsOwn, OnItsWay
<1>3. ToldComes'
  BY <1>1 DEF LInv, Seen, ToldComes, OnTheWire
<1>4. GanttShows'
  <2>1. fetch' = "read" => \A c \in Changes \cap stored : c \in snapshot'
    BY <1>1
  <2> QED  BY <1>1, <2>1 DEF LInv, Seen, GanttShows
<1> QED  BY <1>2, <1>3, <1>4 DEF Seen

LEMMA AnswerSeen ==
  ASSUME LInv, Answer, crossed' = FALSE, UNCHANGED <<told, ignored>>
  PROVE  Seen'
<1>1. /\ UNCHANGED <<stored, seq, room, requests, connection>>
      /\ cursor' = seq /\ base' = seq /\ view' = snapshot /\ fetch' = "none" /\ fetch = "read"
      /\ raced' = {c \in Changes \ snapshot : number[c] # 0}
  BY DEF Answer, CurrentSeq
<1>2. seq \in Nat /\ \A d \in Changes : number[d] \in Nat /\ number[d] <= seq
  BY DEF LInv, LiveTyped, RoomSide, RoomTyped, Seen, NumbersUnique
<1>3. NumbersUnique' /\ WireNumbered'
  BY <1>1 DEF LInv, Seen, NumbersUnique, WireNumbered
<1>4. ToldComes'
  BY <1>1 DEF LInv, Seen, ToldComes, OnTheWire
<1>5. CountsOwn' /\ OnItsWay'
  BY <1>1, <1>2 DEF CountsOwn, OnItsWay
<1>6. GanttShows'
  <2>1. \A c \in Changes : number[c] \in 1 .. seq => c \in snapshot \cup raced'
    BY <1>1, <1>2
  <2> QED  BY <1>1, <2>1 DEF LInv, Seen, GanttShows
<1> QED  BY <1>3, <1>4, <1>5, <1>6 DEF Seen

(* A message is taken off the wire only when the cursor has reached it or  *)
(* the viewer knows that it must fetch again; only an event of the         *)
(* pipeline moves the cursor past one of a request.                        *)
LEMMA ListenSeen ==
  ASSUME LInv, UNCHANGED told,
         \/ Ignore /\ ignored' = ignored \cup received.about /\ UNCHANGED crossed
         \/ Apply /\ crossed' = (crossed \/ received.about \subseteq Cascades) /\ UNCHANGED ignored
         \/ Gap /\ UNCHANGED <<ignored, crossed>>
  PROVE  Seen'
<1>1. /\ UNCHANGED <<stored, seq, room, requests, socket, open, shown, fetch, snapshot, history>>
      /\ wire # <<>> /\ wire' = Tail(wire) /\ fetch = "none" /\ shown
  BY DEF Ignore, Apply, Gap, Receive
<1>2. RoomSide
  BY DEF LInv, LiveTyped
<1>3. /\ 1 \in DOMAIN wire /\ received = wire[1] /\ received \in WireMessage
      /\ \A i \in DOMAIN wire : i = 1 \/ (i - 1 \in DOMAIN wire' /\ wire'[i - 1] = wire[i])
      /\ \A i \in DOMAIN wire' : i + 1 \in DOMAIN wire /\ wire'[i] = wire[i + 1]
      /\ OnTheWire \subseteq OnTheWire' \cup received.about
  BY <1>1, <1>2, WireTaken
<1>4. /\ cursor \in Nat /\ base \in Nat /\ seq \in Nat /\ received.seq \in Nat
      /\ \A d \in Changes : number[d] \in Nat /\ number[d] <= seq
      /\ crossed \in BOOLEAN
  BY <1>2, <1>3 DEF WireMessage, RoomSide, RoomTyped, LInv, Seen, NumbersUnique
<1>5. cursor' \in {cursor, cursor + 1} /\ view \subseteq view' /\ ignored \subseteq ignored'
  BY DEF Ignore, Apply, Gap
<1>6. NumbersUnique' /\ WireNumbered'
  BY <1>1, <1>3 DEF LInv, Seen, NumbersUnique, WireNumbered
<1>7. ToldComes'
  <2> SUFFICES ASSUME NEW k \in told, k \notin OnTheWire'
               PROVE  k \in view' \cup ignored' \/ stale' \/ ~ shown
    BY <1>1 DEF LInv, Seen, ToldComes
  <2>1. CASE k \in OnTheWire
    <3>1. k \in received.about /\ k \notin Reschedules
      BY <1>2, <1>3, <2>1, LiveAssumption, RoomAssumption DEF RoomSide
    <3> QED  BY <3>1 DEF Ignore, Apply, Gap
  <2>2. CASE k \notin OnTheWire
    <3>1. k \in view \cup ignored \/ stale
      BY <1>1, <2>2 DEF LInv, Seen, ToldComes
    <3>2. stale => stale'
      BY DEF Ignore, Apply, Gap
    <3> QED  BY <1>5, <3>1, <3>2
  <2> QED  BY <2>1, <2>2
<1>8. OnItsWay'
  <2> SUFFICES ASSUME shown, ~ stale', ~ outdated, open, socket \in room,
                      NEW d \in Changes, number[d] > cursor', socket \notin pending[d]
               PROVE  \E i \in DOMAIN wire' : wire'[i].seq >= number[d]
    BY <1>1 DEF OnItsWay
  <2>1. received.seq <= cursor' /\ ~ stale
    BY <1>4 DEF Ignore, Apply, Gap, IsNext
  <2>2. number[d] > cursor /\ number[d] \in Nat /\ cursor' \in Nat
    BY <1>4, <1>5
  <2>3. PICK i \in DOMAIN wire : wire[i].seq >= number[d]
    BY <2>1, <2>2 DEF LInv, Seen, OnItsWay
  <2>4. i # 1
    BY <1>3, <1>4, <2>1, <2>2, <2>3
  <2> QED  BY <1>3, <2>3, <2>4
<1>9. CountsOwn'
  <2>1. CASE (Ignore \/ Gap) /\ UNCHANGED crossed
    <3>1. UNCHANGED <<cursor, view, crossed>>
      BY <2>1 DEF Ignore, Gap
    <3> QED  BY <1>1, <3>1 DEF LInv, Seen, CountsOwn
  <2>2. CASE /\ Apply /\ received.about \subseteq Cascades
             /\ crossed' = (crossed \/ received.about \subseteq Cascades)
    <3>1. crossed'
      BY <2>2
    <3> QED  BY <1>1, <3>1 DEF LInv, Seen, CountsOwn
  <2>3. CASE /\ Apply /\ ~ (received.about \subseteq Cascades)
             /\ crossed' = (crossed \/ received.about \subseteq Cascades)
    <3>1. PICK c \in Changes : received.about = {c} /\ number[c] = cursor + 1
      BY <1>3, <2>3 DEF LInv, Seen, WireNumbered, Apply, IsNext
    <3>2. cursor' = cursor + 1 /\ view' = view \cup ({c} \ Reschedules) /\ crossed' = crossed
      BY <1>4, <2>3, <3>1 DEF Apply
    <3> SUFFICES ASSUME shown, ~ outdated, ~ crossed
                 PROVE  /\ cursor + 1 <= seq
                        /\ \A d \in Changes \ Reschedules :
                             number[d] \in base + 1 .. cursor + 1 => d \in view'
      BY <1>1, <3>2 DEF LInv, Seen, CountsOwn
    <3>3. cursor + 1 <= seq
      BY <1>4, <3>1
    <3>4. ASSUME NEW d \in Changes \ Reschedules, number[d] \in base + 1 .. cursor + 1
          PROVE  d \in view'
      <4>1. CASE number[d] = cursor + 1
        <5>1. d = c
          BY <1>4, <3>1, <4>1 DEF LInv, Seen, NumbersUnique
        <5> QED  BY <3>2, <5>1
      <4>2. CASE number[d] # cursor + 1
        <5>1. number[d] \in base + 1 .. cursor
          BY <1>4, <3>4, <4>2
        <5> QED  BY <3>2, <5>1 DEF LInv, Seen, CountsOwn
      <4> QED  BY <4>1, <4>2
    <3> QED  BY <3>3, <3>4
  <2> QED  BY <2>1, <2>2, <2>3
<1>10. GanttShows'
  BY <1>1, <1>5 DEF LInv, Seen, GanttShows
<1> QED  BY <1>6, <1>7, <1>8, <1>9, <1>10 DEF Seen

(* What was told on a socket that is lost counts as lost, and after a      *)
(* restart the viewer's cursor means nothing.                              *)
LEMMA LossSeen ==
  ASSUME LInv, SocketDrops \/ ApiRestarts
  PROVE  Seen'
<1>1. wire' = <<>> /\ told' = told \ OnTheWire /\ UNCHANGED <<stored, shown, view, stale, ignored>>
  BY DEF SocketDrops, ApiRestarts, Drop, Restart
<1>2. /\ fetch' = "read" => (fetch = "read" /\ snapshot' = snapshot)
      /\ WireNumbered'
  BY <1>1 DEF SocketDrops, ApiRestarts, Drop, Restart, WireNumbered
<1>3. ToldComes'
  BY <1>1, <1>2 DEF LInv, Seen, ToldComes
<1>4. CASE SocketDrops
  <2>1. /\ UNCHANGED <<seq, stage, number, outdated, cursor, base, raced, crossed>>
        /\ ~ open'
    BY <1>4 DEF SocketDrops, Drop
  <2>2. NumbersUnique' /\ CountsOwn' /\ OnItsWay' /\ GanttShows'
    BY <1>1, <1>2, <2>1 DEF LInv, Seen, NumbersUnique, CountsOwn, OnItsWay, GanttShows
  <2> QED  BY <1>2, <1>3, <2>2 DEF Seen
<1>5. CASE ApiRestarts
  <2>1. /\ outdated' = TRUE /\ fetch' = "none" /\ seq' = 0
        /\ \A c \in Changes : number'[c] = 0 /\ stage'[c] # "sending"
                              /\ (stage[c] = "committed" => stage'[c] = "committed")
    BY <1>5 DEF ApiRestarts, Restart, LInv, LiveTyped, RoomSide, RoomTyped
  <2>2. NumbersUnique' /\ CountsOwn' /\ OnItsWay' /\ GanttShows'
    BY <1>1, <2>1 DEF LInv, Seen, NumbersUnique, CountsOwn, OnItsWay, GanttShows
  <2> QED  BY <1>2, <1>3, <2>2 DEF Seen
<1> QED  BY <1>4, <1>5
LEMMA RoomStepSeen ==
  ASSUME LInv, RoomStep
  PROVE  Seen'
<1>1. ASSUME NEW c \in Changes, Announce(c) \/ Request(c), UNCHANGED heardOf PROVE Seen'
  BY <1>1, AnnounceSeen, SendSeen, EndsSeen DEF Request
<1>2. CASE (Endpoint \/ Connect \/ Unsubscribe) /\ UNCHANGED heardOf
  BY <1>2, EndpointSeen
<1>3. CASE (Fetch \/ ReadTasks) /\ UNCHANGED heardOf
  BY <1>3, FetchSeen
<1>4. CASE Answer /\ crossed' = FALSE /\ UNCHANGED <<told, ignored>>
  BY <1>4, AnswerSeen
<1>5. CASE \/ Ignore /\ ignored' = ignored \cup received.about /\ UNCHANGED <<told, crossed>>
           \/ Apply /\ crossed' = (crossed \/ received.about \subseteq Cascades)
                    /\ UNCHANGED <<told, ignored>>
           \/ Gap /\ UNCHANGED heardOf
  BY <1>5, ListenSeen
<1> QED  BY <1>1, <1>2, <1>3, <1>4, <1>5 DEF RoomStep

LEMMA NextLInv == LInv /\ [LiveNext]_live => LInv'
<1> SUFFICES ASSUME LInv, [LiveNext]_live PROVE LInv'
  OBVIOUS
<1>1. LiveTyped'
  BY NextTyped DEF LInv
<1>2. CASE \/ \E k \in Cascades \cup Elsewhere : Relay(k)
           \/ FanOutStep \/ FanOutStops \/ Link \/ TakeMessage \/ Unlink \/ LiveIdle
           \/ UNCHANGED live
  <2>1. UNCHANGED <<vars, heardOf>>
    BY <1>2 DEF Relay, FanOutStep, FanOutStops, Link, TakeMessage, Unlink, LiveIdle, live
  <2> QED  BY <1>1, <2>1, SeenKept DEF LInv
<1>3. ASSUME NEW k \in Cascades, CascadeCommits(k) PROVE LInv'
  BY <1>1, <1>3, CascadeSeen DEF LInv
<1>4. ASSUME NEW s \in Sockets, PushTo(s) PROVE LInv'
  BY <1>1, <1>4, PushSeen DEF LInv
<1>5. CASE RoomStep
  BY <1>1, <1>5, RoomStepSeen DEF LInv
<1>6. CASE SocketDrops \/ ApiRestarts
  BY <1>1, <1>6, LossSeen DEF LInv
<1> QED  BY <1>2, <1>3, <1>4, <1>5, <1>6 DEF LiveNext, Subscriber

LEMMA Invariance == LiveSpec => []LInv
BY InitLInv, NextLInv, PTL DEF LiveSpec

-----------------------------------------------------------------------------
(* Results                                                                 *)

(* Each variable keeps its type; a push that has ended owes no socket      *)
(* anything.                                                               *)
THEOREM LiveTypeInvariant == LiveSpec => []LiveTypeOK
<1>1. LInv => LiveTypeOK
  BY TypedIsTypeOK DEF LInv
<1> QED  BY <1>1, Invariance, PTL

(* A cascade that the viewer was told of is on show when all is quiet, or  *)
(* was ignored for its seq: whatever ws-fanout repeats, however often the  *)
(* viewer, the subscriber or the api goes away and comes back, a gap leads *)
(* to a Gantt that has it (models.py:321-323, api/src/main.py:76-83,       *)
(* ws.py:46-59).                                                           *)
THEOREM ToldCascadesAreShown == LiveSpec => []ToldIsShown
<1>1. LInv => ToldIsShown
  <2>1. Quiet => OnTheWire = {}
    BY DEF Quiet, OnTheWire
  <2> QED  BY <2>1 DEF LInv, Seen, ToldComes, ToldIsShown, Quiet
<1> QED  BY <1>1, Invariance, PTL

(* While no event of the pipeline has moved its cursor, a quiet viewer     *)
(* misses only the requests that overlapped its last Gantt and the         *)
(* reschedules, although the pipeline's events share its wire under        *)
(* offsets that mean nothing beside the numbers of the requests            *)
(* (ws.py:46-78).                                                          *)
THEOREM PipelineCostsNoRequest == LiveSpec => []MissesNoRequest
<1>1. LInv => MissesNoRequest
  <2> SUFFICES ASSUME LInv, Quiet, ~ outdated, ~ crossed,
                      NEW c \in Changes, c \in stored, c \notin view, c \notin raced,
                      c \notin Reschedules
               PROVE  FALSE
    BY DEF MissesNoRequest
  <2>1. number[c] \in Nat /\ base \in Nat /\ cursor \in Nat /\ pending[c] = {}
    BY DEF Quiet, LInv, LiveTyped, RoomSide, RoomTyped
  <2>2. ~ (number[c] > cursor)
    BY <2>1 DEF Quiet, LInv, Seen, OnItsWay
  <2>3. number[c] # 0 /\ number[c] \notin 1 .. base
    BY DEF Quiet, LInv, Seen, GanttShows
  <2>4. number[c] \in base + 1 .. cursor
    BY <2>1, <2>2, <2>3
  <2> QED  BY <2>4 DEF Quiet, LInv, Seen, CountsOwn
<1> QED  BY <1>1, Invariance, PTL

(* Beside the room, ws-fanout still publishes the records of the partition *)
(* in order and leaves none out once it has committed an offset            *)
(* (ws_fanout/src/main.py:41-58).                                          *)
THEOREM LiveFanOutKeepsStream == LiveSpec => StreamKept
<1>1. LiveInit => F!Stream!Init
  BY DEF LiveInit, F!Init, F!Stream!Init
<1>2. F!StreamInv /\ F!StreamInv' /\ [LiveNext]_live => [F!Stream!Next]_(F!Stream!vars)
  <2> SUFFICES ASSUME F!StreamInv, F!StreamInv', [LiveNext]_live
               PROVE  [F!Stream!Next]_(F!Stream!vars)
    OBVIOUS
  <2>1. [FP!Next]_(FP!vars)
    BY LiveStepOfFanOut, SameFanOut DEF FP!vars
  <2>2. FP!StreamInv /\ FP!StreamInv'
    BY SameFanOut, PTL
  <2>3. [FP!Stream!Next]_(FP!Stream!vars)
    BY <2>1, <2>2, FP!StepOfStream
  <2> QED
    BY <2>3 DEF F!Stream!Next, FP!Stream!Next, F!Stream!vars, FP!Stream!vars, F!Stream!Produce,
       FP!Stream!Produce, F!Stream!Publish, FP!Stream!Publish, F!Stream!Settle, FP!Stream!Settle,
       FP!None
<1>3. LiveSpec => []F!StreamInv
  BY InitStream, NextStream, PTL DEF LiveSpec
<1> QED  BY <1>1, <1>2, <1>3, PTL DEF LiveSpec, StreamKept, F!StreamKept, F!Stream!Spec
=============================================================================
