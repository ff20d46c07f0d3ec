---------------------------- MODULE ProjectRoom -----------------------------
(***************************************************************************)
(* What a viewer of one project is shown: the room of the project in       *)
(* services/api/src/ws.py, the seq that numbers its events, GET /gantt,    *)
(* and the requests that change the project and broadcast what they did.   *)
(*                                                                         *)
(* One api process, in one event loop: the steps between two awaits are    *)
(* one action.  One viewer is followed, through all the sockets it opens;  *)
(* the others only make a broadcast slower, since it awaits one socket     *)
(* after the other.  The viewer is not part of the repository: it does     *)
(* what docs/api-contract.md asks of a client and keeps the events that    *)
(* arrive during a fetch until the fetch is answered.                      *)
(***************************************************************************)
EXTENDS Integers, Sequences, FiniteSets

CONSTANTS
  Changes,      \* the requests, each making one change to the project
  Reschedules,  \* those that are calls of reschedule_task
  Faults,       \* which faults happen: a subset of FaultKinds
  MaxSockets,   \* bound on the sockets the viewer opens
  MaxVisits,    \* bound on its subscriptions
  MaxRestarts   \* bound on the restarts of the api

FaultKinds == {"drop", "rollback", "restart"}

ASSUME RoomAssumption ==
  /\ Reschedules \subseteq Changes
  /\ Faults \subseteq FaultKinds
  /\ MaxSockets \in Nat /\ MaxVisits \in Nat /\ MaxRestarts \in Nat

VARIABLES
  (* Postgres *)
  stored,     \* the changes committed
  (* the api process *)
  seq,        \* _seq of the project
  room,       \* _rooms of the project: the viewer's sockets in it
  stage,      \* how far each request is
  number,     \* the seq of its event, 0 for none
  pending,    \* the sockets its broadcast has still to send to
  dead,       \* the sockets it could not send to
  (* the viewer's connection *)
  socket,     \* how many sockets it has opened; the last one is its own
  open,       \* that socket is connected
  wire,       \* the messages sent on it and not yet received
  (* the viewer *)
  shown,      \* it shows the project
  view,       \* the changes it shows
  cursor,     \* the seq it has reached
  stale,      \* it has noticed a gap and must refetch
  fetch,      \* how far its GET /gantt is
  snapshot,   \* the changes in the tasks that GET /gantt has read
  (* budgets *)
  visits, restarts,
  (* history, read by no action's guard *)
  base,       \* the seq of its last Gantt
  raced,      \* the changes announced before that seq was read and
              \* committed, if at all, after the tasks were
  outdated    \* the api has restarted since

requests == <<stage, number, pending, dead>>
connection == <<socket, open, wire>>
viewer == <<shown, view, cursor, stale, fetch, snapshot>>
history == <<base, raced, outdated>>
vars == <<stored, seq, room, requests, connection, viewer, visits, restarts, history>>

Sockets == 1 .. MaxSockets

Init ==
  /\ stored = {}
  /\ seq = 0
  /\ room = {}
  /\ stage = [c \in Changes |-> "none"]
  /\ number = [c \in Changes |-> 0]
  /\ pending = [c \in Changes |-> {}]
  /\ dead = [c \in Changes |-> {}]
  /\ socket = 0 /\ open = FALSE /\ wire = <<>>
  /\ shown = FALSE /\ view = {} /\ cursor = 0 /\ stale = FALSE
  /\ fetch = "none" /\ snapshot = {}
  /\ visits = 0 /\ restarts = 0
  /\ base = 0 /\ raced = {} /\ outdated = FALSE

-----------------------------------------------------------------------------
(* A request that changes the project.                                     *)

(* _next_seq.  The first form is a slip: the number is given out again.    *)
SeqGivenAgain == IF seq = 0 THEN 1 ELSE seq
NextSeq == seq + 1

(* The handler has flushed its change and calls broadcast, which numbers   *)
(* the event and copies the room.  The transaction is still open.          *)
Announce(c) ==
  /\ stage[c] = "none"
  /\ stage' = [stage EXCEPT ![c] = "sending"]
  /\ seq' = NextSeq
  /\ number' = [number EXCEPT ![c] = NextSeq]
  /\ pending' = [pending EXCEPT ![c] = room]
  /\ UNCHANGED <<stored, room, dead, connection, viewer, visits, restarts, history>>

Connected(s) == open /\ s = socket

(* One send of the broadcast.  To a socket that is gone it may fail or     *)
(* seem to succeed; after the last one the sockets that failed leave.      *)
Send(c, s) ==
  /\ s \in pending[c]
  /\ pending' = [pending EXCEPT ![c] = @ \ {s}]
  /\ IF Connected(s)
     THEN wire' = Append(wire, [seq |-> number[c], about |-> {c}]) /\ dead' = dead
     ELSE wire' = wire /\ \E failed \in {{}, {s}} : dead' = [dead EXCEPT ![c] = @ \cup failed]
  /\ room' = IF pending'[c] = {} THEN room \ dead'[c] ELSE room
  /\ UNCHANGED <<stored, seq, stage, number, socket, open, viewer, visits, restarts, history>>

(* The broadcast is awaited before the request returns.  The first form is *)
(* a slip: it is left to run on its own.                                   *)
NotAwaited(c) == TRUE
Awaited(c) == pending[c] = {}

Ends(c, how) ==
  /\ stage[c] = "sending"
  /\ Awaited(c)
  /\ stage' = [stage EXCEPT ![c] = how]
  /\ dead' = [dead EXCEPT ![c] = {}]
  /\ UNCHANGED <<seq, room, number, pending, connection, viewer, visits, restarts, history>>

(* async_session_scope commits, after everyone has been told.              *)
Commit(c) ==
  /\ Ends(c, "committed")
  /\ stored' = stored \cup {c}

(* The commit fails: nobody is told that the change was undone.            *)
Rollback(c) ==
  /\ "rollback" \in Faults
  /\ Ends(c, "failed")
  /\ UNCHANGED stored

-----------------------------------------------------------------------------
(* ws_endpoint.                                                            *)

Connect ==
  /\ ~ open
  /\ socket < MaxSockets
  /\ socket' = socket + 1
  /\ open' = TRUE
  /\ wire' = <<>>
  /\ UNCHANGED <<stored, seq, room, requests, viewer, visits, restarts, history>>

(* The "subscribed" message carries current_seq.  The first form is a      *)
(* slip: it is a bare acknowledgement.                                     *)
BareAck == [seq |-> 0, about |-> {}]
Ack == [seq |-> seq, about |-> {}]

Subscribe ==
  /\ open
  /\ socket \notin room
  /\ visits < MaxVisits
  /\ visits' = visits + 1
  /\ room' = room \cup {socket}
  /\ wire' = Append(wire, Ack)
  /\ UNCHANGED <<stored, seq, requests, socket, open, viewer, restarts, history>>

(* The viewer leaves the project; what is on its way still arrives.        *)
Unsubscribe ==
  /\ open
  /\ socket \in room
  /\ room' = room \ {socket}
  /\ shown' = FALSE
  /\ stale' = FALSE
  /\ fetch' = "none"
  /\ snapshot' = {}
  /\ UNCHANGED <<stored, seq, requests, connection, view, cursor, visits, restarts, history>>

Drop ==
  /\ "drop" \in Faults
  /\ open
  /\ open' = FALSE
  /\ wire' = <<>>
  /\ UNCHANGED <<stored, seq, room, requests, socket, viewer, visits, restarts, history>>

(* WebSocketDisconnect: the endpoint of a lost socket notices.             *)
Disconnect(s) ==
  /\ s \in room
  /\ ~ Connected(s)
  /\ room' = room \ {s}
  /\ UNCHANGED <<stored, seq, requests, connection, viewer, visits, restarts, history>>

-----------------------------------------------------------------------------
(* get_gantt.                                                              *)

Fetch ==
  /\ fetch = "none"
  /\ ~ shown \/ stale
  /\ fetch' = "asked"
  /\ UNCHANGED <<stored, seq, room, requests, connection, shown, view, cursor, stale, snapshot,
                 visits, restarts, history>>

ReadTasks ==
  /\ fetch = "asked"
  /\ fetch' = "read"
  /\ snapshot' = stored
  /\ UNCHANGED <<stored, seq, room, requests, connection, shown, view, cursor, stale,
                 visits, restarts, history>>

(* current_seq, read when the answer is built.  The first form is a slip:  *)
(* the counter is another process's.                                       *)
SeqElsewhere == 0
CurrentSeq == seq

Answer ==
  /\ fetch = "read"
  /\ fetch' = "none"
  /\ shown' = TRUE
  /\ view' = snapshot
  /\ snapshot' = {}
  /\ cursor' = CurrentSeq
  /\ stale' = FALSE
  /\ base' = CurrentSeq
  /\ raced' = {c \in Changes \ snapshot : number[c] # 0}
  /\ outdated' = FALSE
  /\ UNCHANGED <<stored, seq, room, requests, connection, visits, restarts>>

-----------------------------------------------------------------------------
(* The viewer takes a message, by the contract of docs/api-contract.md.    *)

Receive ==
  /\ shown
  /\ fetch = "none"
  /\ wire # <<>>
  /\ wire' = Tail(wire)
  /\ UNCHANGED <<stored, seq, room, requests, socket, open, shown, fetch, snapshot, visits,
                 restarts, history>>

received == Head(wire)

(* A lower seq is ignored.                                                 *)
Ignore ==
  /\ Receive
  /\ received.seq <= cursor
  /\ UNCHANGED <<view, cursor, stale>>

IsNext == received.seq = cursor + 1 /\ received.about # {}

(* The event of a reschedule lists the tasks moved after it and not the    *)
(* new dates of the task it is about.                                      *)
Apply ==
  /\ Receive
  /\ IsNext
  /\ view' = view \cup (received.about \ Reschedules)
  /\ cursor' = cursor + 1
  /\ UNCHANGED stale

(* A gap: an event has been missed.                                        *)
Gap ==
  /\ Receive
  /\ received.seq > cursor
  /\ ~ IsNext
  /\ stale' = TRUE
  /\ UNCHANGED <<view, cursor>>

-----------------------------------------------------------------------------
(* The api process stops and is started again: the rooms, the counters and *)
(* the transactions under way are gone, and every connection with them.    *)
Restart ==
  /\ "restart" \in Faults
  /\ restarts < MaxRestarts
  /\ restarts' = restarts + 1
  /\ seq' = 0
  /\ room' = {}
  /\ stage' = [c \in Changes |-> IF stage[c] = "sending" THEN "failed" ELSE stage[c]]
  /\ number' = [c \in Changes |-> 0]
  /\ pending' = [c \in Changes |-> {}]
  /\ dead' = [c \in Changes |-> {}]
  /\ open' = FALSE
  /\ wire' = <<>>
  /\ fetch' = "none"
  /\ snapshot' = {}
  /\ outdated' = TRUE
  /\ UNCHANGED <<stored, socket, shown, view, cursor, stale, visits, base, raced>>

-----------------------------------------------------------------------------
Request(c) == (\E s \in Sockets : Send(c, s)) \/ Commit(c) \/ Rollback(c)
Endpoint == Subscribe \/ \E s \in Sockets : Disconnect(s)
Gantt == Fetch \/ ReadTasks \/ Answer
Listen == Ignore \/ Apply \/ Gap

(* Everything has been announced, shown and received.                      *)
Idle ==
  /\ \A c \in Changes : stage[c] \in {"committed", "failed"}
  /\ shown /\ ~ stale /\ fetch = "none" /\ wire = <<>>
  /\ UNCHANGED vars

Next ==
  \/ \E c \in Changes : Announce(c) \/ Request(c)
  \/ Endpoint
  \/ Connect
  \/ Unsubscribe
  \/ Drop
  \/ Gantt
  \/ Listen
  \/ Restart
  \/ Idle

(* The event loop runs what it has, and the viewer fetches and listens.    *)
Fairness ==
  /\ \A c \in Changes : WF_vars(Request(c))
  /\ WF_vars(Gantt)
  /\ WF_vars(Listen)

Spec == Init /\ [][Next]_vars /\ Fairness

-----------------------------------------------------------------------------
(* Properties                                                              *)

Message == [seq : Nat, about : SUBSET Changes]

(* Each variable has its type; a request ends with nothing left to send.   *)
TypeOK ==
  /\ stored \subseteq Changes
  /\ seq \in Nat
  /\ room \subseteq 1 .. socket
  /\ stage \in [Changes -> {"none", "sending", "committed", "failed"}]
  /\ number \in [Changes -> Nat]
  /\ pending \in [Changes -> SUBSET Sockets]
  /\ dead \in [Changes -> SUBSET Sockets]
  /\ \A c \in Changes : stage[c] # "sending" => pending[c] = {} /\ dead[c] = {}
  /\ socket \in 0 .. MaxSockets /\ open \in BOOLEAN /\ wire \in Seq(Message)
  /\ shown \in BOOLEAN /\ view \subseteq Changes /\ cursor \in Nat /\ stale \in BOOLEAN
  /\ fetch \in {"none", "asked", "read"} /\ snapshot \subseteq Changes
  /\ visits \in 0 .. MaxVisits /\ restarts \in 0 .. MaxRestarts
  /\ base \in Nat /\ raced \subseteq Changes /\ outdated \in BOOLEAN

(* The cursor counts: every event numbered after the viewer's last Gantt   *)
(* and up to its cursor is one it has applied, in whatever order the       *)
(* broadcasts reached its socket, so no event is passed over in silence    *)
(* (ws.py:3-4, 42-44, 61-78).                                              *)
NonePassedOver ==
  shown /\ ~ outdated =>
    \A c \in Changes \ Reschedules : number[c] \in base + 1 .. cursor => c \in view

(* Nothing is under way that the viewer has still to be told.              *)
Quiet ==
  /\ shown /\ ~ stale /\ fetch = "none"
  /\ open /\ socket \in room /\ wire = <<>>
  /\ \A c \in Changes : stage[c] # "sending"

(* When all is quiet, a subscribed viewer misses no change but those whose *)
(* request overlapped its last Gantt and those of reschedules, and shows   *)
(* none that was undone but those announced and then rolled back, however  *)
(* often it lost its socket (main.py:182-203, 353-379; ws.py:61-78).       *)
MissesOnlyRaces ==
  Quiet /\ ~ outdated =>
    /\ stored \ view \subseteq raced \cup Reschedules
    /\ \A c \in view \ stored : stage[c] = "failed"

(* A viewer that stays subscribed to the process that gave it its Gantt    *)
(* reaches the current seq and stays there, whatever it missed before and  *)
(* in whatever order it was told (main.py:365-375, ws.py:61-78).           *)
CatchesUp ==
  <>[](open /\ socket \in room /\ ~ outdated) => <>[](Quiet /\ cursor = seq)

(* GanttOut: the seq of a Gantt is the cursor the viewer resumes from, so  *)
(* a viewer that resumes there ends up showing every change (schemas.py:   *)
(* 90-94, docs/book/part1/03-api-layer.md:25-27).                          *)
UpToDate == Quiet => stored \ Reschedules \subseteq view

(* seq is monotonic per project and the cursor of gap detection, so what a *)
(* viewer ignores for its lower seq is something it already has            *)
(* (docs/api-contract.md:57-58, ws_fanout/src/main.py:8-9).                *)
IgnoresOnlyOldNews ==
  [][Ignore /\ received.seq < cursor =>
       received.about \subseteq view \cup raced \cup Reschedules]_vars
=============================================================================
