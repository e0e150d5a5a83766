-------------------------------- MODULE Live --------------------------------
(***************************************************************************)
(* The live feed of one order: sockets, the rooms they are in, and what is *)
(* sent to a room once an order's new status is committed.                 *)
(*                                                                         *)
(* One process, which has the sockets in memory.  A client that comes back *)
(* has a new socket: Socket.IO's own replay of a short gap is left out, as *)
(* are positions themselves, of which only whose they are is kept.         *)
(***************************************************************************)
EXTENDS FiniteSets, Integers, Sequences, Requests

CONSTANTS
    NULL, UNUSED,
    Watchers,       \* users who are no riders
    Couriers,       \* users who are
    Journey,        \* the statuses the order goes through
    LastSocket

VARIABLES
    stage, driver,  \* the order: how far it came, and who carries it
    sockets,        \* whose each is; NULL once it is closed
    state,          \* sockets the gateway has an entry of
    joined,         \* of sockets and rooms
    heard,          \* stages each open socket was told of, or was told had failed
    carried,        \* history: who ever carried the order
    shown           \* history: whose position its room was sent

feed == <<stage, driver, sockets, state, joined, heard, carried, shown>>
vars == <<feed, req, overlapped>>

-----------------------------------------------------------------------------
IN_FLIGHT == {"CONFIRMED", "PREPARING", "READY_FOR_PICKUP", "PICKED_UP", "ON_THE_WAY"}

\* The journey of an order paid online up to the kitchen: it is held first.
PaidOnline == <<"PENDING_PAYMENT", "PLACED">>

Sockets == 1 .. LastSocket

Open == {s \in Sockets : sockets[s] \notin {UNUSED, NULL}}

NewSocket(s) == sockets[s] = UNUSED /\ \A t \in 1 .. s - 1 : sockets[t] # UNUSED

Init ==
    /\ stage = 1 /\ driver = NULL
    /\ sockets = [s \in Sockets |-> UNUSED]
    /\ state = {} /\ joined = {}
    /\ heard = [s \in Sockets |-> {}]
    /\ carried = {} /\ shown = {}
    /\ NoRequests

InRoom(room) == {s \in Open : <<s, room>> \in joined}

isStaff(u) == u = "ADMIN"

canAccessOrder(u) == isStaff(u) \/ u \in {"CUSTOMER", "OWNER"} \/ u = driver

\* "Without that check any vendor's staff account could subscribe to any other
\* restaurant's board."
canAccessRestaurant(u) == isStaff(u) \/ u \in {"OWNER", "KITCHEN"}

MayJoin(u, room) ==
    \/ room = "order" /\ canAccessOrder(u)
    \/ room = "restaurant" /\ canAccessRestaurant(u)

\* Faulty variant: whoever the gateway knows may watch.
MayJoinAny(u, room) == room \in {"order", "restaurant"}

activeOrderForDriver(r) == driver = r /\ Journey[stage] \in IN_FLIGHT

Told(ss, v) == heard' = [s \in Sockets |-> IF s \in ss THEN heard[s] \cup {v} ELSE heard[s]]

\* What a socket hears when the read of stage v for its snapshot fails.
Untold(v) == 0 - v

-----------------------------------------------------------------------------
(* The order, committed by other modules and announced after.              *)

\* Of an order that waits for its payment the settlement commits the next
\* status, and announces nothing.
Advance(h) ==
    /\ stage < Len(Journey)
    /\ stage' = stage + 1
    /\ IF Journey[stage] = "PENDING_PAYMENT"
       THEN UNCHANGED <<req, overlapped>>
       ELSE Begin(h, [kind |-> "announce", stage |-> stage + 1, rider |-> driver])
    /\ UNCHANGED <<driver, sockets, state, joined, heard, carried, shown>>

\* To the order's room, the kitchen's, and the rider who carries it.
Announce(h) ==
    /\ req[h].kind = "announce"
    /\ Told(InRoom("order") \cup InRoom("restaurant")
                \cup {s \in InRoom("own") : sockets[s] = req[h].rider}, req[h].stage)
    /\ Finish(h)
    /\ UNCHANGED <<stage, driver, sockets, state, joined, carried, shown>>

TakeRun(r) ==
    /\ driver = NULL /\ Journey[stage] \in IN_FLIGHT
    /\ driver' = r
    /\ carried' = carried \cup {r}
    /\ UNCHANGED <<stage, sockets, state, joined, heard, shown, req, overlapped>>

LeaveRun ==
    /\ driver # NULL /\ Journey[stage] \in IN_FLIGHT
    /\ driver' = NULL
    /\ UNCHANGED <<stage, sockets, state, joined, heard, carried, shown, req, overlapped>>

-----------------------------------------------------------------------------
(* Connections.                                                            *)

\* The handshake; a token that does not verify closes the socket.
Connect(h, s, u) ==
    /\ NewSocket(s)
    /\ sockets' = [sockets EXCEPT ![s] = u]
    /\ Begin(h, [kind |-> "connect", socket |-> s])
    /\ UNCHANGED <<stage, driver, state, joined, heard, carried, shown>>

\* The entry is made after the lookups, whether or not the socket is still there.
handleConnection(h) ==
    /\ req[h].kind = "connect"
    /\ state' = state \cup {req[h].socket}
    /\ joined' = joined \cup {<<req[h].socket, "own">>}
    /\ Finish(h)
    /\ UNCHANGED <<stage, driver, sockets, heard, carried, shown>>

RefuseConnection(h) ==
    /\ req[h].kind = "connect"
    /\ sockets' = [sockets EXCEPT ![req[h].socket] = NULL]
    /\ Finish(h)
    /\ UNCHANGED <<stage, driver, state, joined, heard, carried, shown>>

handleDisconnect(s) ==
    /\ s \in Open
    /\ sockets' = [sockets EXCEPT ![s] = NULL]
    /\ state' = state \ {s}
    /\ joined' = {j \in joined : j[1] # s}
    /\ heard' = [heard EXCEPT ![s] = {}]
    /\ UNCHANGED <<stage, driver, carried, shown, req, overlapped>>

\* The process dies with its sockets and with what it had still to announce.
Crash ==
    /\ Open # {}
    /\ sockets' = [s \in Sockets |-> IF s \in Open THEN NULL ELSE sockets[s]]
    /\ state' = {} /\ joined' = {}
    /\ heard' = [s \in Sockets |-> {}]
    /\ req' = [h \in Handlers |-> Idle]
    /\ UNCHANGED <<stage, driver, carried, shown, overlapped>>

-----------------------------------------------------------------------------
(* Watching.                                                               *)

\* "Every subscribe proves they may see that thing."
Subscribe(h, s, room) ==
    /\ s \in Open \cap state
    /\ Begin(h, [kind |-> "asked", socket |-> s, user |-> sockets[s], room |-> room])
    /\ UNCHANGED feed

CheckAccess(h) ==
    /\ req[h].kind = "asked"
    /\ IF MayJoin(req[h].user, req[h].room)
       THEN Continue(h, [req[h] EXCEPT !.kind = "allowed"])
       ELSE Finish(h)
    /\ UNCHANGED feed

\* A kitchen's dashboard gets no snapshot.
JoinRoom(h) ==
    /\ req[h].kind = "allowed"
    /\ joined' = joined \cup {<<req[h].socket, req[h].room>>}
    /\ IF req[h].room = "order"
       THEN Continue(h, [req[h] EXCEPT !.kind = "joined"])
       ELSE Finish(h)
    /\ UNCHANGED <<stage, driver, sockets, state, heard, carried, shown>>

buildSnapshot(h) ==
    /\ req[h].kind = "joined"
    /\ Continue(h, [kind |-> "snapshot", socket |-> req[h].socket, stage |-> stage])
    /\ UNCHANGED feed

\* The read fails: the socket stays in the room, with an error for an answer.
SnapshotFails(h) ==
    /\ req[h].kind = "joined"
    /\ Told({req[h].socket} \cap Open, Untold(stage))
    /\ Finish(h)
    /\ UNCHANGED <<stage, driver, sockets, state, joined, carried, shown>>

\* Faulty variant: the room will tell.
AnswerBare(h) ==
    /\ req[h].kind = "snapshot"
    /\ Finish(h)
    /\ UNCHANGED feed

\* "Answering every subscribe with the truth means a client never has to reason
\* about what it missed."
Answer(h) ==
    /\ req[h].kind = "snapshot"
    /\ Told({req[h].socket} \cap Open, req[h].stage)
    /\ Finish(h)
    /\ UNCHANGED <<stage, driver, sockets, state, joined, carried, shown>>

Unsubscribe(s, room) ==
    /\ s \in InRoom(room)
    /\ joined' = joined \ {<<s, room>>}
    /\ UNCHANGED <<stage, driver, sockets, state, heard, carried, shown, req, overlapped>>

-----------------------------------------------------------------------------
(* A rider reports where he is.                                            *)

reportLocation(h, s) ==
    /\ s \in Open \cap state /\ sockets[s] \in Couriers
    /\ Begin(h, [kind |-> "report", rider |-> sockets[s]])
    /\ UNCHANGED feed

\* The same over HTTP, "because the socket dropped".
UpdateLocation(h, r) ==
    /\ Begin(h, [kind |-> "report", rider |-> r])
    /\ UNCHANGED feed

\* Anyone else's position goes to the dispatch board only.
FindRun(h) ==
    /\ req[h].kind = "report"
    /\ IF activeOrderForDriver(req[h].rider)
       THEN Continue(h, [req[h] EXCEPT !.kind = "position"])
       ELSE Finish(h)
    /\ UNCHANGED feed

riderMoved(h) ==
    /\ req[h].kind = "position"
    /\ shown' = shown \cup {req[h].rider}
    /\ Finish(h)
    /\ UNCHANGED <<stage, driver, sockets, state, joined, heard, carried>>

-----------------------------------------------------------------------------
Next ==
    \/ \E h \in Handlers :
        \/ Advance(h) \/ Announce(h)
        \/ \E s \in Sockets, u \in Watchers \cup Couriers : Connect(h, s, u)
        \/ handleConnection(h) \/ RefuseConnection(h)
        \/ \E s \in Sockets, room \in {"order", "restaurant"} : Subscribe(h, s, room)
        \/ CheckAccess(h) \/ JoinRoom(h) \/ buildSnapshot(h) \/ SnapshotFails(h) \/ Answer(h)
        \/ \E s \in Sockets : reportLocation(h, s)
        \/ \E r \in Couriers : UpdateLocation(h, r)
        \/ FindRun(h) \/ riderMoved(h)
    \/ \E r \in Couriers : TakeRun(r)
    \/ LeaveRun
    \/ \E s \in Sockets : handleDisconnect(s)
    \/ \E s \in Sockets, room \in {"order", "restaurant"} : Unsubscribe(s, room)
    \/ Crash

Spec == Init /\ [][Next]_vars

-----------------------------------------------------------------------------
(* Properties.                                                             *)

Waiting(s) == \E h \in Handlers : req[h].kind # "idle" /\ "socket" \in DOMAIN req[h] /\ req[h].socket = s

\* A socket in the order's room was told the order's present status as soon as
\* nothing about it is under way, whenever it joined, however announcements,
\* snapshots, drops and restarts interleave: "a lifecycle transition, to
\* everyone watching that order".  A snapshot of this very status that could not
\* be read leaves its socket in the room with an error, until the next status.
\* It does not hold of an order that waited for its payment: "the restaurant
\* hears about it when the money lands".
WatchersCatchUp ==
    \A s \in InRoom("order") :
        \/ stage \in heard[s] \/ Untold(stage) \in heard[s]
        \/ Waiting(s)
        \/ \E h \in Handlers : req[h].kind = "announce" /\ req[h].stage = stage

\* "A rider cannot report a location onto somebody else's order", and no room
\* has anyone in it who had no part in what it is about.
OwnOrdersOnly ==
    /\ shown \subseteq carried
    /\ \A s \in InRoom("order") :
        sockets[s] \in {"ADMIN", "CUSTOMER", "OWNER"} \cup carried
    /\ \A s \in InRoom("restaurant") : sockets[s] \in {"ADMIN", "OWNER", "KITCHEN"}

-----------------------------------------------------------------------------
(* Claims that do not hold.                                                *)

\* "The position is only ever attributed to the rider's own live delivery."
ShownIsLive == [][shown' # shown => \E r \in Couriers : shown' = shown \cup {r} /\ driver = r]_vars

\* Per-connection state is "cleared on disconnect".
StateIsCleared == state \subseteq Open
=============================================================================
