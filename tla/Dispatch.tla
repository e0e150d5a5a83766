------------------------------ MODULE Dispatch ------------------------------
(***************************************************************************)
(* Dispatch: how an order finds a rider and what becomes of the two.       *)
(*                                                                         *)
(* API requests, the in-memory listeners of order events and the ten       *)
(* second sweep work on one READ COMMITTED database.  A use case reads,    *)
(* decides, and then calls a repository whose write is one transaction;    *)
(* most of those writes do not look at what the row has become since.      *)
(* Only accept and the expiry compare the status, and partial unique       *)
(* indexes refuse a second live assignment of an order and a second        *)
(* accepted one of a rider.                                                *)
(*                                                                         *)
(* Orders enter before a rider has them.  Distances, zones and ratings     *)
(* rank riders of one tier and are a free choice here.                     *)
(***************************************************************************)
EXTENDS Integers, FiniteSets, OrderStatus

CONSTANTS
    Orders,         \* orders, numbered in the order they were placed
    Riders,
    Assignments,    \* assignment ids, in the order the database hands them out
    Handlers,       \* requests and listeners that can be in progress at once
    Sweep,          \* the task of the timer
    Entry,          \* the status an order has when the model begins
    CrashLimit,     \* how often the process may die
    NULL

ASSUME OrderAssumption == Orders \subseteq Nat
ASSUME RunAssumption == Assignments \subseteq Nat
ASSUME EntryAssumption == Entry \in {"PLACED", "CONFIRMED", "PREPARING", "READY_FOR_PICKUP"}
ASSUME CrashAssumption == CrashLimit \in Nat
ASSUME SweepAssumption == Sweep \notin Handlers
ASSUME NobodyAssumption == NULL \notin Orders \cup Riders \cup Assignments

Tasks == Handlers \cup {Sweep}

VARIABLES
    orders,         \* status and driverId of the orders table
    assignments,    \* the delivery_assignments table
    lapsed,         \* assignments whose expiresAt has passed unanswered
    drivers,        \* the drivers table
    delivered,      \* history: orders that were ever DELIVERED
    events,         \* order.status-changed events not yet listened to
    req,            \* what each task is in the middle of
    sweep,          \* the sweep: its step and the orders it has still to offer
    crashes

rows == <<orders, assignments, lapsed, drivers, delivered>>
memory == <<events, req, sweep>>
vars == <<rows, memory, crashes>>

-----------------------------------------------------------------------------
DISPATCHABLE_STATUSES == {"CONFIRMED", "PREPARING", "READY_FOR_PICKUP"}
LIVE_STATUSES == {"OFFERED", "ACCEPTED"}
TERMINAL_ASSIGNMENT_STATUSES == {"REJECTED", "EXPIRED", "CANCELLED", "COMPLETED"}
AVAILABILITIES == {"OFFLINE", "ONLINE", "ON_DELIVERY", "ON_BREAK"}
SELF_SERVICE_AVAILABILITY == {"ONLINE", "OFFLINE", "ON_BREAK"}

\* coded: the customer has been given a code, and only its hash is kept.
AssignmentRows ==
    [order : Orders, driver : Riders,
     status : LIVE_STATUSES \cup TERMINAL_ASSIGNMENT_STATUSES, coded : BOOLEAN]

NoAssignment == [order |-> NULL, driver |-> NULL, status |-> "ABSENT", coded |-> FALSE]

Idle == [kind |-> "idle"]

Resting == [step |-> "idle", queue |-> {}]

Init ==
    /\ orders = [o \in Orders |-> [status |-> Entry, driver |-> NULL]]
    /\ assignments = [a \in Assignments |-> NoAssignment]
    /\ lapsed = {}
    /\ drivers = [r \in Riders |->
            [status |-> "ACTIVE", availability |-> "ONLINE", totalDeliveries |-> 0]]
    /\ delivered = {}
    /\ events = {}
    /\ req = [t \in Tasks |-> Idle]
    /\ sweep = Resting
    /\ crashes = 0

Live(a) == assignments[a].status \in LIVE_STATUSES

LiveFor(o) == {a \in Assignments : assignments[a].order = o /\ Live(a)}

Carried(r) ==
    {a \in Assignments : assignments[a].driver = r /\ assignments[a].status = "ACCEPTED"}

Continue(t, r) == req' = [req EXCEPT ![t] = r]

Finish(t) == Continue(t, Idle)

-----------------------------------------------------------------------------
(* Offering an order to a rider.                                           *)

CanDispatch(o) ==
    /\ orders[o].status \in DISPATCHABLE_STATUSES
    /\ orders[o].driver = NULL

\* The instance has an assignment left to make.
RowLeft == \E a \in Assignments : assignments[a] = NoAssignment

\* A dispatcher names a rider, or asks for the best one (named = NULL).
AssignOrder(h, o, named) ==
    /\ req[h] = Idle
    /\ CanDispatch(o) /\ RowLeft
    /\ Continue(h, [kind |-> "assign", order |-> o, named |-> named])
    /\ UNCHANGED <<rows, events, sweep>>

Offers(o, r, status) ==
    {a \in Assignments : /\ assignments[a].order = o /\ assignments[a].driver = r
                         /\ assignments[a].status = status}

CanReceiveOffers(r) ==
    drivers[r].status = "ACTIVE" /\ drivers[r].availability = "ONLINE"

\* Riders who may be offered o: working, free, and not known to refuse it.
Candidates(o) ==
    {r \in Riders : /\ CanReceiveOffers(r)
                    /\ ~ \E a \in Assignments : assignments[a].driver = r /\ Live(a)
                    /\ Offers(o, r, "REJECTED") = {}}

\* rank: whoever let the fewest offers of o lapse comes first.  A preferred
\* rider goes first only while he let none lapse, so he is one of these.
Ranked(o) ==
    LET ignored(r) == Cardinality(Offers(o, r, "EXPIRED"))
    IN  {r \in Candidates(o) : \A s \in Candidates(o) : ignored(r) <= ignored(s)}

ChooseRider(t) ==
    /\ req[t].kind = "assign"
    /\ LET o == req[t].order
           named == req[t].named
           choice == IF named = NULL THEN Ranked(o)
                     ELSE {r \in {named} : CanReceiveOffers(r)}
       IN  \/ choice = {} /\ Finish(t)
           \/ \E r \in choice :
                Continue(t, [kind |-> "offer", order |-> o, driver |-> r, named |-> named])
    /\ UNCHANGED <<rows, events, sweep>>

\* Faulty variant: the unique index on live assignments is missing.
IndexMissing(o) == TRUE

\* delivery_assignments_live_per_order_idx
OrderIsFree(o) == LiveFor(o) = {}

\* Faulty variant: the row takes the rider who was asked for.
OfferTo(r) == r.named

\* The row takes the rider who was chosen.
OfferedDriver(r) == r.driver

\* The insert.  Neither the order nor the rider is looked at again.
InsertOffer(t) ==
    /\ req[t].kind = "offer"
    /\ OrderIsFree(req[t].order)
    /\ \E a \in Assignments :
        /\ assignments[a] = NoAssignment
        /\ \A b \in Assignments : b < a => assignments[b] # NoAssignment
        /\ assignments' = [assignments EXCEPT ![a] =
             [order |-> req[t].order, driver |-> OfferedDriver(req[t]),
              status |-> "OFFERED", coded |-> FALSE]]
    /\ Finish(t)
    /\ UNCHANGED <<orders, lapsed, drivers, delivered, events, sweep>>

\* The index refuses it, or the instance has no row left.
RefuseOffer(t) ==
    /\ req[t].kind = "offer"
    /\ ~ OrderIsFree(req[t].order) \/ ~ RowLeft
    /\ Finish(t)
    /\ UNCHANGED <<rows, events, sweep>>

\* The answer's deadline passes.
Lapse(a) ==
    /\ assignments[a].status = "OFFERED" /\ a \notin lapsed
    /\ lapsed' = lapsed \cup {a}
    /\ UNCHANGED <<orders, assignments, drivers, delivered, memory>>

-----------------------------------------------------------------------------
(* Answering and withdrawing an offer.                                     *)

Answerable(a) == assignments[a].status = "OFFERED" /\ a \notin lapsed

IsApproved(a) == drivers[assignments[a].driver].status = "ACTIVE"

\* AcceptOffer and RejectOffer load the offer and check it.
Answer(h, a, answer) ==
    /\ req[h] = Idle
    /\ Answerable(a) /\ IsApproved(a)
    /\ Continue(h, [kind |-> answer, run |-> a])
    /\ UNCHANGED <<rows, events, sweep>>

\* The conditional update, and delivery_assignments_active_per_driver_idx.
CanTake(a) ==
    /\ Answerable(a)
    /\ Carried(assignments[a].driver) = {}

\* The order gains its rider, the rider is busy, other offers are moot.
Accept(h) ==
    /\ req[h].kind = "accept"
    /\ LET a == req[h].run
           o == assignments[a].order
           r == assignments[a].driver
       IN  /\ CanTake(a)
           /\ assignments' = [b \in Assignments |->
                IF b = a THEN [assignments[b] EXCEPT !.status = "ACCEPTED"]
                ELSE IF assignments[b].order = o /\ assignments[b].status = "OFFERED"
                THEN [assignments[b] EXCEPT !.status = "CANCELLED"]
                ELSE assignments[b]]
           /\ orders' = [orders EXCEPT ![o].driver = r]
           /\ drivers' = [drivers EXCEPT ![r].availability = "ON_DELIVERY"]
    /\ Finish(h)
    /\ UNCHANGED <<lapsed, delivered, events, sweep>>

RefuseAccept(h) ==
    /\ req[h].kind = "accept"
    /\ ~ CanTake(req[h].run)
    /\ Finish(h)
    /\ UNCHANGED <<rows, events, sweep>>

Reject(h) ==
    /\ req[h].kind = "reject"
    /\ assignments' = [assignments EXCEPT ![req[h].run].status = "REJECTED"]
    /\ Finish(h)
    /\ UNCHANGED <<orders, lapsed, drivers, delivered, events, sweep>>

\* Dispatch withdraws an offer or an acceptance, unless the food has left.
CancelAssignment(h, a) ==
    /\ req[h] = Idle
    /\ Live(a)
    /\ orders[assignments[a].order].status \notin {"PICKED_UP", "ON_THE_WAY"}
    /\ Continue(h, [kind |-> "withdraw", run |-> a])
    /\ UNCHANGED <<rows, events, sweep>>

\* The riders whose run has ended go back into the pool.
FreeDrivers(freed) ==
    drivers' = [r \in Riders |->
        IF r \in freed /\ drivers[r].availability = "ON_DELIVERY"
        THEN [drivers[r] EXCEPT !.availability = "ONLINE"]
        ELSE drivers[r]]

\* Faulty variant: the order keeps its rider.
OrderKeepsDriver(o, r) == UNCHANGED orders

\* The order goes back on the board.
BackOnBoard(o, r) ==
    orders' = [orders EXCEPT ![o].driver = IF @ = r THEN NULL ELSE @]

Withdraw(h) ==
    /\ req[h].kind = "withdraw"
    /\ LET a == req[h].run
           r == assignments[a].driver
       IN  /\ assignments' = [assignments EXCEPT ![a].status = "CANCELLED"]
           /\ BackOnBoard(assignments[a].order, r)
           /\ FreeDrivers({r})
    /\ Finish(h)
    /\ UNCHANGED <<lapsed, delivered, events, sweep>>

-----------------------------------------------------------------------------
(* Moving the order: AdvanceOrder and CancelOrder, as in module Orders.    *)

\* What a move is told to whom: the dispatcher's fast path, or the release
\* of a rider, which a delivery confirmed by its rider does not need.
Announced(o, to, as) ==
    IF to = "CONFIRMED" THEN {<<"confirmed", o>>}
    ELSE IF to \in TERMINAL_STATUSES /\ ~ (to = "DELIVERED" /\ as = "DRIVER")
    THEN {<<"closed", o>>}
    ELSE {}

\* The move is valid now; then says what its caller does next, for which run.
StartMove(h, o, to, as, then, a) ==
    /\ MayMove(as, orders[o].status, to)
    /\ Continue(h, [kind |-> "move", order |-> o, to |-> to, as |-> as,
                    then |-> then, run |-> a])

\* Anyone with a role over the order, through the general endpoints.  There
\* a rider may not deliver.
Advance(h, o, to, as) ==
    /\ req[h] = Idle
    /\ as = "DRIVER" => orders[o].driver # NULL /\ to # "DELIVERED"
    /\ StartMove(h, o, to, as, "done", NULL)
    /\ UNCHANGED <<rows, events, sweep>>

CommitMove(h) ==
    /\ req[h].kind = "move"
    /\ LET m == req[h]
       IN  /\ orders' = [orders EXCEPT ![m.order].status = m.to]
           /\ delivered' = IF m.to = "DELIVERED" THEN delivered \cup {m.order} ELSE delivered
           /\ events' = events \cup Announced(m.order, m.to, m.as)
           /\ Continue(h, IF m.then = "done" THEN Idle ELSE [kind |-> m.then, run |-> m.run])
    /\ UNCHANGED <<assignments, lapsed, drivers, sweep>>

-----------------------------------------------------------------------------
(* The rider's delivery.                                                   *)

\* The rider's live assignment of an order is loaded; the order itself is
\* loaded again by AdvanceOrder, a step later.
StartRide(h, a, to, then) ==
    /\ req[h] = Idle
    /\ Live(a) /\ IsApproved(a)
    /\ Continue(h, [kind |-> "ride", run |-> a, to |-> to, then |-> then])
    /\ UNCHANGED <<rows, events, sweep>>

PickupOrder(h, a) ==
    assignments[a].status = "ACCEPTED" /\ StartRide(h, a, "PICKED_UP", "code")

StartDelivery(h, a) == StartRide(h, a, "ON_THE_WAY", "done")

\* Faulty variant: the run is completed before the order is moved.
ConfirmUnmoved(h, a) ==
    /\ req[h] = Idle
    /\ assignments[a].status = "ACCEPTED" /\ assignments[a].coded
    /\ IsApproved(a)
    /\ Continue(h, [kind |-> "complete", run |-> a])
    /\ UNCHANGED <<rows, events, sweep>>

\* The code the customer reads out is checked against the loaded row.
ConfirmDelivery(h, a) ==
    /\ assignments[a].status = "ACCEPTED" /\ assignments[a].coded
    /\ StartRide(h, a, "DELIVERED", "complete")

Ride(h) ==
    /\ req[h].kind = "ride"
    /\ LET a == req[h].run
           o == assignments[a].order
           mine == orders[o].driver = assignments[a].driver
       IN  \/ mine /\ StartMove(h, o, req[h].to, "DRIVER", req[h].then, a)
           \/ /\ ~ (mine /\ MayMove("DRIVER", orders[o].status, req[h].to))
              /\ Finish(h)
    /\ UNCHANGED <<rows, events, sweep>>

\* After PICKED_UP has been committed.
StoreOtp(h) ==
    /\ req[h].kind = "code"
    /\ assignments' = [assignments EXCEPT ![req[h].run].coded = TRUE]
    /\ Finish(h)
    /\ UNCHANGED <<orders, lapsed, drivers, delivered, events, sweep>>

\* After DELIVERED has been committed.
Complete(h) ==
    /\ req[h].kind = "complete"
    /\ LET a == req[h].run
       IN  /\ assignments' = [assignments EXCEPT ![a].status = "COMPLETED"]
           /\ drivers' = [drivers EXCEPT
                ![assignments[a].driver].availability = "ONLINE",
                ![assignments[a].driver].totalDeliveries = @ + 1]
    /\ Finish(h)
    /\ UNCHANGED <<orders, lapsed, delivered, events, sweep>>

-----------------------------------------------------------------------------
(* Listeners.                                                              *)

OnOrderConfirmed(h, o) ==
    /\ req[h] = Idle
    /\ <<"confirmed", o>> \in events
    /\ events' = events \ {<<"confirmed", o>>}
    /\ IF CanDispatch(o) /\ RowLeft
       THEN Continue(h, [kind |-> "assign", order |-> o, named |-> NULL])
       ELSE UNCHANGED req
    /\ UNCHANGED <<rows, sweep>>

\* releaseForClosedOrder reads what is still open ...
OnOrderClosed(h, o) ==
    /\ req[h] = Idle
    /\ <<"closed", o>> \in events
    /\ events' = events \ {<<"closed", o>>}
    /\ Continue(h, [kind |-> "release", runs |-> LiveFor(o)])
    /\ UNCHANGED <<rows, sweep>>

\* ... and closes it.
Release(h) ==
    /\ req[h].kind = "release"
    /\ LET open == req[h].runs
       IN  /\ assignments' = [a \in Assignments |->
                IF a \in open THEN [assignments[a] EXCEPT !.status = "CANCELLED"]
                ELSE assignments[a]]
           /\ FreeDrivers({assignments[a].driver : a \in open})
    /\ Finish(h)
    /\ UNCHANGED <<orders, lapsed, delivered, events, sweep>>

-----------------------------------------------------------------------------
(* The rider's own switch, and staff.                                      *)

SetAvailability(h, r, to) ==
    /\ req[h] = Idle
    /\ drivers[r].status = "ACTIVE" /\ drivers[r].availability # "ON_DELIVERY"
    /\ Continue(h, [kind |-> "switch", driver |-> r, to |-> to])
    /\ UNCHANGED <<rows, events, sweep>>

Switch(h) ==
    /\ req[h].kind = "switch"
    /\ drivers' = [drivers EXCEPT ![req[h].driver].availability = req[h].to]
    /\ Finish(h)
    /\ UNCHANGED <<orders, assignments, lapsed, delivered, events, sweep>>

SuspendRider(h, r) ==
    /\ req[h] = Idle
    /\ drivers[r].status = "ACTIVE" /\ drivers[r].availability # "ON_DELIVERY"
    /\ Continue(h, [kind |-> "status", driver |-> r, to |-> "SUSPENDED"])
    /\ UNCHANGED <<rows, events, sweep>>

ReinstateRider(h, r) ==
    /\ req[h] = Idle
    /\ drivers[r].status = "SUSPENDED"
    /\ Continue(h, [kind |-> "status", driver |-> r, to |-> "ACTIVE"])
    /\ UNCHANGED <<rows, events, sweep>>

SetStatus(h) ==
    /\ req[h].kind = "status"
    /\ drivers' = [drivers EXCEPT ![req[h].driver].status = req[h].to,
            ![req[h].driver].availability = IF req[h].to = "ACTIVE" THEN @ ELSE "OFFLINE"]
    /\ Finish(h)
    /\ UNCHANGED <<orders, assignments, lapsed, delivered, events, sweep>>

-----------------------------------------------------------------------------
(* The sweep.                                                              *)

\* expireStale, which staff may also call from the dispatch board.
ExpireOffers ==
    assignments' = [a \in Assignments |->
        IF a \in lapsed /\ assignments[a].status = "OFFERED"
        THEN [assignments[a] EXCEPT !.status = "EXPIRED"]
        ELSE assignments[a]]

SweepExpires ==
    /\ sweep = Resting
    /\ ExpireOffers
    /\ sweep' = [sweep EXCEPT !.step = "expired"]
    /\ UNCHANGED <<orders, lapsed, drivers, delivered, events, req>>

ExpireByHand ==
    /\ ExpireOffers
    /\ UNCHANGED <<orders, lapsed, drivers, delivered, memory>>

\* Faulty variant: an order is found only until its first offer.
AwaitingFirstOffer ==
    {o \in Orders : CanDispatch(o) /\ \A a \in Assignments : assignments[a].order # o}

\* findOrderIdsAwaitingDispatch
AwaitingDispatch == {o \in Orders : CanDispatch(o) /\ LiveFor(o) = {}}

SweepFinds ==
    /\ sweep.step = "expired"
    /\ sweep' = [step |-> "offering", queue |-> AwaitingDispatch]
    /\ UNCHANGED <<rows, events, req>>

\* The order that has waited longest is next; the timer's flag is held until
\* the last has been offered or given up.
SweepOffers ==
    /\ sweep.step = "offering" /\ req[Sweep] = Idle
    /\ \/ sweep.queue = {} /\ sweep' = Resting /\ UNCHANGED req
       \/ \E o \in sweep.queue :
            /\ \A p \in sweep.queue : o <= p
            /\ sweep' = [sweep EXCEPT !.queue = @ \ {o}]
            /\ IF CanDispatch(o) /\ RowLeft
               THEN Continue(Sweep, [kind |-> "assign", order |-> o, named |-> NULL])
               ELSE UNCHANGED req
    /\ UNCHANGED <<rows, events>>

\* The process dies: requests, events and the sweep are gone, rows are not.
Crash ==
    /\ crashes < CrashLimit
    /\ crashes' = crashes + 1
    /\ events' = {}
    /\ req' = [t \in Tasks |-> Idle]
    /\ sweep' = Resting
    /\ UNCHANGED rows

-----------------------------------------------------------------------------
\* A request that has begun, or a listener's, takes its next step.
Proceed(t) ==
    \/ ChooseRider(t) \/ InsertOffer(t) \/ RefuseOffer(t)
    \/ Accept(t) \/ RefuseAccept(t) \/ Reject(t) \/ Withdraw(t)
    \/ Ride(t) \/ CommitMove(t) \/ StoreOtp(t) \/ Complete(t)
    \/ Release(t) \/ Switch(t) \/ SetStatus(t)

Listen(h) == \E o \in Orders : OnOrderConfirmed(h, o) \/ OnOrderClosed(h, o)

Request(h) ==
    \/ \E o \in Orders :
        \/ \E r \in Riders \cup {NULL} : AssignOrder(h, o, r)
        \/ \E to \in OrderStatuses, as \in CallerTypes : Advance(h, o, to, as)
    \/ \E a \in Assignments :
        \/ \E answer \in {"accept", "reject"} : Answer(h, a, answer)
        \/ CancelAssignment(h, a)
        \/ PickupOrder(h, a) \/ StartDelivery(h, a) \/ ConfirmDelivery(h, a)
    \/ \E r \in Riders :
        \/ \E to \in SELF_SERVICE_AVAILABILITY : SetAvailability(h, r, to)
        \/ SuspendRider(h, r) \/ ReinstateRider(h, r)

SweepNext == SweepExpires \/ SweepFinds \/ SweepOffers \/ Proceed(Sweep)

Next ==
    \/ /\ \/ \E h \in Handlers : Proceed(h) \/ Listen(h) \/ Request(h)
          \/ \E a \in Assignments : Lapse(a)
          \/ SweepNext
          \/ ExpireByHand
       /\ UNCHANGED crashes
    \/ Crash

Spec == Init /\ [][Next]_vars
=============================================================================
