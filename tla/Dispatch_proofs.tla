-------------------------- MODULE Dispatch_proofs --------------------------
(***************************************************************************)
(* Theorems about dispatch, for any number of orders, riders, assignments, *)
(* concurrent requests and crashes.                                        *)
(***************************************************************************)
EXTENDS DispatchProperties, FiniteSetTheorems, TLAPS

(***************************************************************************)
(* The inductive invariant.  A write compares nothing, so what it may do   *)
(* depends on what the request behind it still knows: that its assignment  *)
(* was made, and, if it completes it, that the order has been delivered.   *)
(***************************************************************************)

AfterMove == {"done", "code", "complete"}

RunKinds == {"accept", "reject", "withdraw", "code", "complete"}

Requests ==
    {Idle}
    \cup [kind : {"assign"}, order : Orders, named : Riders \cup {NULL}]
    \cup [kind : {"offer"}, order : Orders, driver : Riders, named : Riders \cup {NULL}]
    \cup [kind : RunKinds, run : Assignments]
    \cup [kind : {"ride"}, run : Assignments, to : OrderStatuses, then : AfterMove]
    \cup [kind : {"move"}, order : Orders, to : OrderStatuses, as : CallerTypes,
          then : AfterMove, run : Assignments \cup {NULL}]
    \cup [kind : {"release"}, runs : SUBSET Assignments]
    \cup [kind : {"switch"}, driver : Riders, to : AVAILABILITIES]
    \cup [kind : {"status"}, driver : Riders, to : {"ACTIVE", "SUSPENDED"}]

Made(a) == assignments[a] # NoAssignment

\* What r relies on is in the tables, and stays there.
Grounded(r) ==
    /\ r.kind \in RunKinds \cup {"ride"} => r.run \in Assignments /\ Made(r.run)
    /\ r.kind = "release" => \A a \in r.runs : Made(a)
    /\ r.kind = "complete" => assignments[r.run].order \in delivered
    /\ r.kind = "ride" /\ r.then = "complete" => r.to = "DELIVERED"
    /\ r.kind = "move" /\ r.then # "done" =>
         /\ r.run \in Assignments /\ Made(r.run)
         /\ r.then = "complete" =>
              r.to = "DELIVERED" /\ r.order = assignments[r.run].order

RequestsGrounded ==
    /\ req \in [Tasks -> Requests]
    /\ \A t \in Tasks : Grounded(req[t])

SweepTypeOK == sweep \in [step : {"idle", "expired", "offering"}, queue : SUBSET Orders]

\* The two partial unique indexes.
IndexesHold ==
    \A a, b \in Assignments :
        /\ Live(a) /\ Live(b) /\ assignments[a].order = assignments[b].order => a = b
        /\ /\ assignments[a].status = "ACCEPTED" /\ assignments[b].status = "ACCEPTED"
           /\ assignments[a].driver = assignments[b].driver
           => a = b

IInv ==
    /\ DispatchTypeOK
    /\ RequestsGrounded
    /\ SweepTypeOK
    /\ IndexesHold
    /\ CompletedWasDelivered

-----------------------------------------------------------------------------
(* How steps write.                                                        *)

\* What a task is in the middle of, by the kind of its request.
LEMMA RequestKinds ==
    ASSUME RequestsGrounded, NEW t \in Tasks
    PROVE  LET r == req[t] IN
           /\ r.kind = "assign" => r.order \in Orders /\ r.named \in Riders \cup {NULL}
           /\ r.kind = "offer" => r.order \in Orders /\ r.driver \in Riders
           /\ r.kind \in RunKinds \cup {"ride"} => r.run \in Assignments /\ Made(r.run)
           /\ r.kind = "ride" => r.to \in OrderStatuses /\ r.then \in AfterMove
           /\ r.kind = "move" => /\ r.order \in Orders /\ r.to \in OrderStatuses
                                 /\ r.as \in CallerTypes /\ r.then \in AfterMove
           /\ r.kind = "release" => r.runs \subseteq Assignments
           /\ r.kind = "switch" => r.driver \in Riders /\ r.to \in AVAILABILITIES
           /\ r.kind = "status" => r.driver \in Riders /\ r.to \in {"ACTIVE", "SUSPENDED"}
<1>1. req[t] \in Requests /\ Grounded(req[t])
  BY DEF RequestsGrounded
<1> QED BY <1>1 DEF Requests, Grounded, Idle, RunKinds

LEMMA NoRow == NoAssignment \notin AssignmentRows
BY NobodyAssumption DEF NoAssignment, AssignmentRows

\* A row that was made has its type.
LEMMA MadeRows ==
    ASSUME DispatchTypeOK, NEW a \in Assignments
    PROVE  /\ Made(a) => assignments[a] \in AssignmentRows
           /\ Live(a) => Made(a)
           /\ assignments[a].status \in TERMINAL_ASSIGNMENT_STATUSES => Made(a)
BY DEF DispatchTypeOK, Made, Live, NoAssignment, LIVE_STATUSES, TERMINAL_ASSIGNMENT_STATUSES

\* A step that touches only what tasks are in the middle of.
LEMMA QuietKeeps ==
    ASSUME IInv, UNCHANGED rows,
           events' \subseteq {"confirmed", "closed"} \X Orders,
           crashes' \in 0 .. CrashLimit,
           SweepTypeOK',
           req' \in [Tasks -> Requests],
           \A t \in Tasks : Grounded(req'[t])
    PROVE  IInv'
<1>1. DispatchTypeOK'
  BY DEF IInv, DispatchTypeOK, rows
<1>2. RequestsGrounded'
  BY DEF RequestsGrounded, Grounded, Made, rows
<1>3. IndexesHold' /\ CompletedWasDelivered'
  BY DEF IInv, IndexesHold, Live, CompletedWasDelivered, rows
<1> QED BY <1>1, <1>2, <1>3 DEF IInv

\* The quiet steps of requests: t goes on with r.
LEMMA StartsKeep ==
    ASSUME IInv, UNCHANGED <<rows, crashes>>, UNCHANGED sweep \/ SweepTypeOK',
           events' \subseteq events,
           NEW t \in Tasks, NEW r \in Requests, Grounded(r),
           Continue(t, r) \/ UNCHANGED req
    PROVE  IInv'
<1>1. req' \in [Tasks -> Requests] /\ \A u \in Tasks : Grounded(req'[u])
  <2>1. /\ req' = [req EXCEPT ![t] = r] \/ req' = req
        /\ req \in [Tasks -> Requests]
    BY DEF Continue, IInv, RequestsGrounded
  <2>2. ASSUME NEW u \in Tasks PROVE Grounded(req'[u])
    <3>1. req'[u] = r \/ req'[u] = req[u]
      BY <2>1
    <3> QED BY <3>1 DEF IInv, RequestsGrounded
  <2> QED BY <2>1, <2>2
<1>2. SweepTypeOK'
  BY DEF IInv, SweepTypeOK
<1>3. events' \subseteq {"confirmed", "closed"} \X Orders /\ crashes' \in 0 .. CrashLimit
  BY DEF IInv, DispatchTypeOK
<1>4. UNCHANGED rows
  OBVIOUS
<1> HIDE DEF IInv
<1> QED BY <1>1, <1>2, <1>3, <1>4, QuietKeeps

\* Nothing is asked of a request that is over.
LEMMA IdleGrounded == Idle \in Requests /\ Grounded(Idle)
BY DEF Idle, Requests, Grounded, RunKinds

\* Every write but an insert and an acceptance leaves a row as it is, or
\* ends it, or gives it its code; a completion follows a delivery.
Settles ==
    \A a \in Assignments :
        \/ assignments'[a] = assignments[a]
        \/ /\ Made(a)
           /\ assignments'[a] \in AssignmentRows
           /\ assignments'[a].order = assignments[a].order
           /\ assignments'[a].driver = assignments[a].driver
           /\ \/ assignments'[a].status = assignments[a].status
              \/ /\ assignments'[a].status \in TERMINAL_ASSIGNMENT_STATUSES
                 /\ assignments'[a].status = "COMPLETED" =>
                      assignments[a].order \in delivered

OtherTables ==
    /\ orders' \in [Orders -> [status : OrderStatuses, driver : Riders \cup {NULL}]]
    /\ drivers' \in [Riders -> [status : {"ACTIVE", "SUSPENDED"},
                                availability : AVAILABILITIES,
                                totalDeliveries : Nat]]
    /\ lapsed' \subseteq Assignments
    /\ delivered \subseteq delivered' /\ delivered' \subseteq Orders
    /\ events' \subseteq {"confirmed", "closed"} \X Orders
    /\ crashes' = crashes

\* Rows, once made, stay made, with their order; so requests stay grounded.
LEMMA RequestsStay ==
    ASSUME RequestsGrounded,
           \A a \in Assignments : Made(a) =>
               Made(a)' /\ assignments'[a].order = assignments[a].order,
           delivered \subseteq delivered',
           NEW t \in Tasks, NEW r \in Requests, Grounded(r)',
           Continue(t, r) \/ UNCHANGED req
    PROVE  RequestsGrounded'
<1>1. req' \in [Tasks -> Requests]
  BY DEF RequestsGrounded, Continue
<1>2. ASSUME NEW u \in Tasks PROVE Grounded(req[u])'
  <2>1. CASE req'[u] = r
    BY <2>1 DEF Grounded, Made
  <2>2. CASE req'[u] = req[u]
    <3>1. req[u] \in Requests /\ Grounded(req[u])
      BY DEF RequestsGrounded
    <3> QED BY <2>2, <3>1 DEF Grounded, Made, Requests, RunKinds, Idle
  <2> QED BY <2>1, <2>2 DEF RequestsGrounded, Continue
<1> QED BY <1>1, <1>2 DEF RequestsGrounded

LEMMA SettlesKeeps ==
    ASSUME IInv, Settles, assignments' \in [Assignments -> AssignmentRows \cup {NoAssignment}],
           OtherTables, SweepTypeOK',
           NEW t \in Tasks, NEW r \in Requests, Grounded(r)', Continue(t, r) \/ UNCHANGED req
    PROVE  IInv'
<1>1. DispatchTypeOK'
  BY DEF IInv, DispatchTypeOK, OtherTables
<1>2. \A a \in Assignments : Made(a) =>
          Made(a)' /\ assignments'[a].order = assignments[a].order
  BY NoRow DEF Settles, Made
<1>3. RequestsGrounded'
  BY <1>2, RequestsStay DEF IInv, OtherTables
<1>4. ASSUME NEW a \in Assignments
      PROVE  /\ Live(a)' => Live(a)
             /\ (assignments[a].status = "ACCEPTED")' => assignments[a].status = "ACCEPTED"
             /\ Live(a)' => /\ assignments'[a].order = assignments[a].order
                            /\ assignments'[a].driver = assignments[a].driver
  BY DEF Settles, Live, LIVE_STATUSES, TERMINAL_ASSIGNMENT_STATUSES
<1>5. IndexesHold'
  BY <1>4 DEF IInv, IndexesHold, Live, LIVE_STATUSES
<1>6. CompletedWasDelivered'
  BY DEF IInv, CompletedWasDelivered, Settles, OtherTables, TERMINAL_ASSIGNMENT_STATUSES
<1> QED BY <1>1, <1>3, <1>5, <1>6 DEF IInv

-----------------------------------------------------------------------------
(* Steps that write no row.                                                *)

LEMMA RequestsBegin ==
    ASSUME IInv, UNCHANGED crashes, NEW h \in Handlers, Request(h)
    PROVE  IInv'
<1> h \in Tasks
  BY DEF Tasks
<1> DispatchTypeOK
  BY DEF IInv
<1>1. ASSUME NEW o \in Orders, NEW r \in Riders \cup {NULL}, AssignOrder(h, o, r)
      PROVE  IInv'
  <2> DEFINE q == [kind |-> "assign", order |-> o, named |-> r]
  <2>1. q \in Requests /\ Grounded(q)
    BY DEF Requests, Grounded, RunKinds
  <2> QED BY <1>1, <2>1, StartsKeep DEF AssignOrder
<1>2. ASSUME NEW o \in Orders, NEW to \in OrderStatuses, NEW as \in CallerTypes,
             Advance(h, o, to, as)
      PROVE  IInv'
  <2> DEFINE q == [kind |-> "move", order |-> o, to |-> to, as |-> as,
                   then |-> "done", run |-> NULL]
  <2>1. q \in Requests /\ Grounded(q)
    BY DEF Requests, Grounded, RunKinds, AfterMove
  <2> QED BY <1>2, <2>1, StartsKeep DEF Advance, StartMove
<1>3. ASSUME NEW a \in Assignments, NEW answer \in {"accept", "reject"}, Answer(h, a, answer)
      PROVE  IInv'
  <2> DEFINE q == [kind |-> answer, run |-> a]
  <2>1. Made(a)
    BY <1>3 DEF Answer, Answerable, Made, NoAssignment
  <2>2. q \in Requests /\ Grounded(q)
    BY <2>1 DEF Requests, Grounded, RunKinds
  <2> QED BY <1>3, <2>2, StartsKeep DEF Answer
<1>4. ASSUME NEW a \in Assignments, CancelAssignment(h, a)
      PROVE  IInv'
  <2> DEFINE q == [kind |-> "withdraw", run |-> a]
  <2>1. q \in Requests /\ Grounded(q)
    BY <1>4, MadeRows DEF CancelAssignment, Requests, Grounded, RunKinds
  <2> QED BY <1>4, <2>1, StartsKeep DEF CancelAssignment
<1>5. ASSUME NEW a \in Assignments,
             PickupOrder(h, a) \/ StartDelivery(h, a) \/ ConfirmDelivery(h, a)
      PROVE  IInv'
  <2> PICK to \in OrderStatuses, then \in AfterMove :
        /\ StartRide(h, a, to, then)
        /\ then = "complete" => to = "DELIVERED"
    BY <1>5 DEF PickupOrder, StartDelivery, ConfirmDelivery, OrderStatuses, AfterMove
  <2> DEFINE q == [kind |-> "ride", run |-> a, to |-> to, then |-> then]
  <2>1. q \in Requests /\ Grounded(q)
    BY MadeRows DEF StartRide, Requests, Grounded, RunKinds
  <2> QED BY <2>1, StartsKeep DEF StartRide
<1>6. ASSUME NEW r \in Riders, NEW to \in SELF_SERVICE_AVAILABILITY, SetAvailability(h, r, to)
      PROVE  IInv'
  <2> DEFINE q == [kind |-> "switch", driver |-> r, to |-> to]
  <2>1. q \in Requests /\ Grounded(q)
    BY DEF Requests, Grounded, RunKinds, SELF_SERVICE_AVAILABILITY, AVAILABILITIES
  <2> QED BY <1>6, <2>1, StartsKeep DEF SetAvailability
<1>7. ASSUME NEW r \in Riders, SuspendRider(h, r) \/ ReinstateRider(h, r)
      PROVE  IInv'
  <2> PICK to \in {"ACTIVE", "SUSPENDED"} :
        /\ Continue(h, [kind |-> "status", driver |-> r, to |-> to])
        /\ UNCHANGED <<rows, events, sweep>>
    BY <1>7 DEF SuspendRider, ReinstateRider
  <2> DEFINE q == [kind |-> "status", driver |-> r, to |-> to]
  <2>1. q \in Requests /\ Grounded(q)
    BY DEF Requests, Grounded, RunKinds
  <2> QED BY <2>1, StartsKeep
<1> QED BY <1>1, <1>2, <1>3, <1>4, <1>5, <1>6, <1>7, Zenon DEF Request

LEMMA TasksThink ==
    ASSUME IInv, UNCHANGED crashes, NEW t \in Tasks,
           ChooseRider(t) \/ RefuseOffer(t) \/ RefuseAccept(t) \/ Ride(t)
    PROVE  IInv'
<1> RequestsGrounded /\ DispatchTypeOK
  BY DEF IInv
<1>1. ASSUME Finish(t), UNCHANGED <<rows, events, sweep>>
      PROVE  IInv'
  BY <1>1, IdleGrounded, StartsKeep DEF Finish
<1>2. ASSUME ChooseRider(t) PROVE IInv'
  <2> DEFINE o == req[t].order
             named == req[t].named
             choice == IF named = NULL THEN Ranked(o)
                       ELSE {r \in {named} : CanReceiveOffers(r)}
  <2>1. o \in Orders /\ named \in Riders \cup {NULL}
    BY <1>2, RequestKinds DEF ChooseRider
  <2>2. choice \subseteq Riders
    BY <2>1 DEF Ranked, Candidates
  <2>3. ASSUME NEW r \in choice,
               Continue(t, [kind |-> "offer", order |-> o, driver |-> r, named |-> named])
        PROVE  IInv'
    <3> DEFINE q == [kind |-> "offer", order |-> o, driver |-> r, named |-> named]
    <3>1. q \in Requests /\ Grounded(q)
      BY <2>1, <2>2 DEF Requests, Grounded, RunKinds
    <3> QED BY <1>2, <2>3, <3>1, StartsKeep DEF ChooseRider
  <2> QED BY <1>1, <1>2, <2>3 DEF ChooseRider
<1>3. ASSUME Ride(t) PROVE IInv'
  <2> DEFINE a == req[t].run
             o == assignments[a].order
             q == [kind |-> "move", order |-> o, to |-> req[t].to, as |-> "DRIVER",
                   then |-> req[t].then, run |-> a]
  <2>1. /\ a \in Assignments /\ Made(a)
        /\ req[t].to \in OrderStatuses /\ req[t].then \in AfterMove
    BY <1>3, RequestKinds DEF Ride
  <2>2. o \in Orders
    BY <2>1, MadeRows DEF AssignmentRows
  <2>3. q \in Requests
    BY <2>1, <2>2 DEF Requests, CallerTypes, ActorTypes
  <2>4. Grounded(q)
    BY <1>3, <2>1 DEF Ride, RequestsGrounded, Grounded, RunKinds
  <2>5. CASE Continue(t, q)
    BY <1>3, <2>3, <2>4, <2>5, StartsKeep DEF Ride
  <2> QED BY <1>1, <1>3, <2>5 DEF Ride, StartMove
<1> QED BY <1>1, <1>2, <1>3 DEF RefuseOffer, RefuseAccept

LEMMA ListenersStart ==
    ASSUME IInv, UNCHANGED crashes, NEW h \in Handlers, Listen(h)
    PROVE  IInv'
<1> h \in Tasks
  BY DEF Tasks
<1> DispatchTypeOK
  BY DEF IInv
<1>1. ASSUME NEW o \in Orders, OnOrderConfirmed(h, o) PROVE IInv'
  <2> DEFINE q == [kind |-> "assign", order |-> o, named |-> NULL]
  <2>1. q \in Requests /\ Grounded(q)
    BY DEF Requests, Grounded, RunKinds
  <2>2. /\ UNCHANGED <<rows, crashes, sweep>> /\ events' \subseteq events
        /\ Continue(h, q) \/ UNCHANGED req
    BY <1>1 DEF OnOrderConfirmed
  <2> HIDE DEF q
  <2> QED BY <2>1, <2>2, StartsKeep
<1>2. ASSUME NEW o \in Orders, OnOrderClosed(h, o) PROVE IInv'
  <2> DEFINE q == [kind |-> "release", runs |-> LiveFor(o)]
  <2>1. q \in Requests /\ Grounded(q)
    BY MadeRows DEF Requests, Grounded, RunKinds, LiveFor
  <2>2. /\ UNCHANGED <<rows, crashes, sweep>> /\ events' \subseteq events
        /\ Continue(h, q)
    BY <1>2 DEF OnOrderClosed
  <2> HIDE DEF q
  <2> QED BY <2>1, <2>2, StartsKeep
<1> QED BY <1>1, <1>2 DEF Listen

LEMMA SweepStarts ==
    ASSUME IInv, UNCHANGED crashes, SweepFinds \/ SweepOffers
    PROVE  IInv'
<1> Sweep \in Tasks
  BY DEF Tasks
<1> SweepTypeOK
  BY DEF IInv
<1>1. ASSUME SweepFinds PROVE IInv'
  <2>1. SweepTypeOK'
    BY <1>1 DEF SweepFinds, SweepTypeOK, AwaitingDispatch
  <2>2. UNCHANGED <<rows, crashes, events, req>>
    BY <1>1 DEF SweepFinds
  <2> QED BY <2>1, <2>2, IdleGrounded, StartsKeep
<1>2. ASSUME SweepOffers PROVE IInv'
  <2>1. SweepTypeOK' /\ UNCHANGED <<rows, crashes, events>>
    <3>1. CASE sweep' = Resting
      BY <1>2, <3>1 DEF SweepOffers, SweepTypeOK, Resting
    <3>2. ASSUME NEW o \in Orders, sweep' = [sweep EXCEPT !.queue = @ \ {o}]
          PROVE  SweepTypeOK'
      BY <3>2 DEF SweepTypeOK
    <3> QED BY <1>2, <3>1, <3>2 DEF SweepOffers, SweepTypeOK
  <2>2. CASE UNCHANGED req
    BY <2>1, <2>2, IdleGrounded, StartsKeep
  <2>3. ASSUME NEW o \in Orders,
               Continue(Sweep, [kind |-> "assign", order |-> o, named |-> NULL])
        PROVE  IInv'
    <3> DEFINE q == [kind |-> "assign", order |-> o, named |-> NULL]
    <3>1. q \in Requests /\ Grounded(q)
      BY DEF Requests, Grounded, RunKinds
    <3> QED BY <2>1, <2>3, <3>1, StartsKeep
  <2> QED BY <1>2, <2>2, <2>3 DEF SweepOffers, SweepTypeOK
<1> QED BY <1>1, <1>2

LEMMA CrashKeeps ==
    ASSUME IInv, Crash
    PROVE  IInv'
<1>1. SweepTypeOK'
  BY DEF Crash, SweepTypeOK, Resting
<1>2. req' \in [Tasks -> Requests] /\ \A t \in Tasks : Grounded(req'[t])
  BY IdleGrounded DEF Crash
<1>3. /\ events' \subseteq {"confirmed", "closed"} \X Orders
      /\ crashes' \in 0 .. CrashLimit
      /\ UNCHANGED rows
  BY CrashAssumption DEF Crash, IInv, DispatchTypeOK
<1> QED BY <1>1, <1>2, <1>3, QuietKeeps

-----------------------------------------------------------------------------
(* Steps that end assignments.                                             *)

\* The assignments in S end as s.
Ends(S, s) ==
    assignments' = [a \in Assignments |->
        IF a \in S THEN [assignments[a] EXCEPT !.status = s] ELSE assignments[a]]

LEMMA EndsSettles ==
    ASSUME IInv, NEW S \in SUBSET Assignments, NEW s \in TERMINAL_ASSIGNMENT_STATUSES,
           \A a \in S : Made(a),
           s = "COMPLETED" => \A a \in S : assignments[a].order \in delivered,
           Ends(S, s)
    PROVE  /\ Settles
           /\ assignments' \in [Assignments -> AssignmentRows \cup {NoAssignment}]
<1>1. ASSUME NEW a \in S
      PROVE  /\ [assignments[a] EXCEPT !.status = s] \in AssignmentRows
             /\ [assignments[a] EXCEPT !.status = s].order = assignments[a].order
             /\ [assignments[a] EXCEPT !.status = s].driver = assignments[a].driver
             /\ [assignments[a] EXCEPT !.status = s].status = s
  <2>1. assignments[a] \in AssignmentRows
    BY MadeRows DEF IInv
  <2> QED BY <2>1 DEF AssignmentRows
<1>2. assignments' \in [Assignments -> AssignmentRows \cup {NoAssignment}]
  BY <1>1 DEF Ends, IInv, DispatchTypeOK
<1> QED BY <1>1, <1>2 DEF Ends, Settles

\* One assignment ends.
LEMMA EndsOne ==
    ASSUME IInv, NEW a \in Assignments, NEW s,
           assignments' = [assignments EXCEPT ![a].status = s]
    PROVE  Ends({a}, s)
BY DEF Ends, IInv, DispatchTypeOK

LEMMA FreedTypes ==
    ASSUME IInv, NEW S, FreeDrivers(S)
    PROVE  drivers' \in [Riders -> [status : {"ACTIVE", "SUSPENDED"},
                                    availability : AVAILABILITIES,
                                    totalDeliveries : Nat]]
BY DEF FreeDrivers, IInv, DispatchTypeOK, AVAILABILITIES

LEMMA TasksEnd ==
    ASSUME IInv, UNCHANGED crashes, NEW t \in Tasks,
           Reject(t) \/ Withdraw(t) \/ Complete(t) \/ Release(t)
    PROVE  IInv'
<1> /\ RequestsGrounded /\ DispatchTypeOK /\ SweepTypeOK
    /\ req[t] \in Requests /\ Grounded(req[t])
  BY DEF IInv, RequestsGrounded
<1> DEFINE a == req[t].run
<1>1. ASSUME Settles, assignments' \in [Assignments -> AssignmentRows \cup {NoAssignment}],
             OtherTables, UNCHANGED sweep, Finish(t)
      PROVE  IInv'
  <2>1. Idle \in Requests /\ Grounded(Idle)'
    BY DEF Idle, Requests, Grounded, RunKinds
  <2>2. SweepTypeOK'
    BY <1>1 DEF SweepTypeOK
  <2> QED BY <1>1, <2>1, <2>2, SettlesKeeps DEF Finish
<1>2. ASSUME Reject(t) PROVE IInv'
  <2>1. a \in Assignments /\ Made(a)
    BY <1>2, RequestKinds DEF Reject, RunKinds
  <2>2. Ends({a}, "REJECTED")
    BY <1>2, <2>1, EndsOne DEF Reject
  <2>3. Settles /\ assignments' \in [Assignments -> AssignmentRows \cup {NoAssignment}]
    BY <2>1, <2>2, EndsSettles DEF TERMINAL_ASSIGNMENT_STATUSES
  <2>4. OtherTables
    BY <1>2 DEF Reject, OtherTables, DispatchTypeOK
  <2> QED BY <1>1, <1>2, <2>3, <2>4 DEF Reject
<1>3. ASSUME Withdraw(t) PROVE IInv'
  <2>1. a \in Assignments /\ Made(a)
    BY <1>3, RequestKinds DEF Withdraw, RunKinds
  <2>2. Ends({a}, "CANCELLED")
    BY <1>3, <2>1, EndsOne DEF Withdraw
  <2>3. Settles /\ assignments' \in [Assignments -> AssignmentRows \cup {NoAssignment}]
    BY <2>1, <2>2, EndsSettles DEF TERMINAL_ASSIGNMENT_STATUSES
  <2>4. orders' \in [Orders -> [status : OrderStatuses, driver : Riders \cup {NULL}]]
    BY <1>3 DEF Withdraw, BackOnBoard, DispatchTypeOK
  <2>5. OtherTables
    BY <1>3, <2>4, FreedTypes DEF Withdraw, OtherTables, DispatchTypeOK
  <2> QED BY <1>1, <1>3, <2>3, <2>5 DEF Withdraw
<1>4. ASSUME Complete(t) PROVE IInv'
  <2>1. a \in Assignments /\ Made(a) /\ assignments[a].order \in delivered
    BY <1>4, RequestKinds DEF Complete, RunKinds, Grounded
  <2>2. Ends({a}, "COMPLETED")
    BY <1>4, <2>1, EndsOne DEF Complete
  <2>3. Settles /\ assignments' \in [Assignments -> AssignmentRows \cup {NoAssignment}]
    BY <2>1, <2>2, EndsSettles DEF TERMINAL_ASSIGNMENT_STATUSES
  <2>4. assignments[a].driver \in Riders
    BY <2>1, MadeRows DEF AssignmentRows
  <2>5. drivers' \in [Riders -> [status : {"ACTIVE", "SUSPENDED"},
                                 availability : AVAILABILITIES,
                                 totalDeliveries : Nat]]
    <3> DEFINE T == [status : {"ACTIVE", "SUSPENDED"}, availability : AVAILABILITIES,
                     totalDeliveries : Nat]
               r == assignments[a].driver
               c == [drivers[r] EXCEPT !.availability = "ONLINE"]
               d == [c EXCEPT !.totalDeliveries = c.totalDeliveries + 1]
    <3>1. drivers \in [Riders -> T] /\ r \in Riders
      BY <2>4 DEF DispatchTypeOK
    <3>2. c \in T
      BY <3>1 DEF AVAILABILITIES
    <3>3. drivers' = [[drivers EXCEPT ![r] = c] EXCEPT ![r] = d]
      BY <1>4, <3>1 DEF Complete
    <3> HIDE DEF c
    <3>4. d \in T
      BY <3>2
    <3> HIDE DEF d, r, T
    <3> QED BY <3>1, <3>2, <3>3, <3>4 DEF T
  <2>6. OtherTables
    BY <1>4, <2>5 DEF Complete, OtherTables, DispatchTypeOK
  <2> QED BY <1>1, <1>4, <2>3, <2>6 DEF Complete
<1>5. ASSUME Release(t) PROVE IInv'
  <2> DEFINE open == req[t].runs
  <2>1. open \in SUBSET Assignments /\ \A b \in open : Made(b)
    BY <1>5, RequestKinds DEF Release, Grounded
  <2>2. Ends(open, "CANCELLED")
    BY <1>5 DEF Release, Ends
  <2>3. Settles /\ assignments' \in [Assignments -> AssignmentRows \cup {NoAssignment}]
    BY <2>1, <2>2, EndsSettles DEF TERMINAL_ASSIGNMENT_STATUSES
  <2>4. OtherTables
    BY <1>5, FreedTypes DEF Release, OtherTables, DispatchTypeOK
  <2> QED BY <1>1, <1>5, <2>3, <2>4 DEF Release
<1> QED BY <1>2, <1>3, <1>4, <1>5

\* Unanswered offers whose time is up; the sweep's first step, or staff's.
LEMMA ExpiriesKeep ==
    ASSUME IInv, UNCHANGED crashes, SweepExpires \/ ExpireByHand
    PROVE  IInv'
<1> DEFINE S == {a \in lapsed : assignments[a].status = "OFFERED"}
<1>1. S \in SUBSET Assignments /\ \A a \in S : Made(a)
  BY DEF IInv, DispatchTypeOK, Made, NoAssignment
<1>2. Ends(S, "EXPIRED")
  BY DEF SweepExpires, ExpireByHand, ExpireOffers, Ends
<1>3. Settles /\ assignments' \in [Assignments -> AssignmentRows \cup {NoAssignment}]
  BY <1>1, <1>2, EndsSettles DEF TERMINAL_ASSIGNMENT_STATUSES
<1>4. OtherTables
  BY DEF SweepExpires, ExpireByHand, OtherTables, IInv, DispatchTypeOK, memory
<1>5. SweepTypeOK'
  BY DEF SweepExpires, ExpireByHand, SweepTypeOK, IInv, memory
<1>6. UNCHANGED req
  BY DEF SweepExpires, ExpireByHand, memory
<1>7. Sweep \in Tasks /\ Idle \in Requests /\ Grounded(Idle)'
  BY DEF Tasks, Idle, Requests, Grounded, RunKinds
<1> QED BY <1>3, <1>4, <1>5, <1>6, <1>7, SettlesKeeps

-----------------------------------------------------------------------------
(* Steps that write other rows.                                            *)

LEMMA LapsesKeep ==
    ASSUME IInv, UNCHANGED crashes, NEW a \in Assignments, Lapse(a)
    PROVE  IInv'
<1>1. Settles /\ assignments' \in [Assignments -> AssignmentRows \cup {NoAssignment}]
  BY DEF Lapse, Settles, IInv, DispatchTypeOK
<1>2. OtherTables
  BY DEF Lapse, OtherTables, IInv, DispatchTypeOK, memory
<1>3. SweepTypeOK' /\ UNCHANGED req
  BY DEF Lapse, SweepTypeOK, IInv, memory
<1>4. Sweep \in Tasks /\ Idle \in Requests /\ Grounded(Idle)'
  BY DEF Tasks, Idle, Requests, Grounded, RunKinds
<1> QED BY <1>1, <1>2, <1>3, <1>4, SettlesKeeps

LEMMA RidersWritten ==
    ASSUME IInv, UNCHANGED crashes, NEW t \in Tasks, Switch(t) \/ SetStatus(t)
    PROVE  IInv'
<1> DEFINE T == [status : {"ACTIVE", "SUSPENDED"}, availability : AVAILABILITIES,
                 totalDeliveries : Nat]
           r == req[t].driver
<1> RequestsGrounded
  BY DEF IInv
<1>1. drivers \in [Riders -> T]
  BY DEF IInv, DispatchTypeOK
<1>2. drivers' \in [Riders -> T]
  <2>1. CASE Switch(t)
    <3>1. r \in Riders /\ req[t].to \in AVAILABILITIES
      BY <2>1, RequestKinds DEF Switch
    <3> QED BY <1>1, <2>1, <3>1 DEF Switch
  <2>2. CASE SetStatus(t)
    <3> DEFINE c == [drivers[r] EXCEPT !.status = req[t].to]
               d == [c EXCEPT !.availability =
                        IF req[t].to = "ACTIVE" THEN c.availability ELSE "OFFLINE"]
    <3>1. r \in Riders /\ req[t].to \in {"ACTIVE", "SUSPENDED"}
      BY <2>2, RequestKinds DEF SetStatus
    <3>2. c \in T
      BY <1>1, <3>1
    <3>3. drivers' = [[drivers EXCEPT ![r] = c] EXCEPT ![r] = d]
      BY <1>1, <2>2, <3>1 DEF SetStatus
    <3> HIDE DEF c
    <3>4. d \in T
      BY <3>2 DEF AVAILABILITIES
    <3> HIDE DEF d, r, T
    <3> QED BY <1>1, <3>1, <3>2, <3>3, <3>4
  <2> QED BY <2>1, <2>2
<1>3. UNCHANGED <<orders, assignments, lapsed, delivered, events, sweep>> /\ Finish(t)
  BY DEF Switch, SetStatus
<1>4. Settles /\ assignments' \in [Assignments -> AssignmentRows \cup {NoAssignment}]
  BY <1>3 DEF Settles, IInv, DispatchTypeOK
<1>5. OtherTables
  BY <1>2, <1>3 DEF OtherTables, IInv, DispatchTypeOK
<1>6. SweepTypeOK'
  BY <1>3 DEF SweepTypeOK, IInv
<1>7. Idle \in Requests /\ Grounded(Idle)'
  BY DEF Idle, Requests, Grounded, RunKinds
<1> QED BY <1>3, <1>4, <1>5, <1>6, <1>7, SettlesKeeps DEF Finish

\* The customer is given a code.
LEMMA CodesKeep ==
    ASSUME IInv, UNCHANGED crashes, NEW t \in Tasks, StoreOtp(t)
    PROVE  IInv'
<1> DEFINE a == req[t].run
           d == [assignments[a] EXCEPT !.coded = TRUE]
<1> DispatchTypeOK /\ RequestsGrounded
  BY DEF IInv
<1>1. a \in Assignments /\ Made(a)
  BY RequestKinds DEF StoreOtp, RunKinds
<1>2. assignments[a] \in AssignmentRows
  BY <1>1, MadeRows
<1>3. /\ d \in AssignmentRows
      /\ d.order = assignments[a].order
      /\ d.driver = assignments[a].driver
      /\ d.status = assignments[a].status
  BY <1>2 DEF AssignmentRows
<1>4. assignments' = [assignments EXCEPT ![a] = d]
  BY DEF StoreOtp
<1>5. assignments' \in [Assignments -> AssignmentRows \cup {NoAssignment}]
  BY <1>1, <1>3, <1>4 DEF DispatchTypeOK
<1>6. Settles
  BY <1>1, <1>3, <1>4 DEF Settles, DispatchTypeOK
<1>7. OtherTables /\ SweepTypeOK'
  BY DEF StoreOtp, OtherTables, IInv, DispatchTypeOK, SweepTypeOK
<1>8. Idle \in Requests /\ Grounded(Idle)'
  BY DEF Idle, Requests, Grounded, RunKinds
<1> QED BY <1>5, <1>6, <1>7, <1>8, SettlesKeeps DEF StoreOtp, Finish

\* An order moves; a rider's delivery goes on to complete its assignment.
LEMMA MovesKeep ==
    ASSUME IInv, UNCHANGED crashes, NEW t \in Tasks, CommitMove(t)
    PROVE  IInv'
<1> DEFINE m == req[t]
           next == IF m.then = "done" THEN Idle ELSE [kind |-> m.then, run |-> m.run]
<1> DispatchTypeOK /\ RequestsGrounded
  BY DEF IInv
<1>1. /\ m.kind = "move" /\ m.order \in Orders /\ m.to \in OrderStatuses
      /\ m.then \in AfterMove /\ Grounded(m)
  BY RequestKinds DEF CommitMove, RequestsGrounded
<1>2. UNCHANGED <<assignments, lapsed, drivers, sweep>> /\ Continue(t, next)
  BY DEF CommitMove
<1>3. next \in Requests
  BY <1>1 DEF Requests, AfterMove, RunKinds, Grounded
<1> PICK q \in Requests : q = next
  BY <1>3
<1>4. /\ delivered \subseteq delivered' /\ delivered' \subseteq Orders
      /\ m.to = "DELIVERED" => m.order \in delivered'
  BY <1>1 DEF CommitMove, DispatchTypeOK
<1>5. Grounded(q)'
  <2>1. CASE m.then = "done"
    <3>1. q = Idle
      BY <2>1
    <3> QED BY <3>1 DEF Idle, Grounded, RunKinds
  <2>2. CASE m.then # "done"
    <3>1. q = [kind |-> m.then, run |-> m.run]
      BY <2>2
    <3>2. /\ m.run \in Assignments /\ Made(m.run)
          /\ m.then = "complete" => assignments[m.run].order \in delivered'
      BY <1>1, <1>4, <2>2 DEF Grounded
    <3>3. m.then = "code" \/ m.then = "complete"
      BY <1>1, <2>2 DEF AfterMove
    <3>4. UNCHANGED assignments
      BY <1>2
    <3>5. q.kind \in {"code", "complete"} /\ q.run = m.run /\ (q.kind = m.then)
      BY <3>1, <3>3
    <3> QED BY <3>2, <3>4, <3>5 DEF Grounded, Made, RunKinds
  <2> QED BY <2>1, <2>2
<1>6. Settles /\ assignments' \in [Assignments -> AssignmentRows \cup {NoAssignment}]
  BY <1>2 DEF Settles, DispatchTypeOK
<1>7. orders' \in [Orders -> [status : OrderStatuses, driver : Riders \cup {NULL}]]
  BY <1>1 DEF CommitMove, DispatchTypeOK
<1>8. events' \subseteq {"confirmed", "closed"} \X Orders
  <2>1. Announced(m.order, m.to, m.as) \subseteq {"confirmed", "closed"} \X Orders
    BY <1>1 DEF Announced
  <2> QED BY <2>1 DEF CommitMove, DispatchTypeOK
<1>9. OtherTables /\ SweepTypeOK'
  BY <1>2, <1>4, <1>7, <1>8 DEF OtherTables, IInv, DispatchTypeOK, SweepTypeOK
<1>10. Continue(t, q)
  BY <1>2
<1> HIDE DEF next
<1> QED BY <1>5, <1>6, <1>9, <1>10, SettlesKeeps

-----------------------------------------------------------------------------
(* The two steps the indexes guard.                                        *)

LEMMA InsertsKeep ==
    ASSUME IInv, UNCHANGED crashes, NEW t \in Tasks, InsertOffer(t)
    PROVE  IInv'
<1> DispatchTypeOK /\ RequestsGrounded
  BY DEF IInv
<1> DEFINE o == req[t].order
           r == req[t].driver
           row == [order |-> o, driver |-> r, status |-> "OFFERED", coded |-> FALSE]
<1>1. o \in Orders /\ r \in Riders
  BY RequestKinds DEF InsertOffer
<1>2. PICK a \in Assignments :
        ~ Made(a) /\ assignments' = [assignments EXCEPT ![a] = row]
  BY DEF InsertOffer, OfferedDriver, Made
<1>3. row \in AssignmentRows
  BY <1>1 DEF AssignmentRows, LIVE_STATUSES
<1>4. UNCHANGED <<orders, lapsed, drivers, delivered, events, sweep, crashes>> /\ Finish(t)
  BY DEF InsertOffer
<1>5. \A b \in Assignments : ~ (Live(b) /\ assignments[b].order = o)
  BY DEF InsertOffer, OrderIsFree, LiveFor
<1>6. /\ assignments'[a] = row
      /\ row.order = o /\ row.driver = r /\ row.status = "OFFERED"
      /\ \A b \in Assignments : b # a => assignments'[b] = assignments[b]
  BY <1>2 DEF DispatchTypeOK
<1>7. assignments' \in [Assignments -> AssignmentRows \cup {NoAssignment}]
  BY <1>2, <1>3 DEF DispatchTypeOK
<1> HIDE DEF row, o, r
<1>8. DispatchTypeOK'
  BY <1>4, <1>7 DEF DispatchTypeOK
<1>9. RequestsGrounded'
  <2>1. \A b \in Assignments : Made(b) =>
            Made(b)' /\ assignments'[b].order = assignments[b].order
    BY <1>2, <1>6 DEF Made
  <2>2. Idle \in Requests /\ Grounded(Idle)'
    BY DEF Idle, Requests, Grounded, RunKinds
  <2>3. Continue(t, Idle) /\ delivered \subseteq delivered'
    BY <1>4 DEF Finish
  <2> QED BY <2>1, <2>2, <2>3, RequestsStay
<1>10. IndexesHold'
  <2>1. ASSUME NEW b \in Assignments, NEW c \in Assignments, Live(b)', Live(c)',
               assignments'[b].order = assignments'[c].order
        PROVE  b = c
    BY <1>5, <1>6, <2>1 DEF IInv, IndexesHold, Live
  <2>2. ASSUME NEW b \in Assignments, NEW c \in Assignments,
               assignments'[b].status = "ACCEPTED", assignments'[c].status = "ACCEPTED",
               assignments'[b].driver = assignments'[c].driver
        PROVE  b = c
    BY <1>6, <2>2 DEF IInv, IndexesHold
  <2> QED BY <2>1, <2>2 DEF IndexesHold
<1>11. CompletedWasDelivered'
  BY <1>4, <1>6 DEF IInv, CompletedWasDelivered
<1>12. SweepTypeOK'
  BY <1>4 DEF IInv, SweepTypeOK
<1> QED BY <1>8, <1>9, <1>10, <1>11, <1>12 DEF IInv

LEMMA AcceptsKeep ==
    ASSUME IInv, UNCHANGED crashes, NEW t \in Tasks, Accept(t)
    PROVE  IInv'
<1> DispatchTypeOK /\ RequestsGrounded
  BY DEF IInv
<1> DEFINE a == req[t].run
           o == assignments[a].order
           r == assignments[a].driver
<1>1. a \in Assignments /\ Made(a)
  BY RequestKinds DEF Accept, RunKinds
<1>2. o \in Orders /\ r \in Riders
  BY <1>1, MadeRows DEF AssignmentRows
<1>3. Answerable(a) /\ Carried(r) = {}
  BY DEF Accept, CanTake
<1>4. UNCHANGED <<lapsed, delivered, events, sweep, crashes>> /\ Finish(t)
  BY DEF Accept
<1>5. ASSUME NEW b \in Assignments, assignments[b] \in AssignmentRows,
             NEW s \in LIVE_STATUSES \cup TERMINAL_ASSIGNMENT_STATUSES
      PROVE  LET d == [assignments[b] EXCEPT !.status = s] IN
             /\ d \in AssignmentRows
             /\ d.order = assignments[b].order
             /\ d.driver = assignments[b].driver
             /\ d.status = s
  BY <1>5 DEF AssignmentRows
<1>6. ASSUME NEW b \in Assignments
      PROVE  \/ b # a /\ assignments'[b] = assignments[b]
             \/ /\ Made(b)
                /\ assignments'[b] \in AssignmentRows
                /\ assignments'[b].order = assignments[b].order
                /\ assignments'[b].driver = assignments[b].driver
                /\ IF b = a THEN assignments'[b].status = "ACCEPTED"
                   ELSE assignments'[b].status = "CANCELLED"
  <2>1. CASE b = a
    <3>1. assignments'[b] = [assignments[b] EXCEPT !.status = "ACCEPTED"]
      BY <1>1, <2>1 DEF Accept
    <3> QED BY <1>1, <1>5, <2>1, <3>1, MadeRows DEF LIVE_STATUSES
  <2>2. CASE b # a /\ assignments[b].order = o /\ assignments[b].status = "OFFERED"
    <3>1. assignments'[b] = [assignments[b] EXCEPT !.status = "CANCELLED"]
      BY <2>2 DEF Accept
    <3>2. Made(b)
      BY <2>2, MadeRows DEF Live, LIVE_STATUSES
    <3> QED BY <1>5, <2>2, <3>1, <3>2, MadeRows DEF TERMINAL_ASSIGNMENT_STATUSES
  <2>3. CASE b # a /\ ~ (assignments[b].order = o /\ assignments[b].status = "OFFERED")
    BY <2>3 DEF Accept
  <2> QED BY <2>1, <2>2, <2>3
<1>7. assignments' \in [Assignments -> AssignmentRows \cup {NoAssignment}]
  <2>1. assignments' = [b \in Assignments |-> assignments'[b]]
    BY DEF Accept
  <2> QED BY <1>6, <2>1 DEF DispatchTypeOK
<1>8. /\ orders' \in [Orders -> [status : OrderStatuses, driver : Riders \cup {NULL}]]
      /\ drivers' \in [Riders -> [status : {"ACTIVE", "SUSPENDED"},
                                  availability : AVAILABILITIES,
                                  totalDeliveries : Nat]]
  BY <1>2 DEF Accept, DispatchTypeOK, AVAILABILITIES
<1>9. DispatchTypeOK'
  BY <1>4, <1>7, <1>8 DEF DispatchTypeOK
<1>10. RequestsGrounded'
  <2>1. \A b \in Assignments : Made(b) =>
            Made(b)' /\ assignments'[b].order = assignments[b].order
    BY <1>6, NoRow DEF Made
  <2>2. Idle \in Requests /\ Grounded(Idle)'
    BY DEF Idle, Requests, Grounded, RunKinds
  <2>3. Continue(t, Idle) /\ delivered \subseteq delivered'
    BY <1>4 DEF Finish
  <2> QED BY <2>1, <2>2, <2>3, RequestsStay
<1>11. IndexesHold'
  <2>1. ASSUME NEW b \in Assignments
        PROVE  /\ Live(b)' => /\ Live(b)
                              /\ assignments'[b].order = assignments[b].order
                              /\ assignments'[b].driver = assignments[b].driver
               /\ assignments'[b].status = "ACCEPTED" =>
                    b = a \/ assignments[b].status = "ACCEPTED"
    BY <1>3, <1>6 DEF Live, LIVE_STATUSES, Answerable
  <2>2. ASSUME NEW b \in Assignments, NEW c \in Assignments, Live(b)', Live(c)',
               assignments'[b].order = assignments'[c].order
        PROVE  b = c
    BY <2>1, <2>2 DEF IInv, IndexesHold
  <2>3. ASSUME NEW b \in Assignments, NEW c \in Assignments,
               assignments'[b].status = "ACCEPTED", assignments'[c].status = "ACCEPTED",
               assignments'[b].driver = assignments'[c].driver
        PROVE  b = c
    <3>1. /\ assignments'[b].driver = assignments[b].driver
          /\ assignments'[c].driver = assignments[c].driver
      BY <2>1, <2>3 DEF Live, LIVE_STATUSES
    <3>2. \A d \in Assignments :
            ~ (assignments[d].driver = r /\ assignments[d].status = "ACCEPTED")
      BY <1>3 DEF Carried
    <3>3. /\ b = a \/ assignments[b].status = "ACCEPTED"
          /\ c = a \/ assignments[c].status = "ACCEPTED"
          /\ assignments[b].driver = assignments[c].driver
      BY <2>1, <2>3, <3>1
    <3>4. CASE assignments[b].status = "ACCEPTED" /\ assignments[c].status = "ACCEPTED"
      BY <3>3, <3>4 DEF IInv, IndexesHold
    <3> QED BY <3>2, <3>3, <3>4
  <2> QED BY <2>2, <2>3 DEF IndexesHold
<1>12. CompletedWasDelivered'
  BY <1>4, <1>6 DEF IInv, CompletedWasDelivered
<1>13. SweepTypeOK'
  BY <1>4 DEF IInv, SweepTypeOK
<1> QED BY <1>9, <1>10, <1>11, <1>12, <1>13 DEF IInv

-----------------------------------------------------------------------------
(* The theorems.                                                           *)

LEMMA StartKeeps == Init => IInv
<1> SUFFICES ASSUME Init PROVE IInv
  OBVIOUS
<1>1. /\ orders \in [Orders -> [status : OrderStatuses, driver : Riders \cup {NULL}]]
      /\ drivers \in [Riders -> [status : {"ACTIVE", "SUSPENDED"},
                                 availability : AVAILABILITIES,
                                 totalDeliveries : Nat]]
  BY EntryAssumption DEF Init, OrderStatuses, AVAILABILITIES
<1>2. /\ assignments \in [Assignments -> AssignmentRows \cup {NoAssignment}]
      /\ lapsed = {} /\ delivered = {} /\ events = {} /\ crashes = 0
  BY DEF Init
<1>3. DispatchTypeOK
  BY <1>1, <1>2, CrashAssumption DEF DispatchTypeOK
<1>4. RequestsGrounded /\ SweepTypeOK
  BY IdleGrounded DEF Init, RequestsGrounded, SweepTypeOK, Resting
<1>5. \A a \in Assignments : assignments[a].status = "ABSENT"
  BY DEF Init, NoAssignment
<1>6. IndexesHold /\ CompletedWasDelivered
  BY <1>5 DEF IndexesHold, Live, LIVE_STATUSES, CompletedWasDelivered
<1> QED BY <1>3, <1>4, <1>6 DEF IInv

LEMMA TasksKeep ==
    ASSUME IInv, UNCHANGED crashes, NEW t \in Tasks, Proceed(t)
    PROVE  IInv'
<1>1. CASE ChooseRider(t) \/ RefuseOffer(t) \/ RefuseAccept(t) \/ Ride(t)
  BY <1>1, TasksThink
<1>2. CASE Reject(t) \/ Withdraw(t) \/ Complete(t) \/ Release(t)
  BY <1>2, TasksEnd
<1>3. CASE Switch(t) \/ SetStatus(t)
  BY <1>3, RidersWritten
<1>4. CASE InsertOffer(t)
  BY <1>4, InsertsKeep
<1>5. CASE Accept(t)
  BY <1>5, AcceptsKeep
<1>6. CASE CommitMove(t)
  BY <1>6, MovesKeep
<1>7. CASE StoreOtp(t)
  BY <1>7, CodesKeep
<1> QED BY <1>1, <1>2, <1>3, <1>4, <1>5, <1>6, <1>7 DEF Proceed

LEMMA StepKeeps == IInv /\ [Next]_vars => IInv'
<1> SUFFICES ASSUME IInv, [Next]_vars PROVE IInv'
  OBVIOUS
<1>1. CASE UNCHANGED vars
  <2>1. UNCHANGED <<rows, events, req, sweep, crashes>>
    BY <1>1 DEF vars, memory
  <2>2. /\ events' \subseteq {"confirmed", "closed"} \X Orders
        /\ crashes' \in 0 .. CrashLimit
        /\ SweepTypeOK'
        /\ req' \in [Tasks -> Requests] /\ \A t \in Tasks : Grounded(req'[t])
    BY <2>1 DEF IInv, DispatchTypeOK, SweepTypeOK, RequestsGrounded
  <2> QED BY <2>1, <2>2, QuietKeeps
<1>2. ASSUME UNCHANGED crashes, NEW h \in Handlers, Proceed(h) \/ Listen(h) \/ Request(h)
      PROVE  IInv'
  <2>1. h \in Tasks
    BY DEF Tasks
  <2> QED BY <1>2, <2>1, TasksKeep, ListenersStart, RequestsBegin
<1>3. ASSUME UNCHANGED crashes, NEW a \in Assignments, Lapse(a) PROVE IInv'
  BY <1>3, LapsesKeep
<1>4. ASSUME UNCHANGED crashes, SweepNext PROVE IInv'
  <2>1. Sweep \in Tasks
    BY DEF Tasks
  <2> QED BY <1>4, <2>1, TasksKeep, ExpiriesKeep, SweepStarts DEF SweepNext
<1>5. ASSUME UNCHANGED crashes, ExpireByHand PROVE IInv'
  BY <1>5, ExpiriesKeep
<1>6. ASSUME Crash PROVE IInv'
  BY <1>6, CrashKeeps
<1> QED BY <1>1, <1>2, <1>3, <1>4, <1>5, <1>6 DEF Next

\* In every state dispatch can reach, through any races and crashes, the
\* tables hold rows of their type, both indexes hold, and what a request
\* means to write still fits the rows it will write to.
THEOREM Invariance == Spec => []IInv
BY StartKeeps, StepKeeps, PTL DEF Spec

\* The tables only ever hold rows of their type: a write that compares
\* nothing never writes to a row that is not there.
THEOREM DispatchTyped == Spec => []DispatchTypeOK
<1>1. IInv => DispatchTypeOK
  BY DEF IInv
<1> QED BY <1>1, Invariance, PTL

\* A set of assignments that are all the same one has at most one of them.
LEMMA AtMostOne ==
    ASSUME NEW S, \A a, b \in S : a = b
    PROVE  Cardinality(S) <= 1
<1>1. CASE S = {}
  BY <1>1, FS_EmptySet
<1>2. CASE S # {}
  <2>1. PICK a \in S : TRUE
    BY <1>2
  <2>2. S = {a}
    BY <2>1
  <2>3. Cardinality({a}) = 1
    BY FS_Singleton
  <2> QED BY <2>2, <2>3
<1> QED BY <1>1, <1>2

\* However many dispatchers, riders, listeners and sweeps race, an order
\* has at most one live assignment and a rider has accepted at most one:
\* every write other than the insert and the acceptance, which the indexes
\* guard, leaves a row's order and rider alone and can only end it.
THEOREM OneRun == Spec => []OneRunAtATime
<1>1. IInv => OneRunAtATime
  <2> SUFFICES ASSUME IInv PROVE OneRunAtATime
    OBVIOUS
  <2>1. ASSUME NEW o \in Orders PROVE Cardinality(LiveFor(o)) <= 1
    <3>1. \A a, b \in LiveFor(o) : a = b
      BY DEF LiveFor, IInv, IndexesHold
    <3> QED BY <3>1, AtMostOne
  <2>2. ASSUME NEW r \in Riders PROVE Cardinality(Carried(r)) <= 1
    <3>1. \A a, b \in Carried(r) : a = b
      BY DEF Carried, IInv, IndexesHold
    <3> QED BY <3>1, AtMostOne
  <2> QED BY <2>1, <2>2 DEF OneRunAtATime
<1> QED BY <1>1, Invariance, PTL

\* A run is completed only for an order that was delivered: the request that
\* completes it has moved its own order to DELIVERED before, and a crash
\* between the two forgets the completion, never the delivery.
THEOREM CompletedDelivered == Spec => []CompletedWasDelivered
<1>1. IInv => CompletedWasDelivered
  BY DEF IInv
<1> QED BY <1>1, Invariance, PTL

-----------------------------------------------------------------------------
(* One request at a time beside the sweep: dispatch implements the board.  *)

OneAtATime == \A g, h \in Handlers : g = h

Accepted(a) == assignments[a].status = "ACCEPTED"

Closed(o) == orders[o].status \in TERMINAL_STATUSES

\* An open order that shows a rider is carried, and by OrderKnowsItsRider by
\* him; a closed one may show who brought it.
NamesHaveReasons ==
    \A o \in Orders : orders[o].driver # NULL =>
        Closed(o) \/ \E a \in Assignments : Accepted(a) /\ assignments[a].order = o

\* What r has read is still so: the sweep, which is all that runs beside it,
\* accepts nothing, ends no run that was accepted and moves no order.
Fresh(r) ==
    /\ r.kind = "reject" => ~ Accepted(r.run)
    /\ r.kind = "withdraw" =>
         \A a \in Assignments :
             Accepted(a) /\ assignments[a].order = assignments[r.run].order => a = r.run
    /\ r.kind = "ride" /\ r.then = "complete" => Accepted(r.run)
    /\ r.kind = "move" => /\ MayMove(r.as, orders[r.order].status, r.to)
                          /\ r.then = "complete" => Accepted(r.run)
    /\ r.kind = "complete" => Accepted(r.run)
    /\ r.kind = "release" =>
         \E o \in Orders : Closed(o) /\ \A a \in r.runs : assignments[a].order = o

OrdersStayClosed ==
    /\ \A o \in delivered : Closed(o)
    /\ \A o \in Orders : <<"closed", o>> \in events => Closed(o)

RequestsFresh ==
    /\ req[Sweep].kind \in {"idle", "assign", "offer"}
    /\ \A h \in Handlers : Fresh(req[h])

SerialInv ==
    /\ OrderKnowsItsRider
    /\ NamesHaveReasons
    /\ OrdersStayClosed
    /\ RequestsFresh

LEMMA MovesAreOfOpenOrders ==
    ASSUME NEW actor, NEW from, NEW to, MayMove(actor, from, to)
    PROVE  from \notin TERMINAL_STATUSES
BY DEF MayMove, ORDER_TRANSITIONS, TERMINAL_STATUSES

LEMMA IdleFresh == Fresh(Idle) /\ Fresh(Idle)'
BY DEF Fresh, Idle

\* Who carries an order, before and after a step.
LEMMA HolderIs ==
    ASSUME NEW o \in Orders
    PROVE  /\ IndexesHold =>
                /\ (\A a \in Assignments : ~ (Accepted(a) /\ assignments[a].order = o))
                     => Holder(o) = NULL
                /\ \A a \in Assignments :
                       Accepted(a) /\ assignments[a].order = o
                           => Holder(o) = assignments[a].driver
           /\ IndexesHold' =>
                /\ (\A a \in Assignments : ~ (Accepted(a)' /\ assignments'[a].order = o))
                     => Holder(o)' = NULL
                /\ \A a \in Assignments :
                       Accepted(a)' /\ assignments'[a].order = o
                           => Holder(o)' = assignments'[a].driver
<1> DEFINE taken == {a \in LiveFor(o) : assignments[a].status = "ACCEPTED"}
<1>1. /\ taken = {a \in Assignments : Accepted(a) /\ assignments[a].order = o}
      /\ taken' = {a \in Assignments : Accepted(a)' /\ assignments'[a].order = o}
  BY DEF LiveFor, Live, LIVE_STATUSES, Accepted
<1>2. /\ Holder(o) = IF taken = {} THEN NULL ELSE assignments[CHOOSE a \in taken : TRUE].driver
      /\ Holder(o)' =
            IF taken' = {} THEN NULL ELSE assignments'[CHOOSE a \in taken' : TRUE].driver
  BY DEF Holder
<1>3. /\ IndexesHold => \A a, b \in taken : a = b
      /\ IndexesHold' => \A a, b \in taken' : a = b
  BY <1>1 DEF IndexesHold, Live, LIVE_STATUSES, Accepted
<1> HIDE DEF taken
<1>4. /\ taken # {} => (CHOOSE a \in taken : TRUE) \in taken
      /\ taken' # {} => (CHOOSE a \in taken' : TRUE) \in taken'
  OBVIOUS
<1>5. ASSUME IndexesHold, NEW a \in taken PROVE Holder(o) = assignments[a].driver
  BY <1>2, <1>3, <1>4, <1>5
<1>6. ASSUME IndexesHold', NEW a \in taken' PROVE Holder(o)' = assignments'[a].driver
  BY <1>2, <1>3, <1>4, <1>6
<1> QED BY <1>1, <1>2, <1>5, <1>6

\* Nobody takes or gives back a run, and made rows stay whose they are.
RunsStay ==
    \A a \in Assignments :
        /\ Accepted(a)' <=> Accepted(a)
        /\ Made(a) => /\ assignments'[a].order = assignments[a].order
                      /\ assignments'[a].driver = assignments[a].driver

LEMMA AcceptedIsMade ==
    ASSUME NEW a, Accepted(a)
    PROVE  Made(a)
BY DEF Accepted, Made, NoAssignment

LEMMA HolderStays ==
    ASSUME NEW o \in Orders,
           \A a \in Assignments :
               /\ Accepted(a)' /\ assignments'[a].order = o
                    <=> Accepted(a) /\ assignments[a].order = o
               /\ Accepted(a) => assignments'[a].driver = assignments[a].driver
    PROVE  Holder(o)' = Holder(o)
<1> DEFINE taken == {a \in LiveFor(o) : assignments[a].status = "ACCEPTED"}
<1>1. /\ taken = {a \in Assignments : Accepted(a) /\ assignments[a].order = o}
      /\ taken' = {a \in Assignments : Accepted(a)' /\ assignments'[a].order = o}
  BY DEF LiveFor, Live, LIVE_STATUSES, Accepted
<1>2. taken' = taken
  BY <1>1
<1>3. /\ Holder(o) = IF taken = {} THEN NULL ELSE assignments[CHOOSE a \in taken : TRUE].driver
      /\ Holder(o)' =
            IF taken' = {} THEN NULL ELSE assignments'[CHOOSE a \in taken' : TRUE].driver
  BY DEF Holder
<1>4. \A a \in taken : a \in Assignments /\ Accepted(a)
  BY <1>1
<1> HIDE DEF taken
<1>5. taken # {} => (CHOOSE a \in taken : TRUE) \in taken
  OBVIOUS
<1> QED BY <1>2, <1>3, <1>4, <1>5

LEMMA HoldersStay ==
    ASSUME RunsStay, NEW o \in Orders
    PROVE  Holder(o)' = Holder(o)
BY AcceptedIsMade, HolderStays DEF RunsStay

\* A step that is nothing to the board.
Unseen ==
    /\ RunsStay
    /\ UNCHANGED <<orders, delivered>>
    /\ \A r \in Riders : drivers'[r].totalDeliveries = drivers[r].totalDeliveries
    /\ \A o \in Orders : <<"closed", o>> \in events' => <<"closed", o>> \in events

LEMMA UnseenStutters ==
    ASSUME Unseen
    PROVE  UNCHANGED Board!vars
<1>1. [o \in Orders |-> Holder(o)]' = [o \in Orders |-> Holder(o)]
  BY HoldersStay DEF Unseen
<1>2. [r \in Riders |-> drivers[r].totalDeliveries]'
        = [r \in Riders |-> drivers[r].totalDeliveries]
  BY DEF Unseen
<1>3. /\ [o \in Orders |-> orders[o].driver]' = [o \in Orders |-> orders[o].driver]
      /\ {o \in Orders : orders[o].status \in TERMINAL_STATUSES}'
            = {o \in Orders : orders[o].status \in TERMINAL_STATUSES}
      /\ delivered' = delivered
  BY DEF Unseen
<1> QED BY <1>1, <1>2, <1>3 DEF Board!vars

LEMMA FreshStays ==
    ASSUME RunsStay, UNCHANGED orders, NEW r \in Requests, Grounded(r), Fresh(r)
    PROVE  Fresh(r)'
<1>1. r.kind \in RunKinds \cup {"ride"} => r.run \in Assignments /\ Made(r.run)
  BY DEF Grounded
<1>2. r.kind = "move" /\ r.then # "done" => r.run \in Assignments
  BY DEF Grounded
<1>3. r.kind = "release" => \A a \in r.runs : a \in Assignments /\ Made(a)
  BY DEF Grounded, Requests, Idle, RunKinds
<1>4. r.kind = "reject" => ~ Accepted(r.run)'
  BY <1>1 DEF Fresh, RunsStay, RunKinds
<1>5. r.kind = "withdraw" =>
        \A a \in Assignments :
            Accepted(a)' /\ assignments'[a].order = assignments'[r.run].order => a = r.run
  BY <1>1, AcceptedIsMade DEF Fresh, RunsStay, RunKinds
<1>6. r.kind = "ride" /\ r.then = "complete" => Accepted(r.run)'
  BY <1>1 DEF Fresh, RunsStay
<1>7. r.kind = "move" => /\ MayMove(r.as, orders'[r.order].status, r.to)
                         /\ r.then = "complete" => Accepted(r.run)'
  BY <1>2 DEF Fresh, RunsStay
<1>8. r.kind = "complete" => Accepted(r.run)'
  BY <1>1 DEF Fresh, RunsStay, RunKinds
<1>9. r.kind = "release" =>
        \E o \in Orders : Closed(o)' /\ \A a \in r.runs : assignments'[a].order = o
  BY <1>3 DEF Fresh, RunsStay, Closed
<1> QED BY <1>4, <1>5, <1>6, <1>7, <1>8, <1>9 DEF Fresh

\* Such a step, whoever takes it, leaves what all others read as it was.
LEMMA UnseenKeeps ==
    ASSUME RequestsGrounded, SerialInv, Unseen, NEW t \in Tasks, NEW r,
           Continue(t, r) \/ UNCHANGED req,
           t = Sweep => r.kind \in {"idle", "assign", "offer"},
           t \in Handlers => Fresh(r)'
    PROVE  SerialInv' /\ UNCHANGED Board!vars
<1>1. OrderKnowsItsRider'
  BY AcceptedIsMade DEF SerialInv, OrderKnowsItsRider, Unseen, RunsStay, Accepted
<1>2. NamesHaveReasons'
  BY AcceptedIsMade DEF SerialInv, NamesHaveReasons, Unseen, RunsStay, Closed
<1>3. OrdersStayClosed'
  BY DEF SerialInv, OrdersStayClosed, Unseen, Closed
<1>4. /\ req'[Sweep] = req[Sweep] \/ (t = Sweep /\ req'[Sweep] = r)
      /\ \A h \in Handlers : req'[h] = req[h] \/ (t = h /\ req'[h] = r)
  BY DEF Continue, RequestsGrounded, Tasks
<1>5. req'[Sweep].kind \in {"idle", "assign", "offer"}
  BY <1>4 DEF SerialInv, RequestsFresh
<1>6. ASSUME NEW h \in Handlers PROVE Fresh(req[h])'
  <2>1. CASE t = h /\ req'[h] = r
    <3>1. Fresh(r)'
      BY <2>1
    <3> QED BY <2>1, <3>1 DEF Fresh
  <2>2. CASE req'[h] = req[h]
    <3> PICK q \in Requests : q = req[h]
      BY DEF RequestsGrounded, Tasks
    <3>1. Grounded(q) /\ Fresh(q)
      BY DEF RequestsGrounded, SerialInv, RequestsFresh, Tasks
    <3>2. Fresh(q)'
      BY <3>1, FreshStays DEF Unseen
    <3>3. req'[h] = q
      BY <2>2
    <3> QED BY <3>2, <3>3 DEF Fresh
  <2> QED BY <1>4, <2>1, <2>2
<1> QED BY <1>1, <1>2, <1>3, <1>5, <1>6, UnseenStutters DEF SerialInv, RequestsFresh

-----------------------------------------------------------------------------
(* Steps the board does not see.                                           *)

\* The assignments in S end as s: their riders have them no longer.
LEMMA EndsRuns ==
    ASSUME IInv, NEW S \in SUBSET Assignments, NEW s \in TERMINAL_ASSIGNMENT_STATUSES,
           \A a \in S : Made(a), Ends(S, s)
    PROVE  \A a \in Assignments :
             /\ Accepted(a)' <=> Accepted(a) /\ a \notin S
             /\ assignments'[a].order = assignments[a].order
             /\ assignments'[a].driver = assignments[a].driver
<1>1. ASSUME NEW a \in S
      PROVE  /\ [assignments[a] EXCEPT !.status = s].order = assignments[a].order
             /\ [assignments[a] EXCEPT !.status = s].driver = assignments[a].driver
             /\ [assignments[a] EXCEPT !.status = s].status = s
  <2>1. assignments[a] \in AssignmentRows
    BY MadeRows DEF IInv
  <2> QED BY <2>1 DEF AssignmentRows
<1>2. s # "ACCEPTED"
  BY DEF TERMINAL_ASSIGNMENT_STATUSES
<1> QED BY <1>1, <1>2 DEF Ends, Accepted

LEMMA FreedTallies ==
    ASSUME IInv, NEW S, FreeDrivers(S)
    PROVE  \A r \in Riders : drivers'[r].totalDeliveries = drivers[r].totalDeliveries
BY DEF FreeDrivers, IInv, DispatchTypeOK

\* Steps that write no assignment.
LEMMA RowsStayUnseen ==
    ASSUME UNCHANGED <<orders, assignments, delivered>>,
           \A r \in Riders : drivers'[r].totalDeliveries = drivers[r].totalDeliveries,
           events' \subseteq events
    PROVE  Unseen
BY DEF Unseen, RunsStay, Accepted

LEMMA RequestsBeginSerially ==
    ASSUME IInv, SerialInv, NEW h \in Handlers, Request(h)
    PROVE  SerialInv' /\ UNCHANGED Board!vars
<1> h \in Tasks /\ h # Sweep /\ RequestsGrounded /\ DispatchTypeOK
  BY SweepAssumption DEF Tasks, IInv
<1>1. ASSUME UNCHANGED <<rows, events>>, NEW r, Continue(h, r), Fresh(r)'
      PROVE  SerialInv' /\ UNCHANGED Board!vars
  <2>1. Unseen
    BY <1>1, RowsStayUnseen DEF rows
  <2> QED BY <1>1, <2>1, UnseenKeeps
<1>2. ASSUME NEW o \in Orders, NEW r \in Riders \cup {NULL}, AssignOrder(h, o, r)
      PROVE  SerialInv' /\ UNCHANGED Board!vars
  <2>1. Fresh([kind |-> "assign", order |-> o, named |-> r])'
    BY DEF Fresh
  <2> QED BY <1>1, <1>2, <2>1 DEF AssignOrder
<1>3. ASSUME NEW o \in Orders, NEW to \in OrderStatuses, NEW as \in CallerTypes,
             Advance(h, o, to, as)
      PROVE  SerialInv' /\ UNCHANGED Board!vars
  <2>1. MayMove(as, orders'[o].status, to) /\ UNCHANGED <<rows, events>>
    BY <1>3 DEF Advance, StartMove, rows
  <2>2. Fresh([kind |-> "move", order |-> o, to |-> to, as |-> as,
               then |-> "done", run |-> NULL])'
    BY <2>1 DEF Fresh
  <2> QED BY <1>1, <1>3, <2>1, <2>2 DEF Advance, StartMove
<1>4. ASSUME NEW a \in Assignments, NEW answer \in {"accept", "reject"}, Answer(h, a, answer)
      PROVE  SerialInv' /\ UNCHANGED Board!vars
  <2>1. ~ Accepted(a)' /\ UNCHANGED <<rows, events>>
    BY <1>4 DEF Answer, Answerable, Accepted, rows
  <2>2. Fresh([kind |-> answer, run |-> a])'
    BY <2>1 DEF Fresh
  <2> QED BY <1>1, <1>4, <2>1, <2>2 DEF Answer
<1>5. ASSUME NEW a \in Assignments, CancelAssignment(h, a)
      PROVE  SerialInv' /\ UNCHANGED Board!vars
  <2>1. UNCHANGED <<rows, events>> /\ Live(a)
    BY <1>5 DEF CancelAssignment
  <2>2. \A b \in Assignments :
            Accepted(b) /\ assignments[b].order = assignments[a].order => b = a
    BY <2>1 DEF IInv, IndexesHold, Live, LIVE_STATUSES, Accepted
  <2>3. Fresh([kind |-> "withdraw", run |-> a])'
    BY <2>1, <2>2 DEF Fresh, Accepted, rows
  <2> QED BY <1>1, <1>5, <2>1, <2>3 DEF CancelAssignment
<1>6. ASSUME NEW a \in Assignments,
             PickupOrder(h, a) \/ StartDelivery(h, a) \/ ConfirmDelivery(h, a)
      PROVE  SerialInv' /\ UNCHANGED Board!vars
  <2> PICK to, then :
        StartRide(h, a, to, then) /\ (then = "complete" => Accepted(a))
    BY <1>6 DEF PickupOrder, StartDelivery, ConfirmDelivery, Accepted
  <2>1. UNCHANGED <<rows, events>>
    BY DEF StartRide
  <2>2. Fresh([kind |-> "ride", run |-> a, to |-> to, then |-> then])'
    BY <2>1 DEF Fresh, Accepted, rows
  <2> QED BY <1>1, <2>1, <2>2 DEF StartRide
<1>7. ASSUME NEW r \in Riders, NEW to \in SELF_SERVICE_AVAILABILITY, SetAvailability(h, r, to)
      PROVE  SerialInv' /\ UNCHANGED Board!vars
  <2>1. Fresh([kind |-> "switch", driver |-> r, to |-> to])'
    BY DEF Fresh
  <2> QED BY <1>1, <1>7, <2>1 DEF SetAvailability
<1>8. ASSUME NEW r \in Riders, SuspendRider(h, r) \/ ReinstateRider(h, r)
      PROVE  SerialInv' /\ UNCHANGED Board!vars
  <2> PICK to : /\ Continue(h, [kind |-> "status", driver |-> r, to |-> to])
                /\ UNCHANGED <<rows, events>>
    BY <1>8 DEF SuspendRider, ReinstateRider
  <2>1. Fresh([kind |-> "status", driver |-> r, to |-> to])'
    BY DEF Fresh
  <2> QED BY <1>1, <2>1
<1> QED BY <1>2, <1>3, <1>4, <1>5, <1>6, <1>7, <1>8, Zenon DEF Request

LEMMA ListenersStartSerially ==
    ASSUME IInv, SerialInv, NEW h \in Handlers, Listen(h)
    PROVE  SerialInv' /\ UNCHANGED Board!vars
<1> h \in Tasks /\ h # Sweep /\ RequestsGrounded
  BY SweepAssumption DEF Tasks, IInv
<1>1. PICK o \in Orders : OnOrderConfirmed(h, o) \/ OnOrderClosed(h, o)
  BY DEF Listen
<1>2. UNCHANGED rows /\ events' \subseteq events
  BY <1>1 DEF OnOrderConfirmed, OnOrderClosed
<1>3. Unseen
  BY <1>2, RowsStayUnseen DEF rows
<1>4. CASE OnOrderConfirmed(h, o)
  <2>1. Fresh([kind |-> "assign", order |-> o, named |-> NULL])'
    BY DEF Fresh
  <2> QED BY <1>3, <1>4, <2>1, UnseenKeeps DEF OnOrderConfirmed
<1>5. CASE OnOrderClosed(h, o)
  <2> PICK q : q = [kind |-> "release", runs |-> LiveFor(o)]
    OBVIOUS
  <2>1. Closed(o)
    BY <1>5 DEF OnOrderClosed, SerialInv, OrdersStayClosed
  <2>2. Closed(o)' /\ UNCHANGED assignments
    BY <1>2, <2>1 DEF Closed, rows
  <2>3. Fresh(q)'
    BY <2>2 DEF Fresh, LiveFor
  <2>4. Continue(h, q)
    BY <1>5 DEF OnOrderClosed
  <2> QED BY <1>3, <2>3, <2>4, UnseenKeeps
<1> QED BY <1>1, <1>4, <1>5

\* What either a request or the sweep may do next, when nothing is taken or
\* given back.
LEMMA TasksThinkSerially ==
    ASSUME IInv, SerialInv, NEW t \in Tasks,
           ChooseRider(t) \/ InsertOffer(t) \/ RefuseOffer(t)
    PROVE  SerialInv' /\ UNCHANGED Board!vars
<1> RequestsGrounded /\ DispatchTypeOK
  BY DEF IInv
<1>1. CASE ChooseRider(t)
  <2>1. Unseen
    BY <1>1, RowsStayUnseen DEF ChooseRider, rows
  <2>2. \/ Finish(t)
        \/ \E r : Continue(t, [kind |-> "offer", order |-> req[t].order, driver |-> r,
                               named |-> req[t].named])
    BY <1>1, Zenon DEF ChooseRider
  <2>3. \/ Continue(t, Idle)
        \/ \E q : Continue(t, q) /\ q.kind = "offer"
    <3>1. \A r : [kind |-> "offer", order |-> req[t].order, driver |-> r,
                 named |-> req[t].named].kind = "offer"
      OBVIOUS
    <3> QED BY <2>2, <3>1 DEF Finish
  <2>4. PICK q : Continue(t, q) /\ (q = Idle \/ q.kind = "offer")
    BY <2>3
  <2>5. Fresh(q)' /\ q.kind \in {"idle", "offer"}
    BY <2>4 DEF Fresh, Idle
  <2> QED BY <2>1, <2>4, <2>5, UnseenKeeps
<1>2. CASE RefuseOffer(t)
  <2>1. Unseen
    BY <1>2, RowsStayUnseen DEF RefuseOffer, rows
  <2> QED BY <1>2, <2>1, IdleFresh, UnseenKeeps DEF RefuseOffer, Finish, Idle
<1>3. CASE InsertOffer(t)
  <2>1. PICK a, row :
            /\ a \in Assignments /\ ~ Made(a) /\ row.status = "OFFERED"
            /\ assignments' = [assignments EXCEPT ![a] = row]
    BY <1>3 DEF InsertOffer, Made
  <2>2. RunsStay
    BY <2>1, AcceptedIsMade DEF RunsStay, DispatchTypeOK, Accepted
  <2>3. Unseen
    BY <1>3, <2>2 DEF InsertOffer, Unseen
  <2> QED BY <1>3, <2>3, IdleFresh, UnseenKeeps DEF InsertOffer, Finish, Idle
<1> QED BY <1>1, <1>2, <1>3

LEMMA RequestsThinkSerially ==
    ASSUME IInv, SerialInv, NEW h \in Handlers,
           RefuseAccept(h) \/ Ride(h) \/ Reject(h) \/ StoreOtp(h) \/ Switch(h) \/ SetStatus(h)
    PROVE  SerialInv' /\ UNCHANGED Board!vars
<1> RequestsGrounded /\ DispatchTypeOK /\ h \in Tasks /\ h # Sweep /\ Fresh(req[h])
  BY SweepAssumption DEF IInv, SerialInv, RequestsFresh, Tasks
<1>1. ASSUME Unseen, Finish(h) PROVE SerialInv' /\ UNCHANGED Board!vars
  BY <1>1, IdleFresh, UnseenKeeps DEF Finish
<1>2. CASE RefuseAccept(h)
  <2>1. Unseen
    BY <1>2, RowsStayUnseen DEF RefuseAccept, rows
  <2> QED BY <1>1, <1>2, <2>1 DEF RefuseAccept
<1>3. CASE Ride(h)
  <2>1. UNCHANGED <<rows, events>>
    BY <1>3 DEF Ride
  <2>2. Unseen
    BY <2>1, RowsStayUnseen DEF rows
  <2>3. ASSUME NEW o, NEW a, a = req[h].run,
               StartMove(h, o, req[h].to, "DRIVER", req[h].then, a)
        PROVE  SerialInv' /\ UNCHANGED Board!vars
    <3> PICK q : q = [kind |-> "move", order |-> o, to |-> req[h].to, as |-> "DRIVER",
                      then |-> req[h].then, run |-> a]
      OBVIOUS
    <3>1. MayMove("DRIVER", orders'[o].status, req[h].to)
      BY <2>1, <2>3 DEF StartMove, rows
    <3>2. req[h].then = "complete" => Accepted(a)'
      BY <1>3, <2>1, <2>3 DEF Ride, Fresh, Accepted, rows
    <3>3. Fresh(q)'
      BY <3>1, <3>2 DEF Fresh
    <3>4. Continue(h, q)
      BY <2>3 DEF StartMove
    <3> QED BY <2>2, <3>3, <3>4, UnseenKeeps
  <2> QED BY <1>1, <1>3, <2>2, <2>3 DEF Ride
<1>4. CASE Reject(h)
  <2> PICK a \in Assignments : a = req[h].run /\ Made(a)
    BY <1>4, RequestKinds DEF Reject, RunKinds
  <2>1. ~ Accepted(a)
    BY <1>4 DEF Reject, Fresh
  <2>2. Ends({a}, "REJECTED")
    BY <1>4, EndsOne DEF Reject
  <2>3. RunsStay
    BY <2>1, <2>2, EndsRuns DEF RunsStay, TERMINAL_ASSIGNMENT_STATUSES
  <2>4. Unseen
    BY <1>4, <2>3 DEF Reject, Unseen
  <2> QED BY <1>1, <1>4, <2>4 DEF Reject
<1>5. CASE StoreOtp(h)
  <2> PICK a \in Assignments : a = req[h].run /\ Made(a)
    BY <1>5, RequestKinds DEF StoreOtp, RunKinds
  <2> DEFINE d == [assignments[a] EXCEPT !.coded = TRUE]
  <2>1. assignments' = [assignments EXCEPT ![a] = d]
    BY <1>5 DEF StoreOtp
  <2>2. /\ d.order = assignments[a].order
        /\ d.driver = assignments[a].driver
        /\ d.status = assignments[a].status
    BY MadeRows DEF AssignmentRows
  <2> HIDE DEF d
  <2>3. RunsStay
    BY <2>1, <2>2 DEF RunsStay, DispatchTypeOK, Accepted
  <2>4. Unseen
    BY <1>5, <2>3 DEF StoreOtp, Unseen
  <2> QED BY <1>1, <1>5, <2>4 DEF StoreOtp
<1>6. CASE Switch(h)
  <2>1. \A r \in Riders : drivers'[r].totalDeliveries = drivers[r].totalDeliveries
    BY <1>6 DEF Switch, DispatchTypeOK
  <2>2. Unseen
    BY <1>6, <2>1, RowsStayUnseen DEF Switch
  <2> QED BY <1>1, <1>6, <2>2 DEF Switch
<1>7. CASE SetStatus(h)
  <2>1. \A r \in Riders : drivers'[r].totalDeliveries = drivers[r].totalDeliveries
    BY <1>7 DEF SetStatus, DispatchTypeOK
  <2>2. Unseen
    BY <1>7, <2>1, RowsStayUnseen DEF SetStatus
  <2> QED BY <1>1, <1>7, <2>2 DEF SetStatus
<1> QED BY <1>2, <1>3, <1>4, <1>5, <1>6, <1>7

\* The sweep's own steps, the clock's, and a dispatcher's expiry by hand.
LEMMA SweepStepsSerially ==
    ASSUME IInv, SerialInv,
           SweepExpires \/ ExpireByHand \/ SweepFinds \/ SweepOffers
             \/ \E a \in Assignments : Lapse(a)
    PROVE  SerialInv' /\ UNCHANGED Board!vars
<1> RequestsGrounded /\ DispatchTypeOK /\ Sweep \in Tasks /\ Sweep \notin Handlers
  BY SweepAssumption DEF IInv, Tasks
<1>1. ASSUME Unseen, UNCHANGED req PROVE SerialInv' /\ UNCHANGED Board!vars
  <2>1. Idle.kind \in {"idle", "assign", "offer"}
    BY DEF Idle
  <2> QED BY <1>1, <2>1, UnseenKeeps
<1>2. CASE SweepExpires \/ ExpireByHand
  <2> DEFINE S == {a \in lapsed : assignments[a].status = "OFFERED"}
  <2>1. S \in SUBSET Assignments /\ \A a \in S : Made(a) /\ ~ Accepted(a)
    BY DEF DispatchTypeOK, Made, NoAssignment, Accepted
  <2>2. Ends(S, "EXPIRED")
    BY <1>2 DEF SweepExpires, ExpireByHand, ExpireOffers, Ends
  <2>3. "EXPIRED" \in TERMINAL_ASSIGNMENT_STATUSES
    BY DEF TERMINAL_ASSIGNMENT_STATUSES
  <2> HIDE DEF S
  <2>4. RunsStay
    BY <2>1, <2>2, <2>3, EndsRuns DEF RunsStay
  <2>5. Unseen /\ UNCHANGED req
    BY <1>2, <2>4 DEF SweepExpires, ExpireByHand, memory, Unseen
  <2> QED BY <1>1, <2>5
<1>3. CASE SweepFinds
  <2>1. Unseen /\ UNCHANGED req
    BY <1>3, RowsStayUnseen DEF SweepFinds, rows
  <2> QED BY <1>1, <2>1
<1>4. CASE SweepOffers
  <2>1. Unseen
    BY <1>4, RowsStayUnseen DEF SweepOffers, rows
  <2>2. CASE UNCHANGED req
    BY <1>1, <2>1, <2>2
  <2>3. ASSUME NEW o, Continue(Sweep, [kind |-> "assign", order |-> o, named |-> NULL])
        PROVE  SerialInv' /\ UNCHANGED Board!vars
    BY <2>1, <2>3, UnseenKeeps
  <2> QED BY <1>4, <2>2, <2>3 DEF SweepOffers
<1>5. CASE \E a \in Assignments : Lapse(a)
  <2>1. UNCHANGED <<orders, assignments, drivers, delivered, memory>>
    BY <1>5 DEF Lapse
  <2>2. Unseen /\ UNCHANGED req
    BY <2>1, RowsStayUnseen DEF memory
  <2> QED BY <1>1, <2>2
<1> QED BY <1>2, <1>3, <1>4, <1>5

\* A crash forgets requests, never what they have written.
LEMMA CrashKeepsSerial ==
    ASSUME IInv, SerialInv, Crash
    PROVE  SerialInv' /\ UNCHANGED Board!vars
<1>1. Unseen
  BY RowsStayUnseen DEF Crash, rows
<1>2. OrderKnowsItsRider' /\ NamesHaveReasons'
  BY DEF SerialInv, Crash, rows, OrderKnowsItsRider, NamesHaveReasons, Accepted, Closed
<1>3. OrdersStayClosed'
  BY DEF SerialInv, Crash, rows, OrdersStayClosed, Closed
<1>4. \A t \in Tasks : req'[t] = Idle
  BY DEF Crash
<1>5. RequestsFresh'
  BY <1>4 DEF RequestsFresh, Fresh, Idle, Tasks
<1> QED BY <1>1, <1>2, <1>3, <1>5, UnseenStutters DEF SerialInv

-----------------------------------------------------------------------------
(* Steps the board sees.                                                   *)

LEMMA HandlerGoesOn ==
    ASSUME OneAtATime, RequestsGrounded, SerialInv, NEW h \in Handlers, NEW r,
           Continue(h, r), Fresh(r)'
    PROVE  RequestsFresh'
<1>1. req'[h] = r /\ req'[Sweep] = req[Sweep]
  BY SweepAssumption DEF Continue, RequestsGrounded, Tasks
<1>2. \A g \in Handlers : g = h
  BY DEF OneAtATime
<1> QED BY <1>1, <1>2 DEF RequestsFresh, SerialInv, Fresh

\* The order o comes to show x.
LEMMA NamesChange ==
    ASSUME DispatchTypeOK, NEW o \in Orders, NEW x \in Riders \cup {NULL},
           orders' = [orders EXCEPT ![o].driver = x]
    PROVE  /\ [p \in Orders |-> orders[p].driver]'
                = [[p \in Orders |-> orders[p].driver] EXCEPT ![o] = x]
           /\ {p \in Orders : orders[p].status \in TERMINAL_STATUSES}'
                = {p \in Orders : orders[p].status \in TERMINAL_STATUSES}
           /\ \A p \in Orders : /\ Closed(p)' <=> Closed(p)
                                /\ orders'[p].driver = IF p = o THEN x ELSE orders[p].driver
<1>1. \A p \in Orders : /\ orders'[p].status = orders[p].status
                        /\ orders'[p].driver = IF p = o THEN x ELSE orders[p].driver
  BY DEF DispatchTypeOK
<1> QED BY <1>1 DEF Closed

LEMMA AcceptedRows ==
    ASSUME IInv, NEW t \in Tasks, Accept(t), NEW a, a = req[t].run
    PROVE  \A b \in Assignments :
             /\ Accepted(b)' <=> b = a \/ Accepted(b)
             /\ assignments'[b].order = assignments[b].order
             /\ assignments'[b].driver = assignments[b].driver
<1> DispatchTypeOK /\ RequestsGrounded
  BY DEF IInv
<1>1. a \in Assignments /\ Made(a)
  BY RequestKinds DEF Accept, RunKinds
<1>2. ASSUME NEW b \in Assignments, Made(b), NEW s
      PROVE  LET d == [assignments[b] EXCEPT !.status = s] IN
             /\ d.order = assignments[b].order
             /\ d.driver = assignments[b].driver
             /\ d.status = s
  BY <1>2, MadeRows DEF AssignmentRows
<1>3. ASSUME NEW b \in Assignments
      PROVE  /\ Accepted(b)' <=> b = a \/ Accepted(b)
             /\ assignments'[b].order = assignments[b].order
             /\ assignments'[b].driver = assignments[b].driver
  <2>1. CASE b = a
    <3>1. assignments'[b] = [assignments[b] EXCEPT !.status = "ACCEPTED"]
      BY <1>1, <2>1 DEF Accept
    <3> QED BY <1>1, <1>2, <2>1, <3>1 DEF Accepted
  <2>2. CASE /\ b # a /\ assignments[b].order = assignments[a].order
             /\ assignments[b].status = "OFFERED"
    <3>1. assignments'[b] = [assignments[b] EXCEPT !.status = "CANCELLED"]
      BY <2>2 DEF Accept
    <3>2. Made(b)
      BY <2>2, MadeRows DEF Live, LIVE_STATUSES
    <3> QED BY <1>2, <2>2, <3>1, <3>2 DEF Accepted
  <2>3. CASE b # a /\ ~ (/\ assignments[b].order = assignments[a].order
                         /\ assignments[b].status = "OFFERED")
    <3>1. assignments'[b] = assignments[b]
      BY <2>3 DEF Accept
    <3> QED BY <2>3, <3>1 DEF Accepted
  <2> QED BY <2>1, <2>2, <2>3
<1> QED BY <1>3

LEMMA AcceptTakes ==
    ASSUME OneAtATime, IInv, IInv', SerialInv, NEW h \in Handlers, Accept(h)
    PROVE  SerialInv' /\ Board!Next
<1> DispatchTypeOK /\ RequestsGrounded /\ IndexesHold /\ IndexesHold' /\ h \in Tasks
  BY DEF IInv, Tasks
<1>1. PICK a \in Assignments : a = req[h].run /\ Made(a)
  BY RequestKinds DEF Accept, RunKinds
<1>2. PICK o \in Orders, r \in Riders : o = assignments[a].order /\ r = assignments[a].driver
  BY <1>1, MadeRows DEF AssignmentRows
<1>3. /\ Answerable(a) /\ Carried(r) = {}
      /\ orders' = [orders EXCEPT ![o].driver = r]
      /\ drivers' = [drivers EXCEPT ![r].availability = "ON_DELIVERY"]
      /\ UNCHANGED <<lapsed, delivered, events, sweep>> /\ Continue(h, Idle)
  BY <1>1, <1>2 DEF Accept, CanTake, Finish
<1>4. \A b \in Assignments :
        /\ Accepted(b)' <=> b = a \/ Accepted(b)
        /\ assignments'[b].order = assignments[b].order
        /\ assignments'[b].driver = assignments[b].driver
  BY <1>1, AcceptedRows
<1>5. \A b \in Assignments : ~ (Accepted(b) /\ assignments[b].order = o)
  BY <1>2, <1>3 DEF IndexesHold, Live, LIVE_STATUSES, Answerable, Accepted
<1>6. \A b \in Assignments : ~ (Accepted(b) /\ assignments[b].driver = r)
  BY <1>3 DEF Carried, Accepted
<1>7. Holder(o) = NULL /\ Holder(o)' = r
  <2>1. Holder(o) = NULL
    BY <1>5, HolderIs
  <2>2. Accepted(a)' /\ assignments'[a].order = o /\ assignments'[a].driver = r
    BY <1>2, <1>4
  <2> QED BY <2>1, <2>2, HolderIs
<1>8. \A p \in Orders : Holder(p) # r
  <2> TAKE p \in Orders
  <2>1. CASE \E b \in Assignments : Accepted(b) /\ assignments[b].order = p
    BY <1>6, <2>1, HolderIs
  <2>2. CASE ~ \E b \in Assignments : Accepted(b) /\ assignments[b].order = p
    BY <2>2, HolderIs, NobodyAssumption
  <2> QED BY <2>1, <2>2
<1>9. \A p \in Orders : p # o => Holder(p)' = Holder(p)
  BY <1>2, <1>4, HolderStays
<1>10. [p \in Orders |-> Holder(p)]' = [[p \in Orders |-> Holder(p)] EXCEPT ![o] = r]
  BY <1>7, <1>9
<1>11. [s \in Riders |-> drivers[s].totalDeliveries]'
         = [s \in Riders |-> drivers[s].totalDeliveries]
  BY <1>3 DEF DispatchTypeOK
<1>12. /\ [p \in Orders |-> orders[p].driver]'
            = [[p \in Orders |-> orders[p].driver] EXCEPT ![o] = r]
       /\ {p \in Orders : orders[p].status \in TERMINAL_STATUSES}'
            = {p \in Orders : orders[p].status \in TERMINAL_STATUSES}
       /\ \A p \in Orders : /\ Closed(p)' <=> Closed(p)
                            /\ orders'[p].driver = IF p = o THEN r ELSE orders[p].driver
  BY <1>3, NamesChange
<1>13. /\ [p \in Orders |-> Holder(p)][o] = NULL
       /\ \A p \in Orders : [q \in Orders |-> Holder(q)][p] # r
  BY <1>7, <1>8
<1>14. Board!Take(o, r)
  BY <1>3, <1>10, <1>11, <1>12, <1>13 DEF Board!Take
<1>15. OrderKnowsItsRider'
  <2> SUFFICES ASSUME NEW b \in Assignments, Accepted(b)'
               PROVE  orders'[assignments'[b].order].driver = assignments'[b].driver
    BY DEF OrderKnowsItsRider, Accepted
  <2>1. CASE b = a
    BY <1>2, <1>4, <1>12, <2>1
  <2>2. CASE b # a
    <3>1. Accepted(b) /\ assignments[b].order # o /\ assignments[b].order \in Orders
      BY <1>4, <1>5, <2>2, AcceptedIsMade, MadeRows DEF AssignmentRows
    <3>2. orders[assignments[b].order].driver = assignments[b].driver
      BY <3>1 DEF SerialInv, OrderKnowsItsRider, Accepted
    <3> QED BY <1>4, <1>12, <3>1, <3>2
  <2> QED BY <2>1, <2>2
<1>16. NamesHaveReasons'
  BY <1>2, <1>4, <1>12 DEF SerialInv, NamesHaveReasons
<1>17. OrdersStayClosed'
  BY <1>3, <1>12 DEF SerialInv, OrdersStayClosed, DispatchTypeOK
<1>18. RequestsFresh'
  BY <1>3, HandlerGoesOn, IdleFresh
<1> QED BY <1>14, <1>15, <1>16, <1>17, <1>18 DEF SerialInv, Board!Next

\* A run that ends, of an order that shows x from then on.
LEMMA RunEnds ==
    ASSUME IInv, IInv', SerialInv, NEW a \in Assignments, NEW o \in Orders,
           Accepted(a), o = assignments[a].order,
           \A b \in Assignments :
               /\ Accepted(b)' <=> Accepted(b) /\ b # a
               /\ assignments'[b].order = assignments[b].order
               /\ assignments'[b].driver = assignments[b].driver,
           \A p \in Orders : p # o => orders'[p].driver = orders[p].driver
    PROVE  /\ [p \in Orders |-> Holder(p)][o] = assignments[a].driver
           /\ assignments[a].driver # NULL
           /\ [p \in Orders |-> Holder(p)]' = [[p \in Orders |-> Holder(p)] EXCEPT ![o] = NULL]
           /\ OrderKnowsItsRider'
<1> DispatchTypeOK /\ IndexesHold /\ IndexesHold'
  BY DEF IInv
<1>1. \A b \in Assignments : Accepted(b) /\ assignments[b].order = o => b = a
  BY DEF IndexesHold, Live, LIVE_STATUSES, Accepted
<1>2. Holder(o) = assignments[a].driver
  BY HolderIs
<1>3. Holder(o)' = NULL
  BY <1>1, HolderIs
<1>4. \A p \in Orders : p # o => Holder(p)' = Holder(p)
  BY HolderStays
<1>5. assignments[a].driver # NULL
  BY AcceptedIsMade, MadeRows, NobodyAssumption DEF AssignmentRows
<1>6. OrderKnowsItsRider'
  <2> SUFFICES ASSUME NEW b \in Assignments, Accepted(b)'
               PROVE  orders'[assignments'[b].order].driver = assignments'[b].driver
    BY DEF OrderKnowsItsRider, Accepted
  <2>1. Accepted(b) /\ assignments[b].order # o /\ assignments[b].order \in Orders
    BY <1>1, AcceptedIsMade, MadeRows DEF AssignmentRows
  <2>2. orders[assignments[b].order].driver = assignments[b].driver
    BY <2>1 DEF SerialInv, OrderKnowsItsRider, Accepted
  <2> QED BY <2>1, <2>2
<1> QED BY <1>2, <1>3, <1>4, <1>5, <1>6

LEMMA CompleteCounts ==
    ASSUME OneAtATime, IInv, IInv', SerialInv, NEW h \in Handlers, Complete(h)
    PROVE  SerialInv' /\ Board!Next
<1> DispatchTypeOK /\ RequestsGrounded /\ h \in Tasks
  BY DEF IInv, Tasks
<1>1. PICK a \in Assignments : a = req[h].run /\ Made(a)
  BY RequestKinds DEF Complete, RunKinds
<1>2. PICK o \in Orders, r \in Riders : o = assignments[a].order /\ r = assignments[a].driver
  BY <1>1, MadeRows DEF AssignmentRows
<1>3. Accepted(a) /\ o \in delivered
  BY <1>1, <1>2 DEF Complete, SerialInv, RequestsFresh, Fresh, RequestsGrounded, Grounded
<1>4. /\ UNCHANGED <<orders, delivered, events>> /\ Continue(h, Idle)
      /\ Ends({a}, "COMPLETED")
  BY <1>1, EndsOne DEF Complete, Finish
<1>5. \A b \in Assignments :
        /\ Accepted(b)' <=> Accepted(b) /\ b # a
        /\ assignments'[b].order = assignments[b].order
        /\ assignments'[b].driver = assignments[b].driver
  BY <1>1, <1>4, EndsRuns DEF TERMINAL_ASSIGNMENT_STATUSES
<1>6. /\ [p \in Orders |-> Holder(p)][o] = r /\ r # NULL
      /\ [p \in Orders |-> Holder(p)]' = [[p \in Orders |-> Holder(p)] EXCEPT ![o] = NULL]
      /\ OrderKnowsItsRider'
  BY <1>2, <1>3, <1>4, <1>5, RunEnds
<1>7. [s \in Riders |-> drivers[s].totalDeliveries]'
        = [[s \in Riders |-> drivers[s].totalDeliveries] EXCEPT ![r] = @ + 1]
  <2>1. drivers' = [drivers EXCEPT ![r].availability = "ONLINE",
                                   ![r].totalDeliveries = @ + 1]
    BY <1>1, <1>2 DEF Complete
  <2>2. \A s \in Riders : drivers'[s].totalDeliveries =
            IF s = r THEN drivers[s].totalDeliveries + 1 ELSE drivers[s].totalDeliveries
    BY <2>1 DEF DispatchTypeOK
  <2> QED BY <2>2
<1>8. Board!Complete(o)
  BY <1>3, <1>4, <1>6, <1>7 DEF Board!Complete
<1>9. Closed(o)
  BY <1>3 DEF SerialInv, OrdersStayClosed
<1>10. NamesHaveReasons'
  BY <1>2, <1>4, <1>5, <1>9 DEF SerialInv, NamesHaveReasons, Closed
<1>11. OrdersStayClosed'
  BY <1>4 DEF SerialInv, OrdersStayClosed, Closed
<1>12. RequestsFresh'
  BY <1>4, HandlerGoesOn, IdleFresh
<1> QED BY <1>6, <1>8, <1>10, <1>11, <1>12 DEF SerialInv, Board!Next

LEMMA DoneStays ==
    ASSUME \A r \in Riders : drivers'[r].totalDeliveries = drivers[r].totalDeliveries
    PROVE  [r \in Riders |-> drivers[r].totalDeliveries]'
                = [r \in Riders |-> drivers[r].totalDeliveries]
OBVIOUS

LEMMA ReleaseHandsBack ==
    ASSUME OneAtATime, IInv, IInv', SerialInv, NEW h \in Handlers, Release(h)
    PROVE  SerialInv' /\ [Board!Next]_(Board!vars)
<1> DispatchTypeOK /\ RequestsGrounded /\ IndexesHold /\ h \in Tasks
  BY DEF IInv, Tasks
<1>1. PICK S \in SUBSET Assignments : S = req[h].runs /\ \A a \in S : Made(a)
  BY RequestKinds DEF Release, RequestsGrounded, Grounded
<1>2. PICK o \in Orders : Closed(o) /\ \A a \in S : assignments[a].order = o
  BY <1>1 DEF Release, SerialInv, RequestsFresh, Fresh
<1>3. /\ UNCHANGED <<orders, delivered, events>> /\ Continue(h, Idle)
      /\ Ends(S, "CANCELLED")
      /\ \A r \in Riders : drivers'[r].totalDeliveries = drivers[r].totalDeliveries
  BY <1>1, FreedTallies DEF Release, Finish, Ends
<1>4. \A b \in Assignments :
        /\ Accepted(b)' <=> Accepted(b) /\ b \notin S
        /\ assignments'[b].order = assignments[b].order
        /\ assignments'[b].driver = assignments[b].driver
  BY <1>1, <1>3, EndsRuns DEF TERMINAL_ASSIGNMENT_STATUSES
<1>5. CASE \A a \in S : ~ Accepted(a)
  <2>1. Unseen
    BY <1>3, <1>4, <1>5 DEF Unseen, RunsStay
  <2> QED BY <1>3, <2>1, SweepAssumption, IdleFresh, UnseenKeeps
<1>6. ASSUME NEW a \in S, Accepted(a) PROVE SerialInv' /\ [Board!Next]_(Board!vars)
  <2>1. \A b \in Assignments : Accepted(b) /\ b \in S => b = a
    BY <1>2, <1>6 DEF IndexesHold, Live, LIVE_STATUSES, Accepted
  <2>2. \A b \in Assignments : Accepted(b)' <=> Accepted(b) /\ b # a
    BY <1>4, <1>6, <2>1
  <2>3. a \in Assignments /\ o = assignments[a].order
    BY <1>2, <1>6
  <2>4. /\ [p \in Orders |-> Holder(p)][o] # NULL
        /\ [p \in Orders |-> Holder(p)]' = [[p \in Orders |-> Holder(p)] EXCEPT ![o] = NULL]
        /\ OrderKnowsItsRider'
    BY <1>3, <1>4, <1>6, <2>2, <2>3, RunEnds
  <2>5. Board!HandBack(o)
    BY <1>2, <1>3, <2>4, DoneStays DEF Board!HandBack, Closed
  <2>6. NamesHaveReasons'
    BY <1>2, <1>3, <1>4, <2>2, <2>3 DEF SerialInv, NamesHaveReasons, Closed
  <2>7. OrdersStayClosed'
    BY <1>3 DEF SerialInv, OrdersStayClosed, Closed
  <2>8. RequestsFresh'
    BY <1>3, HandlerGoesOn, IdleFresh
  <2> QED BY <2>4, <2>5, <2>6, <2>7, <2>8 DEF SerialInv, Board!Next
<1> QED BY <1>5, <1>6

LEMMA WithdrawHandsBack ==
    ASSUME OneAtATime, IInv, IInv', SerialInv, NEW h \in Handlers, Withdraw(h)
    PROVE  SerialInv' /\ [Board!Next]_(Board!vars)
<1> DispatchTypeOK /\ RequestsGrounded /\ h \in Tasks
  BY DEF IInv, Tasks
<1>1. PICK a \in Assignments : a = req[h].run /\ Made(a)
  BY RequestKinds DEF Withdraw, RunKinds
<1>2. PICK o \in Orders, r \in Riders : o = assignments[a].order /\ r = assignments[a].driver
  BY <1>1, MadeRows DEF AssignmentRows
<1>3. PICK x \in Riders \cup {NULL} :
               /\ x = IF orders[o].driver = r THEN NULL ELSE orders[o].driver
               /\ orders' = [orders EXCEPT ![o].driver = x]
  BY <1>1, <1>2 DEF Withdraw, BackOnBoard, DispatchTypeOK
<1>4. /\ UNCHANGED <<delivered, events>> /\ Continue(h, Idle)
      /\ Ends({a}, "CANCELLED")
      /\ \A s \in Riders : drivers'[s].totalDeliveries = drivers[s].totalDeliveries
  BY <1>1, <1>2, EndsOne, FreedTallies DEF Withdraw, Finish
<1>5. \A b \in Assignments :
        /\ Accepted(b)' <=> Accepted(b) /\ b # a
        /\ assignments'[b].order = assignments[b].order
        /\ assignments'[b].driver = assignments[b].driver
  BY <1>1, <1>4, EndsRuns DEF TERMINAL_ASSIGNMENT_STATUSES
<1>6. /\ [p \in Orders |-> orders[p].driver]'
            = [[p \in Orders |-> orders[p].driver] EXCEPT ![o] = x]
      /\ {p \in Orders : orders[p].status \in TERMINAL_STATUSES}'
            = {p \in Orders : orders[p].status \in TERMINAL_STATUSES}
      /\ \A p \in Orders : /\ Closed(p)' <=> Closed(p)
                           /\ orders'[p].driver = IF p = o THEN x ELSE orders[p].driver
  BY <1>3, NamesChange
<1>7. OrdersStayClosed' /\ RequestsFresh'
  <2>1. \A p \in delivered' : Closed(p)'
    BY <1>4, <1>6 DEF SerialInv, OrdersStayClosed, DispatchTypeOK
  <2>2. ASSUME NEW p \in Orders, <<"closed", p>> \in events' PROVE Closed(p)'
    <3>1. Closed(p)
      BY <1>4, <2>2 DEF SerialInv, OrdersStayClosed
    <3> QED BY <1>6, <3>1
  <2>3. OrdersStayClosed'
    BY <2>1, <2>2 DEF OrdersStayClosed
  <2>4. RequestsFresh'
    BY <1>4, HandlerGoesOn, IdleFresh
  <2> QED BY <2>3, <2>4
<1>8. CASE Accepted(a)
  <2>1. x = NULL
    BY <1>2, <1>3, <1>8 DEF SerialInv, OrderKnowsItsRider, Accepted
  <2>2. /\ [p \in Orders |-> Holder(p)][o] # NULL
        /\ [p \in Orders |-> Holder(p)]' = [[p \in Orders |-> Holder(p)] EXCEPT ![o] = NULL]
        /\ OrderKnowsItsRider'
    BY <1>2, <1>5, <1>6, <1>8, RunEnds
  <2>3. Board!HandBack(o)
    BY <1>4, <1>6, <2>1, <2>2, DoneStays DEF Board!HandBack
  <2>4. NamesHaveReasons'
    BY <1>2, <1>5, <1>6, <2>1 DEF SerialInv, NamesHaveReasons
  <2> QED BY <1>7, <2>2, <2>3, <2>4 DEF SerialInv, Board!Next
<1>9. CASE ~ Accepted(a)
  <2>1. \A b \in Assignments : ~ (Accepted(b) /\ assignments[b].order = o)
    BY <1>1, <1>2, <1>9 DEF Withdraw, SerialInv, RequestsFresh, Fresh
  <2>2. RunsStay
    BY <1>5, <1>9 DEF RunsStay
  <2>3. OrderKnowsItsRider'
    <3> SUFFICES ASSUME NEW b \in Assignments, Accepted(b)'
                 PROVE  orders'[assignments'[b].order].driver = assignments'[b].driver
      BY DEF OrderKnowsItsRider, Accepted
    <3>1. Accepted(b) /\ assignments[b].order # o /\ assignments[b].order \in Orders
      BY <1>5, <2>1, AcceptedIsMade, MadeRows DEF AssignmentRows
    <3>2. orders[assignments[b].order].driver = assignments[b].driver
      BY <3>1 DEF SerialInv, OrderKnowsItsRider, Accepted
    <3> QED BY <1>5, <1>6, <3>1, <3>2
  <2>4. orders[o].driver # NULL => Closed(o)
    BY <2>1 DEF SerialInv, NamesHaveReasons
  <2>5. NamesHaveReasons'
    BY <1>3, <1>5, <1>6, <1>9, <2>4 DEF SerialInv, NamesHaveReasons
  <2>6. [p \in Orders |-> Holder(p)]' = [p \in Orders |-> Holder(p)]
    BY <2>2, HoldersStay
  <2>7. CASE x = orders[o].driver
    <3>1. [p \in Orders |-> orders[p].driver]' = [p \in Orders |-> orders[p].driver]
      BY <1>6, <2>7
    <3> QED BY <1>4, <1>6, <1>7, <2>3, <2>5, <2>6, <3>1, DoneStays DEF SerialInv, Board!vars
  <2>8. CASE x # orders[o].driver
    <3>1. x = NULL /\ Closed(o)
      BY <1>3, <2>4, <2>8, NobodyAssumption
    <3>2. [p \in Orders |-> Holder(p)][o] = NULL
      BY <2>1, HolderIs DEF IInv
    <3>3. Board!Forget(o)
      BY <1>4, <1>6, <2>6, <3>1, <3>2, DoneStays DEF Board!Forget, Closed
    <3> QED BY <1>7, <2>3, <2>5, <3>3 DEF SerialInv, Board!Next
  <2> QED BY <2>7, <2>8
<1> QED BY <1>8, <1>9

LEMMA CommitCloses ==
    ASSUME OneAtATime, IInv, SerialInv, NEW h \in Handlers, CommitMove(h)
    PROVE  SerialInv' /\ [Board!Next]_(Board!vars)
<1> DispatchTypeOK /\ RequestsGrounded /\ h \in Tasks
  BY DEF IInv, Tasks
<1>1. PICK m \in Requests : m = req[h]
  BY DEF RequestsGrounded
<1>2. PICK o \in Orders : o = m.order
  BY <1>1, RequestKinds DEF CommitMove
<1>3. PICK q : q = IF m.then = "done" THEN Idle ELSE [kind |-> m.then, run |-> m.run]
  OBVIOUS
<1>4. /\ m.kind = "move" /\ Grounded(m) /\ Fresh(m) /\ m.then \in AfterMove
  BY <1>1, RequestKinds DEF CommitMove, RequestsGrounded, SerialInv, RequestsFresh
<1>5. /\ UNCHANGED <<assignments, lapsed, drivers, sweep>> /\ Continue(h, q)
      /\ orders' = [orders EXCEPT ![o].status = m.to]
      /\ delivered' = IF m.to = "DELIVERED" THEN delivered \cup {o} ELSE delivered
      /\ events' = events \cup Announced(o, m.to, m.as)
  BY <1>1, <1>2, <1>3 DEF CommitMove
<1>6. \A p \in Orders : /\ orders'[p].status = IF p = o THEN m.to ELSE orders[p].status
                        /\ orders'[p].driver = orders[p].driver
  BY <1>5 DEF DispatchTypeOK
<1>7. orders[o].status \notin TERMINAL_STATUSES
  BY <1>2, <1>4, MovesAreOfOpenOrders DEF Fresh
<1>8. \A p \in Orders : Closed(p) => Closed(p)'
  BY <1>6, <1>7 DEF Closed
<1>9. OrderKnowsItsRider'
  <2> SUFFICES ASSUME NEW b \in Assignments, Accepted(b)'
               PROVE  orders'[assignments'[b].order].driver = assignments'[b].driver
    BY DEF OrderKnowsItsRider, Accepted
  <2>1. Accepted(b) /\ assignments[b].order \in Orders
    BY <1>5, AcceptedIsMade, MadeRows DEF AssignmentRows, Accepted
  <2> QED BY <1>5, <1>6, <2>1 DEF SerialInv, OrderKnowsItsRider, Accepted
<1>10. NamesHaveReasons'
  BY <1>5, <1>6, <1>8 DEF SerialInv, NamesHaveReasons, Accepted
<1>11. OrdersStayClosed'
  <2>1. m.to \in TERMINAL_STATUSES => Closed(o)'
    BY <1>6 DEF Closed
  <2>2. \A p \in delivered' : Closed(p)'
    <3>1. "DELIVERED" \in TERMINAL_STATUSES
      BY DEF TERMINAL_STATUSES
    <3> QED BY <1>5, <1>8, <2>1, <3>1 DEF SerialInv, OrdersStayClosed, DispatchTypeOK
  <2>3. ASSUME NEW p \in Orders, <<"closed", p>> \in events' PROVE Closed(p)'
    <3>1. CASE <<"closed", p>> \in events
      BY <1>8, <3>1 DEF SerialInv, OrdersStayClosed
    <3>2. CASE <<"closed", p>> \in Announced(o, m.to, m.as)
      <4>1. p = o /\ m.to \in TERMINAL_STATUSES
        BY <3>2 DEF Announced
      <4> QED BY <2>1, <4>1
    <3> QED BY <1>5, <2>3, <3>1, <3>2
  <2> QED BY <2>2, <2>3 DEF OrdersStayClosed
<1>12. Fresh(q)'
  <2>1. CASE m.then = "done"
    BY <1>3, <2>1, IdleFresh DEF Fresh, Idle
  <2>2. CASE m.then # "done"
    <3>1. q.kind = m.then /\ q.run = m.run /\ m.then \in {"code", "complete"}
      BY <1>3, <1>4, <2>2 DEF AfterMove
    <3>2. m.then = "complete" => Accepted(m.run)'
      BY <1>4, <1>5 DEF Fresh, Accepted
    <3> QED BY <3>1, <3>2 DEF Fresh
  <2> QED BY <2>1, <2>2
<1>13. RequestsFresh'
  BY <1>5, <1>12, HandlerGoesOn
<1>14. /\ [p \in Orders |-> Holder(p)]' = [p \in Orders |-> Holder(p)]
       /\ [p \in Orders |-> orders[p].driver]' = [p \in Orders |-> orders[p].driver]
       /\ [r \in Riders |-> drivers[r].totalDeliveries]'
            = [r \in Riders |-> drivers[r].totalDeliveries]
  <2>1. RunsStay
    BY <1>5 DEF RunsStay, Accepted
  <2> QED BY <1>5, <1>6, <2>1, HoldersStay
<1>15. [Board!Next]_(Board!vars)
  <2>1. CASE m.to \in TERMINAL_STATUSES
    <3>1. {p \in Orders : orders[p].status \in TERMINAL_STATUSES}'
            = {p \in Orders : orders[p].status \in TERMINAL_STATUSES} \cup {o}
      BY <1>6, <2>1
    <3>2. delivered' \in {delivered, delivered \cup {o}}
      BY <1>5
    <3>3. Board!Close(o)
      BY <1>14, <3>1, <3>2 DEF Board!Close
    <3> QED BY <3>3 DEF Board!Next
  <2>2. CASE m.to \notin TERMINAL_STATUSES
    <3>1. {p \in Orders : orders[p].status \in TERMINAL_STATUSES}'
            = {p \in Orders : orders[p].status \in TERMINAL_STATUSES}
      BY <1>6, <1>7, <2>2
    <3>2. delivered' = delivered
      BY <1>5, <2>2 DEF TERMINAL_STATUSES
    <3> QED BY <1>14, <3>1, <3>2 DEF Board!vars
  <2> QED BY <2>1, <2>2
<1> QED BY <1>9, <1>10, <1>11, <1>13, <1>15 DEF SerialInv

LEMMA SerialStep ==
    ASSUME OneAtATime, IInv, IInv', SerialInv, [Next]_vars
    PROVE  SerialInv' /\ [Board!Next]_(Board!vars)
<1>1. CASE UNCHANGED vars
  <2>1. Unseen
    BY <1>1, RowsStayUnseen DEF vars, rows, memory
  <2>2. SerialInv'
    BY <1>1 DEF vars, rows, memory, SerialInv, OrderKnowsItsRider, NamesHaveReasons,
       OrdersStayClosed, RequestsFresh, Fresh, Accepted, Closed
  <2> QED BY <2>1, <2>2, UnseenStutters
<1>2. ASSUME NEW h \in Handlers, Proceed(h)
      PROVE  SerialInv' /\ [Board!Next]_(Board!vars)
  <2>1. h \in Tasks
    BY DEF Tasks
  <2>2. CASE ChooseRider(h) \/ InsertOffer(h) \/ RefuseOffer(h)
    BY <2>1, <2>2, TasksThinkSerially
  <2>3. CASE RefuseAccept(h) \/ Ride(h) \/ Reject(h) \/ StoreOtp(h) \/ Switch(h) \/ SetStatus(h)
    BY <2>3, RequestsThinkSerially
  <2>4. CASE Accept(h) \/ Complete(h)
    BY <2>4, AcceptTakes, CompleteCounts
  <2>5. CASE Withdraw(h) \/ Release(h) \/ CommitMove(h)
    BY <2>5, WithdrawHandsBack, ReleaseHandsBack, CommitCloses
  <2> QED BY <1>2, <2>2, <2>3, <2>4, <2>5 DEF Proceed
<1>3. ASSUME NEW h \in Handlers, Listen(h) \/ Request(h)
      PROVE  SerialInv' /\ [Board!Next]_(Board!vars)
  BY <1>3, ListenersStartSerially, RequestsBeginSerially
<1>4. CASE Proceed(Sweep)
  <2>1. ChooseRider(Sweep) \/ InsertOffer(Sweep) \/ RefuseOffer(Sweep)
    BY <1>4 DEF Proceed, SerialInv, RequestsFresh, Accept, RefuseAccept, Reject, Withdraw,
       Ride, CommitMove, StoreOtp, Complete, Release, Switch, SetStatus
  <2> QED BY <2>1, TasksThinkSerially DEF Tasks
<1>5. CASE SweepExpires \/ ExpireByHand \/ SweepFinds \/ SweepOffers
             \/ \E a \in Assignments : Lapse(a)
  BY <1>5, SweepStepsSerially
<1>6. CASE Crash
  BY <1>6, CrashKeepsSerial
<1> QED BY <1>1, <1>2, <1>3, <1>4, <1>5, <1>6 DEF Next, SweepNext

LEMMA SerialStart == Init => SerialInv /\ Board!Init
<1> SUFFICES ASSUME Init PROVE SerialInv /\ Board!Init
  OBVIOUS
<1>1. /\ \A a \in Assignments : ~ Accepted(a)
      /\ \A o \in Orders : orders[o].driver = NULL /\ ~ Closed(o)
  BY EntryAssumption DEF Init, Accepted, NoAssignment, Closed, TERMINAL_STATUSES
<1>2. delivered = {} /\ events = {} /\ \A t \in Tasks : req[t] = Idle
  BY DEF Init
<1>3. SerialInv
  BY <1>1, <1>2, IdleFresh DEF SerialInv, OrderKnowsItsRider, NamesHaveReasons,
     OrdersStayClosed, RequestsFresh, Accepted, Tasks, Idle
<1>4. [o \in Orders |-> Holder(o)] = [o \in Orders |-> NULL]
  <2>1. IndexesHold
    BY StartKeeps DEF IInv
  <2> QED BY <1>1, <2>1, HolderIs
<1>5. /\ [o \in Orders |-> orders[o].driver] = [o \in Orders |-> NULL]
      /\ {o \in Orders : orders[o].status \in TERMINAL_STATUSES} = {}
      /\ [r \in Riders |-> drivers[r].totalDeliveries] = [r \in Riders |-> 0]
  BY <1>1 DEF Init, Closed
<1> QED BY <1>2, <1>3, <1>4, <1>5 DEF Board!Init

\* With one request at a time beside the sweep and the clock, wherever the
\* process dies, dispatch implements DeliveryBoard: an order that is taken was
\* nobody's and names its rider, an open order handed back is free again, and
\* a run that counts has arrived.
THEOREM BoardImplemented == ASSUME OneAtATime PROVE Spec => ImplementsBoard
<1>1. IInv /\ SerialInv /\ IInv' /\ [Next]_vars => SerialInv' /\ [Board!Next]_(Board!vars)
  BY SerialStep
<1>2. IInv /\ [Next]_vars => IInv'
  BY StepKeeps
<1> QED BY <1>1, <1>2, StartKeeps, SerialStart, PTL DEF Spec, ImplementsBoard, Board!Spec
=============================================================================
