------------------------ MODULE DispatchProperties ------------------------
(***************************************************************************)
(* What dispatch is checked against: what the partial unique indexes and   *)
(* the sweep keep true under every race and crash, and what holds one      *)
(* request at a time.                                                      *)
(***************************************************************************)
EXTENDS Dispatch

\* Every table holds rows of its type; a live row names the order and the
\* rider it was offered to.
DispatchTypeOK ==
    /\ orders \in [Orders -> [status : OrderStatuses, driver : Riders \cup {NULL}]]
    /\ assignments \in [Assignments -> AssignmentRows \cup {NoAssignment}]
    /\ lapsed \subseteq Assignments
    /\ drivers \in [Riders -> [status : {"ACTIVE", "SUSPENDED"},
                               availability : AVAILABILITIES,
                               totalDeliveries : Nat]]
    /\ delivered \subseteq Orders
    /\ events \subseteq {"confirmed", "closed"} \X Orders
    /\ crashes \in 0 .. CrashLimit

\* "Two dispatchers clicking at the same instant both pass every
\* application-level check", yet no order has two live assignments and no
\* rider has accepted two.
OneRunAtATime ==
    /\ \A o \in Orders : Cardinality(LiveFor(o)) <= 1
    /\ \A r \in Riders : Cardinality(Carried(r)) <= 1

\* A run counts as completed only for an order that was delivered, although
\* completing it is a write of its own that compares nothing.
CompletedWasDelivered ==
    \A a \in Assignments : assignments[a].status = "COMPLETED" =>
        assignments[a].order \in delivered

Holder(o) ==
    LET taken == {a \in LiveFor(o) : assignments[a].status = "ACCEPTED"}
    IN  IF taken = {} THEN NULL ELSE assignments[CHOOSE a \in taken : TRUE].driver

Board == INSTANCE DeliveryBoard WITH
    Nobody <- NULL,
    carrier <- [o \in Orders |-> Holder(o)],
    named <- [o \in Orders |-> orders[o].driver],
    closed <- {o \in Orders : orders[o].status \in TERMINAL_STATUSES},
    arrived <- delivered,
    done <- [r \in Riders |-> drivers[r].totalDeliveries]

\* With one request at a time beside the sweep, and the process dying
\* between any two steps, dispatch implements the board.
ImplementsBoard == Board!Spec

-----------------------------------------------------------------------------
(* The safety net.                                                         *)

\* o waits for a rider: nobody has it, and no offer of it can be answered.
Waiting(o) ==
    /\ CanDispatch(o)
    /\ \A a \in LiveFor(o) : ~ Answerable(a)

\* The sweep, which runs again and again, offers every order a free rider
\* could take: after a lost event, a refused or an unanswered offer alike.
NoOrderStarves ==
    \A o \in Orders, r \in Riders :
        ~ <>[](Waiting(o) /\ r \in Candidates(o) /\ RowLeft)

FairSweep == Spec /\ WF_vars(SweepNext /\ UNCHANGED crashes)

-----------------------------------------------------------------------------
(* Claims that do not hold; README tells how to reproduce them.            *)

\* "ON_DELIVERY is not settable: it is what accepting a delivery does, and
\* clears itself when the delivery ends."
CarrierIsOnDelivery ==
    \A a \in Assignments : assignments[a].status = "ACCEPTED" =>
        drivers[assignments[a].driver].availability = "ON_DELIVERY"

\* "Once an offer has been answered -- or has run out of time -- it never
\* changes again."
AnsweredOnce ==
    [][\A a \in Assignments :
        assignments[a].status \in TERMINAL_ASSIGNMENT_STATUSES =>
            assignments'[a].status = assignments[a].status]_vars

\* "A rider who has accepted an order that does not know about them is the
\* hardest kind of inconsistency to notice."
OrderKnowsItsRider ==
    \A a \in Assignments : assignments[a].status = "ACCEPTED" =>
        orders[assignments[a].order].driver = assignments[a].driver

\* Without the release of a closed order "the assignment stays ACCEPTED for
\* good and the rider stays ON_DELIVERY".  With it, once all is quiet, none
\* does.
NoStrandedRider ==
    (events = {} /\ \A t \in Tasks : req[t] = Idle) =>
        \A a \in Assignments : assignments[a].status = "ACCEPTED" =>
            orders[assignments[a].order].status \notin TERMINAL_STATUSES
===========================================================================
