---------------------------- MODULE OrderHistory ----------------------------
(***************************************************************************)
(* What the lifecycle guarantees however many requests race: the set of    *)
(* statuses an order has ever been in starts at checkout and grows only    *)
(* along the transition table.  The weakest useful promise: it allows an   *)
(* order to have been both cancelled and delivered, never to have been     *)
(* delivered without having been cooked.                                   *)
(***************************************************************************)
EXTENDS OrderStatus

CONSTANT Orders

VARIABLE reached    \* reached[o]: every status order o has ever been in

HistoryTypeOK == reached \in [Orders -> SUBSET OrderStatuses]

Init == reached = [o \in Orders |-> {}]

CheckOut(o) ==
    /\ reached[o] = {}
    /\ \E s \in {"PENDING_PAYMENT", "PLACED"} :
        reached' = [reached EXCEPT ![o] = {s}]

Reach(o) ==
    \E from \in reached[o], to \in OrderStatuses :
        /\ AllowedMove(from, to)
        /\ reached' = [reached EXCEPT ![o] = @ \cup {to}]

Next == \E o \in Orders : CheckOut(o) \/ Reach(o)

Spec == Init /\ [][Next]_reached
=============================================================================
