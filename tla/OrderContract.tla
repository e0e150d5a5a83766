--------------------------- MODULE OrderContract ---------------------------
(***************************************************************************)
(* What orders and payments promise one request at a time: an order moves  *)
(* along the transition table and never leaves a terminal status, its      *)
(* stock is put back exactly when it ends badly before the kitchen used    *)
(* it, and no more is refunded than was paid.                              *)
(***************************************************************************)
EXTENDS Integers, OrderStatus

CONSTANTS Orders, Total

VARIABLES
    status,     \* status[o], "ABSENT" before checkout
    paid,       \* whether the money for o has been received
    returned,   \* how often the stock of o was put back
    refunded    \* how much of the money was given back

vars == <<status, paid, returned, refunded>>

Init ==
    /\ status = [o \in Orders |-> "ABSENT"]
    /\ paid = [o \in Orders |-> FALSE]
    /\ returned = [o \in Orders |-> 0]
    /\ refunded = [o \in Orders |-> 0]

CheckOut(o) ==
    /\ status[o] = "ABSENT"
    /\ \E s \in {"PENDING_PAYMENT", "PLACED"} :
        status' = [status EXCEPT ![o] = s]
    /\ UNCHANGED <<paid, returned, refunded>>

Move(o) ==
    \E to \in OrderStatuses :
        /\ AllowedMove(status[o], to)
        /\ status' = [status EXCEPT ![o] = to]
        /\ returned' = [returned EXCEPT ![o] = IF Restocks(status[o], to) THEN 1 ELSE 0]
        \* only a delivery collects money
        /\ \/ UNCHANGED paid
           \/ to = "DELIVERED" /\ paid' = [paid EXCEPT ![o] = TRUE]
        /\ UNCHANGED refunded

\* The gateway's money, or a transfer's, arrives: an order that was waiting
\* for it is placed.
Receive(o) ==
    /\ ~ paid[o] /\ status[o] # "ABSENT"
    /\ paid' = [paid EXCEPT ![o] = TRUE]
    /\ \/ UNCHANGED status
       \/ status[o] = "PENDING_PAYMENT" /\ status' = [status EXCEPT ![o] = "PLACED"]
    /\ UNCHANGED <<returned, refunded>>

GiveBack(o) ==
    /\ paid[o]
    /\ \E amount \in 1 .. Total - refunded[o] :
        refunded' = [refunded EXCEPT ![o] = @ + amount]
    /\ UNCHANGED <<status, paid, returned>>

Next == \E o \in Orders : CheckOut(o) \/ Move(o) \/ Receive(o) \/ GiveBack(o)

Spec == Init /\ [][Next]_vars
=============================================================================
