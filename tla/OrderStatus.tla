---------------------------- MODULE OrderStatus ----------------------------
(***************************************************************************)
(* The order lifecycle as the platform states it: who may move an order    *)
(* from which status to which.  Constant-level only; the modules that      *)
(* change orders EXTEND it.                                                *)
(***************************************************************************)

\* Every value of the order_status enum.
OrderStatuses ==
    {"PENDING_PAYMENT", "PLACED", "CONFIRMED", "PREPARING", "READY_FOR_PICKUP",
     "PICKED_UP", "ON_THE_WAY", "DELIVERED", "CANCELLED", "REJECTED", "FAILED"}

\* SYSTEM is an automated process: a settled payment, a lapsed checkout.
ActorTypes == {"CUSTOMER", "RESTAURANT", "DRIVER", "ADMIN", "SYSTEM"}

\* The roles a signed-in caller can hold over an order.
CallerTypes == ActorTypes \ {"SYSTEM"}

\* <<from, to, the actors entitled to the move>>
ORDER_TRANSITIONS ==
    { <<"PENDING_PAYMENT", "PLACED",           {"SYSTEM", "CUSTOMER"}>>,
      <<"PENDING_PAYMENT", "CANCELLED",        {"CUSTOMER", "SYSTEM", "ADMIN"}>>,
      <<"PENDING_PAYMENT", "FAILED",           {"SYSTEM"}>>,
      <<"PLACED",          "CONFIRMED",        {"RESTAURANT", "ADMIN"}>>,
      <<"PLACED",          "REJECTED",         {"RESTAURANT", "ADMIN"}>>,
      <<"PLACED",          "CANCELLED",        {"CUSTOMER", "ADMIN", "SYSTEM"}>>,
      <<"CONFIRMED",       "PREPARING",        {"RESTAURANT", "ADMIN"}>>,
      <<"CONFIRMED",       "CANCELLED",        {"ADMIN", "RESTAURANT"}>>,
      <<"PREPARING",       "READY_FOR_PICKUP", {"RESTAURANT", "ADMIN"}>>,
      <<"PREPARING",       "CANCELLED",        {"ADMIN"}>>,
      <<"READY_FOR_PICKUP", "PICKED_UP",       {"DRIVER", "ADMIN"}>>,
      <<"READY_FOR_PICKUP", "DELIVERED",       {"RESTAURANT", "ADMIN"}>>,
      <<"READY_FOR_PICKUP", "CANCELLED",       {"ADMIN"}>>,
      <<"PICKED_UP",       "ON_THE_WAY",       {"DRIVER", "ADMIN"}>>,
      <<"PICKED_UP",       "FAILED",           {"ADMIN", "SYSTEM"}>>,
      <<"ON_THE_WAY",      "DELIVERED",        {"DRIVER", "RESTAURANT", "ADMIN"}>>,
      <<"ON_THE_WAY",      "FAILED",           {"DRIVER", "ADMIN", "SYSTEM"}>> }

KITCHEN_COMMITTED ==
    {"PREPARING", "READY_FOR_PICKUP", "PICKED_UP", "ON_THE_WAY"}

TERMINAL_STATUSES == {"DELIVERED", "CANCELLED", "REJECTED", "FAILED"}

\* Outcomes after which stock (and money) should go back.
REFUNDABLE_STATUSES == {"CANCELLED", "REJECTED", "FAILED"}

\* Statuses whose stock the kitchen has not yet used.
UNCOMMITTED_STATUSES == {"PENDING_PAYMENT", "PLACED", "CONFIRMED"}

\* The table has a row from one status to the other, whoever may use it.
AllowedMove(from, to) ==
    \E rule \in ORDER_TRANSITIONS : rule[1] = from /\ rule[2] = to

\* Faulty variant: the order's present status is not looked at.
MayMoveFromAnywhere(actor, from, to) ==
    \E rule \in ORDER_TRANSITIONS : rule[2] = to /\ actor \in rule[3]

\* assertTransition does not throw: the row exists and names the actor.
MayMove(actor, from, to) ==
    \E rule \in ORDER_TRANSITIONS :
        rule[1] = from /\ rule[2] = to /\ actor \in rule[3]

\* A customer may still cancel; withinWindow says the free-cancellation
\* minutes have not run out.  An order not yet placed has no clock running.
CustomerMayCancel(status, withinWindow) ==
    /\ status \notin TERMINAL_STATUSES \cup KITCHEN_COMMITTED
    /\ status = "PENDING_PAYMENT" \/ withinWindow

\* The stock goes back with a move that ends an order badly before the
\* kitchen used it.
Restocks(from, to) ==
    to \in REFUNDABLE_STATUSES /\ from \in UNCOMMITTED_STATUSES
=============================================================================
