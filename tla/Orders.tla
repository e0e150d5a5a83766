------------------------------- MODULE Orders -------------------------------
(***************************************************************************)
(* The orders module: placing an order, moving it through its lifecycle    *)
(* and recording a refund, as concurrent API requests over one database.   *)
(*                                                                         *)
(* A request reads and validates in the use case, then opens a database    *)
(* transaction in the repository that reads the row again and writes it.   *)
(* The database runs at READ COMMITTED and no row is locked or compared,   *)
(* so other requests commit between the three: each is a step of its own.  *)
(* The writes of one transaction take effect together, at its commit; a    *)
(* conditional or unique-checked write is decided there.                   *)
(***************************************************************************)
EXTENDS Integers, FiniteSets, OrderStatus, PaymentStatus

CONSTANTS
    Orders,         \* order ids the database can hand out
    Carts,          \* baskets, at most one per customer
    Items,          \* dishes that track inventory
    Basket,         \* Basket[c][i]: units of dish i in basket c
    InitialStock,   \* InitialStock[i]: units of dish i on the shelf
    PlacedWith,     \* payment methods customers name at checkout
    Total,          \* what an order costs, in refundable units
    Attempts,       \* payment ids, in the order the database hands them out
    Handlers,       \* requests that can be in progress at once
    NULL

ASSUME BasketAssumption == Basket \in [Carts -> [Items -> Nat]]
ASSUME StockAssumption  == InitialStock \in [Items -> Nat]
ASSUME MethodAssumption == PlacedWith \subseteq CUSTOMER_PAYMENT_METHODS
ASSUME TotalAssumption  == Total \in Nat \ {0}
ASSUME AttemptAssumption == Attempts \subseteq Nat
ASSUME NullAssumption   == NULL \notin Orders \cup Carts \cup Attempts

VARIABLES
    orders,         \* the orders table
    timeline,       \* order_status_history: every to_status of an order's rows
    payments,       \* the payments table
    receipts,       \* PAYMENT rows of an order in the transactions table
    references,     \* the unique references those rows used
    commission,     \* status of an order's COMMISSION row
    refunded,       \* sum of an order's REFUND rows
    stock,          \* menu_items.stock_quantity
    returned,       \* history: how often an order's stock was put back
    carts,          \* the carts table
    req             \* what each handler is in the middle of

tables == <<orders, timeline, payments, receipts, references, commission,
            refunded, stock, returned, carts>>
vars == <<tables, req>>

-----------------------------------------------------------------------------
(* Rows and requests.                                                      *)

OrderMethods == CUSTOMER_PAYMENT_METHODS \cup {"NONE"}

OrderRows == [status : OrderStatuses \cup {"ABSENT"},
              paymentStatus : PaymentStatuses,
              method : OrderMethods,
              cart : Carts \cup {NULL}]

NoOrder == [status |-> "ABSENT", paymentStatus |-> "PENDING",
            method |-> "NONE", cart |-> NULL]

PaymentRows == [order : Orders \cup {NULL},
                method : OrderMethods,
                status : PaymentStatuses \cup {"ABSENT"}]

NoPayment == [order |-> NULL, method |-> "NONE", status |-> "ABSENT"]

Idle == [kind |-> "idle"]

\* The use case has validated; the transaction has not begun.
Placing == [kind : {"place"}, cart : Carts, method : PlacedWith]

\* from is the status the use case validated against; method is the payment
\* method, read again by the transaction (step "reading").
Moving == [kind : {"move"}, step : {"validated", "reading"}, order : Orders,
           from : OrderStatuses, to : OrderStatuses,
           method : OrderMethods]

\* sum is the REFUND total the transaction read.
Refunding == [kind : {"refund"}, step : {"validated", "reading"},
              order : Orders, payment : Attempts \cup {NULL},
              amount : 1 .. Total, sum : Nat]

Requests == {Idle} \cup Placing \cup Moving \cup Refunding

Exists(o) == orders[o].status # "ABSENT"

Is(h, kind, step) == req[h].kind = kind /\ req[h].step = step

Finish(h) == req' = [req EXCEPT ![h] = Idle]

-----------------------------------------------------------------------------
Init ==
    /\ orders = [o \in Orders |-> NoOrder]
    /\ timeline = [o \in Orders |-> {}]
    /\ payments = [a \in Attempts |-> NoPayment]
    /\ receipts = [o \in Orders |-> 0]
    /\ references = {}
    /\ commission = [o \in Orders |-> "NONE"]
    /\ refunded = [o \in Orders |-> 0]
    /\ stock = InitialStock
    /\ returned = [o \in Orders |-> 0]
    /\ carts = Carts
    /\ req = [h \in Handlers |-> Idle]

-----------------------------------------------------------------------------
(* Placing an order.                                                       *)

InStock(c) == \A i \in Items : stock[i] >= Basket[c][i]

\* The basket exists and nothing in it blocks checkout.
PlaceOrder(h, c, m) ==
    /\ req[h] = Idle
    /\ c \in carts
    /\ InStock(c)
    /\ req' = [req EXCEPT ![h] = [kind |-> "place", cart |-> c, method |-> m]]
    /\ UNCHANGED tables

\* Faulty variant: an order paid offline skips the restaurant's acceptance.
StraightToKitchen(m) == IF m \in ONLINE_METHODS THEN "PENDING_PAYMENT" ELSE "CONFIRMED"

\* An order paid online waits for the gateway before the kitchen is told.
InitialStatus(m) == IF m \in ONLINE_METHODS THEN "PENDING_PAYMENT" ELSE "PLACED"

\* The id the database gives the next payment row.
NextAttempt(a) ==
    /\ payments[a] = NoPayment
    /\ \A b \in Attempts : b < a => payments[b] # NoPayment

PendingPayment(o, m) == [order |-> o, method |-> m, status |-> "PENDING"]

\* A payment row is opened here unless a gateway will be asked for one.
OpenPayment(o, m) ==
    IF m \in ONLINE_METHODS
    THEN UNCHANGED payments
    ELSE \E a \in Attempts :
            /\ NextAttempt(a)
            /\ payments' = [payments EXCEPT ![a] = PendingPayment(o, m)]

\* Faulty variant: stock is decremented whatever is left.
ClaimUnchecked(c) == TRUE

\* The claim is one conditional write: decrement where enough is left.
CanClaim(c) == InStock(c)

\* Faulty variant: a basket already gone is no error.
DeleteTolerated(c) == TRUE

\* Deleting the basket fails the transaction when it is already gone.
CanDelete(c) == c \in carts

\* The whole placement lands together.  A line that sold out, or a basket
\* another request already turned into an order, rolls it back (Abandon).
CommitPlace(h, o) ==
    /\ req[h].kind = "place"
    /\ ~ Exists(o)
    /\ LET c == req[h].cart
           m == req[h].method
       IN  /\ CanClaim(c)
           /\ CanDelete(c)
           /\ orders' = [orders EXCEPT ![o] =
                   [status |-> InitialStatus(m), paymentStatus |-> "PENDING",
                    method |-> m, cart |-> c]]
           /\ timeline' = [timeline EXCEPT ![o] = {InitialStatus(m)}]
           /\ OpenPayment(o, m)
           /\ commission' = [commission EXCEPT ![o] = "PENDING"]
           /\ stock' = [i \in Items |-> stock[i] - Basket[c][i]]
           /\ carts' = carts \ {c}
    /\ Finish(h)
    /\ UNCHANGED <<receipts, references, refunded, returned>>

-----------------------------------------------------------------------------
(* Moving an order through its lifecycle.                                  *)

\* The use case has accepted the move and calls the repository.
StartMove(h, o, to) ==
    req' = [req EXCEPT ![h] =
        [kind |-> "move", step |-> "validated", order |-> o,
         from |-> orders[o].status, to |-> to,
         method |-> orders[o].method]]

\* AdvanceOrderUseCase.  A rejection carries its reason and a rider's
\* delivery its checked code, so neither check appears here.
Advance(h, o, to, as) ==
    /\ req[h] = Idle
    /\ Exists(o)
    /\ MayMove(as, orders[o].status, to)
    /\ StartMove(h, o, to)
    /\ UNCHANGED tables

\* CancelOrderUseCase.  Customers have a window of their own.
Cancel(h, o, as) ==
    /\ req[h] = Idle
    /\ Exists(o)
    /\ as = "CUSTOMER" =>
         \E withinWindow \in BOOLEAN :
            CustomerMayCancel(orders[o].status, withinWindow)
    /\ MayMove(as, orders[o].status, "CANCELLED")
    /\ StartMove(h, o, "CANCELLED")
    /\ UNCHANGED tables

\* The transaction reads the row it is about to overwrite.
BeginMove(h) ==
    /\ Is(h, "move", "validated")
    /\ LET o == req[h].order
       IN  req' = [req EXCEPT ![h].step = "reading",
                               ![h].method = orders[o].method]
    /\ UNCHANGED tables

\* A cash order is paid at the door.
CollectsCash(r) == r.to = "DELIVERED" /\ r.method = CASH

OrderReference(o) == <<"ORDER", o>>

\* Faulty variant: the reference is not unique.
PostUnkeyed(o, ref) ==
    /\ references' = references \cup {ref}
    /\ receipts' = [receipts EXCEPT ![o] = @ + 1]

\* Post a PAYMENT row; the reference is unique, so a second one throws.
PostReceipt(o, ref) ==
    /\ ref \notin references
    /\ references' = references \cup {ref}
    /\ receipts' = [receipts EXCEPT ![o] = @ + 1]

\* Every pending attempt of the order is marked paid with the cash.
PayPending(o) ==
    payments' = [a \in Attempts |->
        IF payments[a].order = o /\ payments[a].status = "PENDING"
        THEN [payments[a] EXCEPT !.status = "PAID"]
        ELSE payments[a]]

\* Faulty variant: the commission stays pending.
SettleWithoutCommission(o) ==
    /\ PostReceipt(o, OrderReference(o))
    /\ PayPending(o)
    /\ UNCHANGED commission

SettleCashAtDoor(o) ==
    /\ PostReceipt(o, OrderReference(o))
    /\ PayPending(o)
    /\ commission' = [commission EXCEPT ![o] = "SUCCESS"]

\* Faulty variant: the stock is not written back.
RestockSkipped(o) ==
    /\ UNCHANGED stock
    /\ returned' = [returned EXCEPT ![o] = @ + 1]

Restock(o) ==
    /\ stock' = [i \in Items |-> stock[i] + Basket[orders[o].cart][i]]
    /\ returned' = [returned EXCEPT ![o] = @ + 1]

\* The row is overwritten whatever its status has become.
CommitMove(h) ==
    /\ Is(h, "move", "reading")
    /\ LET r == req[h]
           o == r.order
       IN  /\ orders' = [orders EXCEPT
                ![o].status = r.to,
                ![o].paymentStatus = IF CollectsCash(r) THEN "PAID" ELSE @]
           /\ timeline' = [timeline EXCEPT ![o] = @ \cup {r.to}]
           /\ IF CollectsCash(r)
              THEN SettleCashAtDoor(o)
              ELSE UNCHANGED <<receipts, references, payments, commission>>
           /\ IF Restocks(r.from, r.to)
              THEN Restock(o)
              ELSE UNCHANGED <<stock, returned>>
    /\ Finish(h)
    /\ UNCHANGED <<refunded, carts>>

-----------------------------------------------------------------------------
(* Recording a refund the restaurant has made.                             *)

PaidAttempts(o) ==
    {a \in Attempts : payments[a].order = o /\ payments[a].status = "PAID"}

\* Faulty variant: earlier refunds are not counted.
WholeTotal(o) == Total

\* What can still be given back on the order.
Refundable(o) == Total - refunded[o]

Refund(h, o, amount) ==
    /\ req[h] = Idle
    /\ Exists(o)
    /\ orders[o].paymentStatus \in {"PAID", "PARTIALLY_REFUNDED"}
    /\ amount <= Refundable(o)
    /\ \E a \in IF PaidAttempts(o) = {} THEN {NULL} ELSE PaidAttempts(o) :
         req' = [req EXCEPT ![h] =
            [kind |-> "refund", step |-> "validated", order |-> o,
             payment |-> a, amount |-> amount, sum |-> 0]]
    /\ UNCHANGED tables

BeginRefund(h) ==
    /\ Is(h, "refund", "validated")
    /\ req' = [req EXCEPT ![h].step = "reading",
                            ![h].sum = refunded[req[h].order]]
    /\ UNCHANGED tables

StatusAfterRefund(total) ==
    IF total >= Total THEN "REFUNDED" ELSE "PARTIALLY_REFUNDED"

\* The cap was checked by the use case and is not checked again.
CommitRefund(h) ==
    /\ Is(h, "refund", "reading")
    /\ LET r == req[h]
           o == r.order
           s == StatusAfterRefund(r.sum + r.amount)
       IN  /\ payments' = [a \in Attempts |->
                IF a = r.payment THEN [payments[a] EXCEPT !.status = s]
                                 ELSE payments[a]]
           /\ orders' = [orders EXCEPT ![o].paymentStatus = s]
           /\ refunded' = [refunded EXCEPT ![o] = @ + r.amount]
    /\ Finish(h)
    /\ UNCHANGED <<timeline, receipts, references, commission, stock,
                   returned, carts>>

-----------------------------------------------------------------------------
\* A request ends without a trace: its transaction rolled back, a write was
\* refused, or the process died before the commit.
Abandon(h) ==
    /\ req[h] # Idle
    /\ Finish(h)
    /\ UNCHANGED tables

Step(h) ==
    \/ \E c \in Carts, m \in PlacedWith : PlaceOrder(h, c, m)
    \/ \E o \in Orders : CommitPlace(h, o)
    \/ \E o \in Orders, to \in OrderStatuses, as \in CallerTypes :
            Advance(h, o, to, as)
    \/ \E o \in Orders, as \in CallerTypes : Cancel(h, o, as)
    \/ BeginMove(h)
    \/ CommitMove(h)
    \/ \E o \in Orders, amount \in 1 .. Total : Refund(h, o, amount)
    \/ BeginRefund(h)
    \/ CommitRefund(h)
    \/ Abandon(h)

Next == \E h \in Handlers : Step(h)

Spec == Init /\ [][Next]_vars

-----------------------------------------------------------------------------
(* Properties.                                                             *)

\* Every table holds rows of its type, and no dish is ever oversold: stock
\* stays a natural number although checkouts claim it without a lock.
TypeOK ==
    /\ orders \in [Orders -> OrderRows]
    /\ timeline \in [Orders -> SUBSET OrderStatuses]
    /\ payments \in [Attempts -> PaymentRows]
    /\ receipts \in [Orders -> Nat]
    /\ commission \in [Orders -> {"NONE", "PENDING", "SUCCESS"}]
    /\ refunded \in [Orders -> Nat]
    /\ stock \in [Items -> Nat]
    /\ returned \in [Orders -> Nat]
    /\ carts \subseteq Carts
    /\ req \in [Handlers -> Requests]

\* No order is delivered that the business did not accept, cook and make
\* ready first: the illegal jump order-state-machine.ts says must fail.
KitchenBeforeDoor ==
    \A o \in Orders : "DELIVERED" \in timeline[o] =>
        {"PLACED", "CONFIRMED", "PREPARING", "READY_FOR_PICKUP"} \subseteq timeline[o]

\* A basket becomes at most one order, although nothing stops two checkouts
\* of the same basket from both passing validation.
OneOrderPerBasket ==
    \A o, p \in Orders :
        Exists(o) /\ Exists(p) /\ orders[o].cart = orders[p].cart => o = p

\* The cash of an order is in the ledger exactly once if it was ever
\* delivered and not at all otherwise, however often DELIVERED is raced.
CashPostedOnce ==
    \A o \in Orders : orders[o].method = CASH =>
        receipts[o] = IF "DELIVERED" \in timeline[o] THEN 1 ELSE 0

\* An order is shown as paid (or refunded) only when the ledger has a
\* receipt for it and its commission was confirmed.
PaidHasReceipt ==
    \A o \in Orders : orders[o].paymentStatus \in SETTLED_STATUSES =>
        receipts[o] > 0 /\ commission[o] = "SUCCESS"
=============================================================================
