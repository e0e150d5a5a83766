--------------------------- MODULE Orders_proofs ---------------------------
(***************************************************************************)
(* Theorems about the orders module, for any number of orders, baskets and *)
(* concurrent requests.                                                    *)
(***************************************************************************)
EXTENDS OrderProperties, Sums, TLAPS

(***************************************************************************)
(* The inductive invariant.  None of the properties is inductive by        *)
(* itself: each is kept only because a request in progress, whatever has   *)
(* been committed since it read its order, still carries something true.   *)
(***************************************************************************)

\* A row that exists was made from a basket that is gone, and is in a status
\* its history has; a row that does not exist left nothing in other tables.
RowsGrounded ==
    \A o \in Orders :
        \/ /\ Exists(o)
           /\ orders[o].cart \in Carts \ carts
           /\ orders[o].status \in timeline[o]
        \/ /\ ~ Exists(o)
           /\ orders[o].paymentStatus = "PENDING"
           /\ timeline[o] = {}
           /\ receipts[o] = 0
           /\ OrderReference(o) \notin references

\* The receipt of an order, the reference that keeps it from being posted
\* again and a cash delivery come and go together.
ReceiptsGrounded ==
    \A o \in Orders :
        /\ receipts[o] = IF OrderReference(o) \in references THEN 1 ELSE 0
        /\ orders[o].method = CASH =>
             (OrderReference(o) \in references <=> "DELIVERED" \in timeline[o])

\* A move in progress was validated against a status its order has been in,
\* however stale that status is by now.
MovesGrounded ==
    \A h \in Handlers : req[h].kind = "move" =>
        /\ Exists(req[h].order)
        /\ req[h].from \in timeline[req[h].order]
        /\ AllowedMove(req[h].from, req[h].to)
        /\ req[h].method = orders[req[h].order].method

\* The order of a refund in progress has been paid, and stays so.
RefundsGrounded ==
    \A h \in Handlers : req[h].kind = "refund" =>
        /\ Exists(req[h].order)
        /\ orders[req[h].order].paymentStatus \in SETTLED_STATUSES

\* A status is only ever reached from one that the transition table leads
\* from, however many requests raced: the chain back to checkout is complete.
Caused ==
    \A o \in Orders : \A s \in timeline[o] :
        \/ s \in {"PENDING_PAYMENT", "PLACED"}
        \/ \E p \in timeline[o] : AllowedMove(p, s)

IInv ==
    /\ TypeOK
    /\ RowsGrounded
    /\ ReceiptsGrounded
    /\ MovesGrounded
    /\ RefundsGrounded
    /\ Caused
    /\ OneOrderPerBasket
    /\ PaidHasReceipt

-----------------------------------------------------------------------------
\* What a handler is in the middle of, by the kind of its request.
LEMMA RequestKinds ==
    ASSUME TypeOK, NEW h \in Handlers
    PROVE  /\ req[h].kind = "place" => req[h] \in Placing
           /\ req[h].kind = "move" => req[h] \in Moving
           /\ req[h].kind = "refund" => req[h] \in Refunding
BY DEF TypeOK, Requests, Idle, Placing, Moving, Refunding

\* Only statuses are named by the transition table.
LEMMA TableStatuses ==
    ASSUME NEW actor, NEW from, NEW to, MayMove(actor, from, to)
    PROVE  /\ from \in OrderStatuses /\ to \in OrderStatuses
           /\ AllowedMove(from, to)
BY DEF MayMove, AllowedMove, ORDER_TRANSITIONS, OrderStatuses

\* A handler accepts a move of an existing order along the table.
Accept(h) ==
    \E o \in Orders, to \in OrderStatuses :
        /\ req[h] = Idle
        /\ Exists(o)
        /\ AllowedMove(orders[o].status, to)
        /\ StartMove(h, o, to)
        /\ UNCHANGED tables

\* Whoever asks and whatever for, a step is one of nine kinds.
LEMMA StepKinds ==
    ASSUME NEW h \in Handlers, Step(h)
    PROVE  \/ \E c \in Carts, m \in PlacedWith : PlaceOrder(h, c, m)
           \/ \E o \in Orders : CommitPlace(h, o)
           \/ Accept(h)
           \/ BeginMove(h)
           \/ CommitMove(h)
           \/ \E o \in Orders, amount \in 1 .. Total : Refund(h, o, amount)
           \/ BeginRefund(h)
           \/ CommitRefund(h)
           \/ Abandon(h)
<1>1. ASSUME NEW o \in Orders, NEW to \in OrderStatuses, NEW as \in CallerTypes,
             Advance(h, o, to, as)
      PROVE  Accept(h)
  BY <1>1, TableStatuses DEF Advance, Accept
<1>2. ASSUME NEW o \in Orders, NEW as \in CallerTypes, Cancel(h, o, as)
      PROVE  Accept(h)
  <2>1. AllowedMove(orders[o].status, "CANCELLED") /\ "CANCELLED" \in OrderStatuses
    BY <1>2, TableStatuses DEF Cancel
  <2> QED BY <1>2, <2>1 DEF Cancel, Accept
<1> QED BY <1>1, <1>2, Zenon DEF Step

-----------------------------------------------------------------------------
(* Types.                                                                  *)

LEMMA PlaceTypes ==
    ASSUME TypeOK, NEW h \in Handlers, NEW o \in Orders, CommitPlace(h, o)
    PROVE  TypeOK'
<1> DEFINE c == req[h].cart
           m == req[h].method
<1> USE DEF TypeOK
<1>1. c \in Carts /\ m \in CUSTOMER_PAYMENT_METHODS
  BY RequestKinds, MethodAssumption DEF CommitPlace, Placing
<1>2. InitialStatus(m) \in OrderStatuses
  BY DEF InitialStatus, OrderStatuses
<1>3. orders' \in [Orders -> OrderRows]
  BY <1>1, <1>2 DEF CommitPlace, OrderRows, OrderMethods, PaymentStatuses
<1>4. payments' \in [Attempts -> PaymentRows]
  BY <1>1 DEF CommitPlace, OpenPayment, PendingPayment, PaymentRows, OrderMethods, PaymentStatuses
<1>5. stock' \in [Items -> Nat]
  BY <1>1, BasketAssumption DEF CommitPlace, CanClaim, InStock
<1>6. req' \in [Handlers -> Requests]
  BY DEF CommitPlace, Finish, Requests
<1>7. /\ timeline' \in [Orders -> SUBSET OrderStatuses]
      /\ carts' \subseteq Carts
      /\ commission' \in [Orders -> {"NONE", "PENDING", "SUCCESS"}]
  BY <1>2 DEF CommitPlace
<1> QED BY <1>3, <1>4, <1>5, <1>6, <1>7 DEF CommitPlace

LEMMA AcceptTypes ==
    ASSUME TypeOK, NEW h \in Handlers, Accept(h)
    PROVE  TypeOK'
<1> USE DEF TypeOK
<1> PICK o \in Orders, to \in OrderStatuses :
        Exists(o) /\ StartMove(h, o, to) /\ UNCHANGED tables
  BY DEF Accept
<1> DEFINE r == [kind |-> "move", step |-> "validated", order |-> o,
                 from |-> orders[o].status, to |-> to, method |-> orders[o].method]
<1>1. orders[o].status \in OrderStatuses /\ orders[o].method \in OrderMethods
  BY DEF Exists, OrderRows
<1>2. r \in Moving
  BY <1>1 DEF Moving
<1>3. req' = [req EXCEPT ![h] = r]
  BY DEF StartMove
<1> HIDE DEF r
<1>4. req' \in [Handlers -> Requests]
  BY <1>2, <1>3 DEF Requests
<1> QED BY <1>4 DEF tables

LEMMA MoveTypes ==
    ASSUME TypeOK, RowsGrounded, MovesGrounded,
           NEW h \in Handlers, CommitMove(h)
    PROVE  TypeOK'
<1> DEFINE o == req[h].order
           r == req[h]
<1> USE DEF TypeOK
<1>1. r \in Moving /\ o \in Orders /\ r.to \in OrderStatuses
  BY RequestKinds DEF CommitMove, Is, Moving
<1>2. orders' \in [Orders -> OrderRows]
  <2> DEFINE p == IF CollectsCash(r) THEN "PAID" ELSE orders[o].paymentStatus
  <2>1. orders[o] \in OrderRows
    BY <1>1
  <2>2. p \in PaymentStatuses
    BY <2>1 DEF OrderRows, PaymentStatuses
  <2>3. orders' = [orders EXCEPT ![o] =
                    [orders[o] EXCEPT !.status = r.to, !.paymentStatus = p]]
    BY <1>1, <2>1 DEF CommitMove, OrderRows
  <2> HIDE DEF p
  <2>4. [orders[o] EXCEPT !.status = r.to, !.paymentStatus = p] \in OrderRows
    BY <1>1, <2>1, <2>2 DEF OrderRows
  <2> QED BY <2>3, <2>4
<1>3. payments' \in [Attempts -> PaymentRows]
  BY DEF CommitMove, SettleCashAtDoor, PayPending, PaymentRows, PaymentStatuses
<1>4. /\ receipts' \in [Orders -> Nat]
      /\ commission' \in [Orders -> {"NONE", "PENDING", "SUCCESS"}]
  BY <1>1 DEF CommitMove, SettleCashAtDoor, PostReceipt
<1>5. stock' \in [Items -> Nat] /\ returned' \in [Orders -> Nat]
  <2>1. CASE UNCHANGED <<stock, returned>>
    BY <2>1
  <2>2. CASE Restock(o)
    <3>1. orders[o].cart \in Carts
      BY <1>1 DEF CommitMove, Is, MovesGrounded, RowsGrounded
    <3>2. \A i \in Items : Basket[orders[o].cart][i] \in Nat
      BY <3>1, BasketAssumption
    <3> QED BY <2>2, <3>2, <1>1 DEF Restock
  <2> QED BY <2>1, <2>2, Zenon DEF CommitMove
<1>6. req' \in [Handlers -> Requests]
  BY DEF CommitMove, Finish, Requests
<1>7. timeline' \in [Orders -> SUBSET OrderStatuses]
  BY <1>1 DEF CommitMove
<1> QED BY <1>2, <1>3, <1>4, <1>5, <1>6, <1>7 DEF CommitMove

LEMMA RefundTypes ==
    ASSUME TypeOK, NEW h \in Handlers,
           \/ \E o \in Orders, amount \in 1 .. Total : Refund(h, o, amount)
           \/ BeginRefund(h)
           \/ CommitRefund(h)
    PROVE  TypeOK'
<1> USE DEF TypeOK
<1>1. ASSUME NEW o \in Orders, NEW amount \in 1 .. Total, Refund(h, o, amount)
      PROVE  TypeOK'
  <2> PICK a \in Attempts \cup {NULL} :
        req' = [req EXCEPT ![h] =
            [kind |-> "refund", step |-> "validated", order |-> o,
             payment |-> a, amount |-> amount, sum |-> 0]]
    BY <1>1 DEF Refund, PaidAttempts
  <2>1. [kind |-> "refund", step |-> "validated", order |-> o,
         payment |-> a, amount |-> amount, sum |-> 0] \in Refunding
    BY DEF Refunding
  <2>2. req' \in [Handlers -> Requests]
    BY <2>1 DEF Requests
  <2> QED BY <1>1, <2>2 DEF Refund, tables
<1>2. ASSUME BeginRefund(h) PROVE TypeOK'
  <2>1. req[h] \in Refunding
    BY <1>2, RequestKinds DEF BeginRefund, Is
  <2>2. [req[h] EXCEPT !.step = "reading", !.sum = refunded[req[h].order]]
           \in Refunding
    BY <2>1 DEF Refunding
  <2> QED BY <1>2, <2>2 DEF BeginRefund, Requests, tables
<1>3. ASSUME CommitRefund(h) PROVE TypeOK'
  <2> DEFINE r == req[h]
             s == StatusAfterRefund(r.sum + r.amount)
  <2>1. r \in Refunding /\ r.order \in Orders /\ r.amount \in Nat
    BY <1>3, RequestKinds, TotalAssumption DEF CommitRefund, Is, Refunding
  <2>2. s \in PaymentStatuses
    BY DEF StatusAfterRefund, PaymentStatuses
  <2> HIDE DEF s
  <2>3. orders' = [orders EXCEPT ![r.order] = [orders[r.order] EXCEPT !.paymentStatus = s]]
    BY <1>3, <2>1 DEF CommitRefund, s
  <2>4. orders' \in [Orders -> OrderRows]
    BY <2>1, <2>2, <2>3 DEF OrderRows
  <2>5. payments' = [a \in Attempts |->
                IF a = r.payment THEN [payments[a] EXCEPT !.status = s] ELSE payments[a]]
    BY <1>3 DEF CommitRefund, s
  <2>6. payments' \in [Attempts -> PaymentRows]
    BY <2>2, <2>5 DEF PaymentRows
  <2>7. refunded' \in [Orders -> Nat]
    BY <1>3, <2>1 DEF CommitRefund
  <2>8. req' \in [Handlers -> Requests]
    BY <1>3 DEF CommitRefund, Finish, Requests
  <2> QED BY <1>3, <2>4, <2>6, <2>7, <2>8 DEF CommitRefund
<1> QED BY <1>1, <1>2, <1>3

LEMMA StepTypes ==
    ASSUME TypeOK, RowsGrounded, MovesGrounded, [Next]_vars
    PROVE  TypeOK'
<1> USE DEF TypeOK
<1>1. ASSUME NEW h \in Handlers, NEW c \in Carts, NEW m \in PlacedWith,
             PlaceOrder(h, c, m)
      PROVE  TypeOK'
  BY <1>1 DEF PlaceOrder, Requests, Placing, tables
<1>2. ASSUME NEW h \in Handlers, BeginMove(h) PROVE TypeOK'
  <2>1. req[h] \in Moving
    BY <1>2, RequestKinds DEF BeginMove, Is
  <2>2. orders[req[h].order].method \in OrderMethods
    BY <2>1 DEF Moving, OrderRows
  <2>3. [req[h] EXCEPT !.step = "reading", !.method = orders[req[h].order].method]
           \in Moving
    BY <2>1, <2>2 DEF Moving
  <2> QED BY <1>2, <2>3 DEF BeginMove, Requests, tables
<1>3. ASSUME NEW h \in Handlers, Abandon(h) PROVE TypeOK'
  BY <1>3 DEF Abandon, Finish, Requests, tables
<1>4. CASE UNCHANGED vars
  BY <1>4 DEF vars, tables
<1> HIDE DEF TypeOK
<1> QED
  BY <1>1, <1>2, <1>3, <1>4, StepKinds, PlaceTypes, AcceptTypes, MoveTypes,
     RefundTypes, Zenon DEF Next

-----------------------------------------------------------------------------
(* The inductive step.                                                     *)

Grounded ==
    /\ RowsGrounded
    /\ ReceiptsGrounded
    /\ MovesGrounded
    /\ RefundsGrounded
    /\ Caused
    /\ OneOrderPerBasket
    /\ PaidHasReceipt

\* A step that only changes what one handler is doing keeps the invariant if
\* what it now carries is true of the tables.
LEMMA QuietGrounded ==
    ASSUME TypeOK, Grounded, UNCHANGED tables,
           NEW h \in Handlers, NEW r, req' = [req EXCEPT ![h] = r],
           r.kind = "move" =>
               /\ Exists(r.order)
               /\ r.from \in timeline[r.order]
               /\ AllowedMove(r.from, r.to)
               /\ r.method = orders[r.order].method,
           r.kind = "refund" =>
               /\ Exists(r.order)
               /\ orders[r.order].paymentStatus \in SETTLED_STATUSES
    PROVE  Grounded'
<1>1. \A k \in Handlers : req'[k] = IF k = h THEN r ELSE req[k]
  BY DEF TypeOK
<1>2. RowsGrounded' /\ ReceiptsGrounded' /\ Caused' /\ OneOrderPerBasket' /\ PaidHasReceipt'
  BY DEF Grounded, tables, RowsGrounded, ReceiptsGrounded, Caused, OneOrderPerBasket,
         PaidHasReceipt, Exists
<1>3. MovesGrounded'
  BY <1>1 DEF Grounded, MovesGrounded, tables, Exists
<1>4. RefundsGrounded'
  BY <1>1 DEF Grounded, RefundsGrounded, tables, Exists
<1> QED BY <1>2, <1>3, <1>4 DEF Grounded

LEMMA QuietSteps ==
    ASSUME TypeOK, Grounded, NEW h \in Handlers,
           \/ \E c \in Carts, m \in PlacedWith : PlaceOrder(h, c, m)
           \/ Accept(h)
           \/ BeginMove(h)
           \/ \E o \in Orders, amount \in 1 .. Total : Refund(h, o, amount)
           \/ BeginRefund(h)
           \/ Abandon(h)
    PROVE  Grounded'
<1>1. ASSUME NEW c \in Carts, NEW m \in PlacedWith, PlaceOrder(h, c, m)
      PROVE  Grounded'
  <2> DEFINE r == [kind |-> "place", cart |-> c, method |-> m]
  <2>1. r.kind = "place" /\ req' = [req EXCEPT ![h] = r] /\ UNCHANGED tables
    BY <1>1 DEF PlaceOrder
  <2> HIDE DEF r
  <2> QED BY <2>1, QuietGrounded
<1>2. ASSUME Accept(h) PROVE Grounded'
  <2> PICK o \in Orders, to \in OrderStatuses :
        /\ Exists(o)
        /\ AllowedMove(orders[o].status, to)
        /\ StartMove(h, o, to)
        /\ UNCHANGED tables
    BY <1>2 DEF Accept
  <2> DEFINE r == [kind |-> "move", step |-> "validated", order |-> o,
                   from |-> orders[o].status, to |-> to, method |-> orders[o].method]
  <2>1. req' = [req EXCEPT ![h] = r]
    BY DEF StartMove
  <2>2. /\ r.kind = "move" /\ r.order = o /\ r.from = orders[o].status
        /\ r.to = to /\ r.method = orders[o].method
    OBVIOUS
  <2>3. orders[o].status \in timeline[o]
    BY DEF Grounded, RowsGrounded
  <2> HIDE DEF r
  <2> QED BY <2>1, <2>2, <2>3, QuietGrounded
<1>3. ASSUME BeginMove(h) PROVE Grounded'
  <2> DEFINE r == [req[h] EXCEPT !.step = "reading",
                                 !.method = orders[req[h].order].method]
  <2>1. req[h] \in Moving
    BY <1>3, RequestKinds DEF BeginMove, Is
  <2>2. req' = [req EXCEPT ![h] = r]
    BY <1>3, <2>1 DEF BeginMove, TypeOK
  <2>3. /\ r.kind = "move" /\ r.order = req[h].order /\ r.from = req[h].from
        /\ r.to = req[h].to /\ r.method = orders[req[h].order].method
    BY <2>1 DEF Moving
  <2>4. /\ Exists(req[h].order)
        /\ req[h].from \in timeline[req[h].order]
        /\ AllowedMove(req[h].from, req[h].to)
    BY <1>3 DEF BeginMove, Is, Grounded, MovesGrounded
  <2> HIDE DEF r
  <2> QED BY <1>3, <2>2, <2>3, <2>4, QuietGrounded DEF BeginMove
<1>4. ASSUME NEW o \in Orders, NEW amount \in 1 .. Total, Refund(h, o, amount)
      PROVE  Grounded'
  <2> PICK a :
        req' = [req EXCEPT ![h] =
            [kind |-> "refund", step |-> "validated", order |-> o,
             payment |-> a, amount |-> amount, sum |-> 0]]
    BY <1>4 DEF Refund
  <2> DEFINE r == [kind |-> "refund", step |-> "validated", order |-> o,
                   payment |-> a, amount |-> amount, sum |-> 0]
  <2>1. r.kind = "refund" /\ r.order = o /\ req' = [req EXCEPT ![h] = r]
    OBVIOUS
  <2>2. /\ Exists(o) /\ UNCHANGED tables
        /\ orders[o].paymentStatus \in SETTLED_STATUSES
    BY <1>4 DEF Refund, SETTLED_STATUSES
  <2> HIDE DEF r
  <2> QED BY <2>1, <2>2, QuietGrounded
<1>5. ASSUME BeginRefund(h) PROVE Grounded'
  <2> DEFINE r == [req[h] EXCEPT !.step = "reading",
                                 !.sum = refunded[req[h].order]]
  <2>1. req[h] \in Refunding
    BY <1>5, RequestKinds DEF BeginRefund, Is
  <2>2. req' = [req EXCEPT ![h] = r]
    BY <1>5, <2>1 DEF BeginRefund, TypeOK
  <2>3. r.kind = "refund" /\ r.order = req[h].order
    BY <2>1 DEF Refunding
  <2>4. /\ Exists(req[h].order)
        /\ orders[req[h].order].paymentStatus \in SETTLED_STATUSES
    BY <1>5 DEF BeginRefund, Is, Grounded, RefundsGrounded
  <2> HIDE DEF r
  <2> QED BY <1>5, <2>2, <2>3, <2>4, QuietGrounded DEF BeginRefund
<1>6. ASSUME Abandon(h) PROVE Grounded'
  <2>1. Idle.kind = "idle" /\ req' = [req EXCEPT ![h] = Idle] /\ UNCHANGED tables
    BY <1>6 DEF Abandon, Finish, Idle
  <2> QED BY <2>1, QuietGrounded
<1> QED BY <1>1, <1>2, <1>3, <1>4, <1>5, <1>6

LEMMA PlaceGrounded ==
    ASSUME TypeOK, Grounded, NEW h \in Handlers, NEW o \in Orders, CommitPlace(h, o)
    PROVE  Grounded'
<1> USE DEF Grounded
<1> DEFINE c == req[h].cart
           m == req[h].method
           row == [status |-> InitialStatus(m), paymentStatus |-> "PENDING",
                   method |-> m, cart |-> c]
<1>1. /\ c \in carts /\ carts' = carts \ {c} /\ carts \subseteq Carts
      /\ orders' = [orders EXCEPT ![o] = row]
      /\ timeline' = [timeline EXCEPT ![o] = {InitialStatus(m)}]
      /\ req' = [req EXCEPT ![h] = Idle]
      /\ ~ Exists(o)
      /\ UNCHANGED <<receipts, references>>
  BY DEF CommitPlace, CanDelete, Finish, TypeOK
<1>2. /\ row.status = InitialStatus(m) /\ row.paymentStatus = "PENDING"
      /\ row.method = m /\ row.cart = c
      /\ InitialStatus(m) \in {"PENDING_PAYMENT", "PLACED"}
  BY DEF InitialStatus
<1> HIDE DEF row
<1>3. \A p \in Orders : p # o => /\ orders'[p] = orders[p]
                                 /\ timeline'[p] = timeline[p]
                                 /\ Exists(p)' <=> Exists(p)
  BY <1>1 DEF TypeOK, Exists
<1>4. orders'[o] = row /\ timeline'[o] = {InitialStatus(m)} /\ Exists(o)'
  BY <1>1, <1>2 DEF TypeOK, Exists
<1>5. \A k \in Handlers : k # h => req'[k] = req[k]
  BY <1>1 DEF TypeOK
<1>6. req'[h] = Idle /\ Idle.kind = "idle"
  BY <1>1 DEF TypeOK, Idle
<1>7. /\ timeline[o] = {} /\ receipts[o] = 0
      /\ OrderReference(o) \notin references
  BY <1>1 DEF RowsGrounded
<1>8. RowsGrounded'
  BY <1>1, <1>2, <1>3, <1>4 DEF RowsGrounded
<1>9. ReceiptsGrounded'
  <2>1. /\ receipts'[o] = 0 /\ OrderReference(o) \notin references'
        /\ "DELIVERED" \notin timeline'[o]
    BY <1>1, <1>2, <1>4, <1>7
  <2>2. \A p \in Orders : p # o =>
            /\ receipts'[p] = IF OrderReference(p) \in references' THEN 1 ELSE 0
            /\ orders'[p].method = CASH =>
                 (OrderReference(p) \in references' <=> "DELIVERED" \in timeline'[p])
    BY <1>1, <1>3 DEF ReceiptsGrounded
  <2> QED BY <2>1, <2>2, Zenon DEF ReceiptsGrounded
<1>10. MovesGrounded'
  <2>1. \A k \in Handlers : k # h /\ req[k].kind = "move" => req[k].order \in Orders \ {o}
    BY <1>1, RequestKinds DEF MovesGrounded, Moving
  <2> QED BY <2>1, <1>3, <1>5, <1>6 DEF MovesGrounded
<1>11. RefundsGrounded'
  <2>1. \A k \in Handlers : k # h /\ req[k].kind = "refund" => req[k].order \in Orders \ {o}
    BY <1>1, RequestKinds DEF RefundsGrounded, Refunding
  <2> QED BY <2>1, <1>3, <1>5, <1>6 DEF RefundsGrounded
<1>12. Caused'
  BY <1>2, <1>3, <1>4 DEF Caused
<1>13. OneOrderPerBasket'
  <2>1. \A p \in Orders : Exists(p) => orders[p].cart # c
    BY <1>1 DEF RowsGrounded
  <2> QED BY <2>1, <1>2, <1>3, <1>4 DEF OneOrderPerBasket
<1>14. PaidHasReceipt'
  <2>1. \A p \in Orders : p # o => commission'[p] = commission[p]
    BY DEF CommitPlace, TypeOK
  <2> QED BY <2>1, <1>1, <1>2, <1>3, <1>4 DEF PaidHasReceipt, SETTLED_STATUSES
<1> QED BY <1>8, <1>9, <1>10, <1>11, <1>12, <1>13, <1>14

LEMMA MoveGrounded ==
    ASSUME TypeOK, Grounded, NEW h \in Handlers, CommitMove(h)
    PROVE  Grounded'
<1> USE DEF Grounded
<1> PICK r \in Moving : r = req[h]
  BY RequestKinds DEF CommitMove, Is
<1> PICK o \in Orders : o = r.order
  BY DEF Moving
<1>1. r.to \in OrderStatuses
  BY DEF Moving
<1>2. /\ Exists(o) /\ r.from \in timeline[o] /\ AllowedMove(r.from, r.to)
      /\ r.method = orders[o].method
  BY DEF CommitMove, Is, MovesGrounded
<1>3. /\ orders'[o].status = r.to
      /\ orders'[o].method = orders[o].method
      /\ orders'[o].cart = orders[o].cart
      /\ orders'[o].paymentStatus =
            IF CollectsCash(r) THEN "PAID" ELSE orders[o].paymentStatus
      /\ timeline'[o] = timeline[o] \cup {r.to}
  BY <1>1 DEF CommitMove, TypeOK, OrderRows
<1>4. \A p \in Orders : p # o => /\ orders'[p] = orders[p]
                                 /\ timeline'[p] = timeline[p]
                                 /\ Exists(p)' <=> Exists(p)
  BY <1>1 DEF CommitMove, TypeOK, Exists
<1>5. Exists(o)'
  BY <1>1, <1>3 DEF Exists, OrderStatuses
<1>6. /\ req'[h] = Idle /\ Idle.kind = "idle"
      /\ \A k \in Handlers : k # h => req'[k] = req[k]
  BY DEF CommitMove, Finish, TypeOK, Idle
<1>7. /\ CollectsCash(r) =>
            /\ OrderReference(o) \notin references
            /\ references' = references \cup {OrderReference(o)}
            /\ receipts' = [receipts EXCEPT ![o] = @ + 1]
            /\ commission' = [commission EXCEPT ![o] = "SUCCESS"]
      /\ ~ CollectsCash(r) => UNCHANGED <<receipts, references, commission>>
      /\ UNCHANGED carts
  BY DEF CommitMove, SettleCashAtDoor, PostReceipt
<1>8. \A p \in Orders : p # o =>
            /\ receipts'[p] = receipts[p]
            /\ commission'[p] = commission[p]
            /\ OrderReference(p) \in references' <=> OrderReference(p) \in references
  <2>1. CASE CollectsCash(r)
    BY <2>1, <1>1, <1>7 DEF TypeOK, OrderReference
  <2>2. CASE ~ CollectsCash(r)
    BY <2>2, <1>7
  <2> QED BY <2>1, <2>2
<1>9. /\ receipts'[o] = IF CollectsCash(r) THEN 1 ELSE receipts[o]
      /\ CollectsCash(r) => commission'[o] = "SUCCESS"
      /\ ~ CollectsCash(r) => commission'[o] = commission[o]
      /\ OrderReference(o) \in references' <=>
            (CollectsCash(r) \/ OrderReference(o) \in references)
  BY <1>1, <1>7 DEF TypeOK, ReceiptsGrounded
<1>10. RowsGrounded'
  BY <1>1, <1>2, <1>3, <1>4, <1>5, <1>7, <1>8 DEF RowsGrounded
<1>11. ReceiptsGrounded'
  <2>1. receipts'[o] = IF OrderReference(o) \in references' THEN 1 ELSE 0
    BY <1>1, <1>9 DEF ReceiptsGrounded
  <2>2. orders'[o].method = CASH =>
            (OrderReference(o) \in references' <=> "DELIVERED" \in timeline'[o])
    BY <1>1, <1>2, <1>3, <1>9 DEF ReceiptsGrounded, CollectsCash
  <2> QED BY <2>1, <2>2, <1>4, <1>8 DEF ReceiptsGrounded, OrderReference
<1>12. MovesGrounded'
  <2>1. ASSUME NEW k \in Handlers, NEW q \in Moving, q = req[k],
               req'[k] = req[k], q.kind = "move"
        PROVE  /\ Exists(q.order)'
               /\ q.from \in timeline'[q.order]
               /\ AllowedMove(q.from, q.to)
               /\ q.method = orders'[q.order].method
    <3>1. q.order \in Orders
      BY DEF Moving
    <3> QED BY <2>1, <3>1, <1>3, <1>4, <1>5 DEF MovesGrounded
  <2>2. \A k \in Handlers : req'[k].kind = "move" =>
            req'[k] = req[k] /\ req[k] \in Moving
    BY <1>6, RequestKinds
  <2> QED BY <2>1, <2>2 DEF MovesGrounded, Exists
<1>13. RefundsGrounded'
  <2>1. ASSUME NEW k \in Handlers, NEW q \in Refunding, q = req[k],
               req'[k] = req[k], q.kind = "refund"
        PROVE  /\ Exists(q.order)'
               /\ orders'[q.order].paymentStatus \in SETTLED_STATUSES
    <3>1. q.order \in Orders
      BY DEF Refunding
    <3> QED BY <2>1, <3>1, <1>3, <1>4, <1>5 DEF RefundsGrounded, SETTLED_STATUSES
  <2>2. \A k \in Handlers : req'[k].kind = "refund" =>
            req'[k] = req[k] /\ req[k] \in Refunding
    BY <1>6, RequestKinds
  <2> QED BY <2>1, <2>2 DEF RefundsGrounded, Exists
<1>14. Caused'
  BY <1>1, <1>2, <1>3, <1>4 DEF Caused
<1>15. OneOrderPerBasket'
  BY <1>1, <1>2, <1>3, <1>4 DEF OneOrderPerBasket
<1>16. PaidHasReceipt'
  BY <1>1, <1>3, <1>4, <1>8, <1>9 DEF PaidHasReceipt
<1> QED BY <1>10, <1>11, <1>12, <1>13, <1>14, <1>15, <1>16

LEMMA RefundGrounded ==
    ASSUME TypeOK, Grounded, NEW h \in Handlers, CommitRefund(h)
    PROVE  Grounded'
<1> USE DEF Grounded
<1> PICK o \in Orders : o = req[h].order
  BY RequestKinds DEF CommitRefund, Is, Refunding
<1> DEFINE s == StatusAfterRefund(req[h].sum + req[h].amount)
<1>1. Exists(o) /\ orders[o].paymentStatus \in SETTLED_STATUSES
  BY DEF CommitRefund, Is, RefundsGrounded
<1>2. s \in SETTLED_STATUSES
  BY DEF StatusAfterRefund, SETTLED_STATUSES
<1> HIDE DEF s
<1>3. /\ orders' = [orders EXCEPT ![o].paymentStatus = s]
      /\ UNCHANGED <<timeline, receipts, references, commission, carts>>
  BY DEF CommitRefund, s
<1>4. /\ \A p \in Orders : /\ orders'[p].status = orders[p].status
                           /\ orders'[p].cart = orders[p].cart
                           /\ orders'[p].method = orders[p].method
                           /\ Exists(p)' <=> Exists(p)
      /\ \A p \in Orders : p # o => orders'[p].paymentStatus = orders[p].paymentStatus
      /\ orders'[o].paymentStatus = s
  BY <1>1, <1>3 DEF TypeOK, OrderRows, Exists
<1>5. /\ req'[h] = Idle /\ Idle.kind = "idle"
      /\ \A k \in Handlers : k # h => req'[k] = req[k]
  BY DEF CommitRefund, Finish, TypeOK, Idle
<1>6. RowsGrounded'
  BY <1>1, <1>3, <1>4 DEF RowsGrounded
<1>7. ReceiptsGrounded'
  BY <1>3, <1>4 DEF ReceiptsGrounded
<1>8. MovesGrounded'
  <2>1. \A k \in Handlers : req[k].kind = "move" => req[k].order \in Orders
    BY RequestKinds DEF Moving
  <2> QED BY <2>1, <1>3, <1>4, <1>5 DEF MovesGrounded
<1>9. RefundsGrounded'
  <2>1. \A k \in Handlers : req[k].kind = "refund" => req[k].order \in Orders
    BY RequestKinds DEF Refunding
  <2> QED BY <2>1, <1>2, <1>4, <1>5 DEF RefundsGrounded
<1>10. Caused'
  BY <1>3 DEF Caused
<1>11. OneOrderPerBasket'
  BY <1>4 DEF OneOrderPerBasket
<1>12. PaidHasReceipt'
  BY <1>1, <1>3, <1>4 DEF PaidHasReceipt
<1> QED BY <1>6, <1>7, <1>8, <1>9, <1>10, <1>11, <1>12

LEMMA StepKeeps ==
    ASSUME IInv, [Next]_vars
    PROVE  IInv'
<1>1. TypeOK /\ Grounded
  BY DEF IInv, Grounded
<1>2. TypeOK'
  BY <1>1, StepTypes DEF Grounded
<1>3. ASSUME UNCHANGED vars PROVE Grounded'
  <2>1. RowsGrounded' /\ ReceiptsGrounded' /\ Caused' /\ OneOrderPerBasket' /\ PaidHasReceipt'
    BY <1>1, <1>3 DEF vars, tables, Grounded, RowsGrounded, ReceiptsGrounded, Caused,
       OneOrderPerBasket, PaidHasReceipt, Exists
  <2>2. MovesGrounded' /\ RefundsGrounded'
    BY <1>1, <1>3 DEF vars, tables, Grounded, MovesGrounded, RefundsGrounded, Exists
  <2> QED BY <2>1, <2>2 DEF Grounded
<1>4. ASSUME Next PROVE Grounded'
  <2> PICK h \in Handlers : Step(h)
    BY <1>4 DEF Next
  <2> QED BY <1>1, StepKinds, QuietSteps, PlaceGrounded, MoveGrounded, RefundGrounded, Zenon
<1> QED BY <1>2, <1>3, <1>4 DEF IInv, Grounded

LEMMA StartKeeps == Init => IInv
<1> SUFFICES ASSUME Init PROVE IInv
  OBVIOUS
<1>1. TypeOK
  BY StockAssumption, TotalAssumption
     DEF Init, TypeOK, NoOrder, OrderMethods, NoPayment, OrderRows, PaymentRows, Requests,
         PaymentStatuses
<1>2. \A o \in Orders : ~ Exists(o) /\ orders[o].paymentStatus = "PENDING"
  BY DEF Init, NoOrder, Exists
<1>3. RowsGrounded /\ ReceiptsGrounded /\ Caused /\ OneOrderPerBasket /\ PaidHasReceipt
  BY <1>2 DEF Init, RowsGrounded, ReceiptsGrounded, Caused, OneOrderPerBasket,
              PaidHasReceipt, SETTLED_STATUSES
<1>4. MovesGrounded /\ RefundsGrounded
  BY DEF Init, MovesGrounded, RefundsGrounded, Idle
<1> QED BY <1>1, <1>3, <1>4 DEF IInv

\* The invariant holds throughout, for any number of orders and requests.
THEOREM Invariance == Spec => []IInv
BY StartKeeps, StepKeeps, PTL DEF Spec

-----------------------------------------------------------------------------
(* What follows.                                                           *)

\* Rows keep their types, and stock never goes below zero although every
\* checkout claims it without a lock.
THEOREM TypeCorrect == Spec => []TypeOK
<1>1. IInv => TypeOK
  BY DEF IInv
<1> QED BY <1>1, Invariance, PTL

\* A basket becomes at most one order.
THEOREM OneOrder == Spec => []OneOrderPerBasket
<1>1. IInv => OneOrderPerBasket
  BY DEF IInv
<1> QED BY <1>1, Invariance, PTL

\* Cash is posted once, and exactly when the order has been delivered.
THEOREM CashOnce == Spec => []CashPostedOnce
<1>1. IInv => CashPostedOnce
  BY DEF IInv, ReceiptsGrounded, CashPostedOnce
<1> QED BY <1>1, Invariance, PTL

\* Whatever is shown as paid is backed by a receipt and a commission.
THEOREM PaidIsBacked == Spec => []PaidHasReceipt
<1>1. IInv => PaidHasReceipt
  BY DEF IInv
<1> QED BY <1>1, Invariance, PTL

\* The table's rows, read backwards from the door to the checkout.
LEMMA Predecessors ==
    ASSUME NEW p
    PROVE  /\ AllowedMove(p, "DELIVERED") => p \in {"READY_FOR_PICKUP", "ON_THE_WAY"}
           /\ AllowedMove(p, "ON_THE_WAY") => p = "PICKED_UP"
           /\ AllowedMove(p, "PICKED_UP") => p = "READY_FOR_PICKUP"
           /\ AllowedMove(p, "READY_FOR_PICKUP") => p = "PREPARING"
           /\ AllowedMove(p, "PREPARING") => p = "CONFIRMED"
           /\ AllowedMove(p, "CONFIRMED") => p = "PLACED"
BY DEF AllowedMove, ORDER_TRANSITIONS

\* No delivery without acceptance and cooking, however requests race.
THEOREM NoIllegalJump == Spec => []KitchenBeforeDoor
<1>1. ASSUME Caused PROVE KitchenBeforeDoor
  <2> SUFFICES ASSUME NEW o \in Orders, "DELIVERED" \in timeline[o]
               PROVE  {"PLACED", "CONFIRMED", "PREPARING", "READY_FOR_PICKUP"}
                        \subseteq timeline[o]
    BY DEF KitchenBeforeDoor
  <2>1. "READY_FOR_PICKUP" \in timeline[o]
    <3>1. CASE "ON_THE_WAY" \in timeline[o]
      BY <3>1, <1>1, Predecessors DEF Caused
    <3>2. CASE "ON_THE_WAY" \notin timeline[o]
      BY <3>2, <1>1, Predecessors DEF Caused
    <3> QED BY <3>1, <3>2
  <2>2. "PREPARING" \in timeline[o]
    BY <2>1, <1>1, Predecessors DEF Caused
  <2>3. "CONFIRMED" \in timeline[o]
    BY <2>2, <1>1, Predecessors DEF Caused
  <2>4. "PLACED" \in timeline[o]
    BY <2>3, <1>1, Predecessors DEF Caused
  <2> QED BY <2>1, <2>2, <2>3, <2>4
<1>2. IInv => KitchenBeforeDoor
  BY <1>1 DEF IInv
<1> QED BY <1>2, Invariance, PTL

-----------------------------------------------------------------------------
(* Refinement.                                                             *)

\* A step of the implementation is a step of the history or none of it.
LEMMA StepHistory ==
    ASSUME IInv, [Next]_vars
    PROVE  [History!Next]_timeline
<1>1. TypeOK /\ Grounded
  BY DEF IInv, Grounded
<1>2. CASE UNCHANGED vars
  BY <1>2 DEF vars, tables
<1>3. ASSUME NEW h \in Handlers, NEW o \in Orders, CommitPlace(h, o)
      PROVE  History!CheckOut(o)
  <2>1. timeline[o] = {}
    BY <1>1, <1>3 DEF CommitPlace, Grounded, RowsGrounded
  <2> QED BY <1>3, <2>1 DEF CommitPlace, InitialStatus, History!CheckOut
<1>4. ASSUME NEW h \in Handlers, CommitMove(h)
      PROVE  \E o \in Orders : History!Reach(o)
  <2> PICK r \in Moving : r = req[h]
    BY <1>1, <1>4, RequestKinds DEF CommitMove, Is
  <2>1. r.order \in Orders /\ r.to \in OrderStatuses
    BY DEF Moving
  <2>2. r.from \in timeline[r.order] /\ AllowedMove(r.from, r.to)
    BY <1>1, <1>4 DEF CommitMove, Is, Grounded, MovesGrounded
  <2>3. timeline' = [timeline EXCEPT ![r.order] = @ \cup {r.to}]
    BY <1>4 DEF CommitMove
  <2>4. History!AllowedMove(r.from, r.to) /\ r.to \in History!OrderStatuses
    BY <2>1, <2>2 DEF AllowedMove, History!AllowedMove, ORDER_TRANSITIONS,
       History!ORDER_TRANSITIONS, OrderStatuses, History!OrderStatuses
  <2> QED BY <2>1, <2>2, <2>3, <2>4 DEF History!Reach
<1>5. ASSUME NEW h \in Handlers,
             \/ \E c \in Carts, m \in PlacedWith : PlaceOrder(h, c, m)
             \/ Accept(h)
             \/ BeginMove(h)
             \/ \E o \in Orders, amount \in 1 .. Total : Refund(h, o, amount)
             \/ BeginRefund(h)
             \/ CommitRefund(h)
             \/ Abandon(h)
      PROVE  UNCHANGED timeline
  BY <1>5 DEF PlaceOrder, Accept, BeginMove, Refund, BeginRefund, CommitRefund, Abandon, tables
<1> QED
  BY <1>2, <1>3, <1>4, <1>5, StepKinds, Zenon DEF Next, History!Next

\* With any number of concurrent requests, the statuses an order has been in
\* grow only along the transition table.
THEOREM HistoryImplemented == Spec => ImplementsHistory
<1>1. Init => History!Init
  BY DEF Init, History!Init
<1> QED BY <1>1, StepHistory, Invariance, PTL DEF Spec, ImplementsHistory, History!Spec

-----------------------------------------------------------------------------
(* Stock.                                                                  *)

Placed == {o \in Orders : Exists(o)}

\* Orders are placed one at a time, so they can be added up; one that was
\* not placed has returned nothing.
StockInv ==
    /\ StockAccounted
    /\ IsFiniteSet(Placed)
    /\ \A o \in Orders : ~ Exists(o) => returned[o] = 0

\* What orders hold of a dish is a sum, before a step and after it.
LEMMA HeldIsSum ==
    ASSUME NEW i
    PROVE  /\ IsFiniteSet(Placed) =>
                Held(i) = Sigma([o \in Placed |-> HeldBy(o, i)], Placed)
           /\ IsFiniteSet(Placed') =>
                Held(i)' = Sigma([o \in Placed |-> HeldBy(o, i)]', Placed')
<1>1. ASSUME IsFiniteSet(Placed)
      PROVE  Held(i) = Sigma([o \in Placed |-> HeldBy(o, i)], Placed)
  <2> DEFINE w == [o \in Placed |-> HeldBy(o, i)]
             Folds(g) == g = [s \in SUBSET Placed |->
                IF s = {} THEN 0
                ELSE HeldBy(CHOOSE x \in s : TRUE, i) + g[s \ {CHOOSE x \in s : TRUE}]]
  <2>1. Held(i) = (CHOOSE g : Folds(g))[Placed]
    BY DEF Held, Placed, MapThenSumSet, MapThenFoldSet
  <2>2. \A s \in SUBSET Placed : s # {} =>
            w[CHOOSE x \in s : TRUE] = HeldBy(CHOOSE x \in s : TRUE, i)
    OBVIOUS
  <2> HIDE DEF w
  <2>3. \A g : Folds(g) <=> Adds(g, w, Placed)
    BY <2>2 DEF Adds
  <2>4. \A g : Folds(g) <=> g = Sigmas(w, Placed)
    BY <1>1, <2>3, SumsDefined DEF Summed
  <2> HIDE DEF Folds
  <2>5. (CHOOSE g : Folds(g)) = Sigmas(w, Placed)
    BY <2>4
  <2> QED BY <2>1, <2>5 DEF Sigmas, w
<1>2. ASSUME IsFiniteSet(Placed')
      PROVE  Held(i)' = Sigma([o \in Placed |-> HeldBy(o, i)]', Placed')
  <2> DEFINE w == [o \in Placed |-> HeldBy(o, i)]'
             Folds(g) == g = [s \in SUBSET Placed' |->
                IF s = {} THEN 0
                ELSE HeldBy(CHOOSE x \in s : TRUE, i)' + g[s \ {CHOOSE x \in s : TRUE}]]
  <2>1. Held(i)' = (CHOOSE g : Folds(g))[Placed']
    BY DEF Held, Placed, MapThenSumSet, MapThenFoldSet
  <2>2. \A s \in SUBSET Placed' : s # {} =>
            w[CHOOSE x \in s : TRUE] = HeldBy(CHOOSE x \in s : TRUE, i)'
    OBVIOUS
  <2> HIDE DEF w
  <2>3. \A g : Folds(g) <=> Adds(g, w, Placed')
    BY <2>2 DEF Adds
  <2>4. \A g : Folds(g) <=> g = Sigmas(w, Placed')
    BY <1>2, <2>3, SumsDefined DEF Summed
  <2> HIDE DEF Folds
  <2>5. (CHOOSE g : Folds(g)) = Sigmas(w, Placed')
    BY <2>4
  <2> QED BY <2>1, <2>5 DEF Sigmas, w
<1> QED BY <1>1, <1>2

\* What one order holds is a number, before and after a step.
LEMMA HeldIsNumber ==
    ASSUME IInv, IInv', NEW i \in Items, NEW o \in Orders
    PROVE  /\ Exists(o) => HeldBy(o, i) \in Int
           /\ Exists(o)' => HeldBy(o, i)' \in Int
<1>1. Exists(o) => orders[o].cart \in Carts /\ returned[o] \in Nat
  BY DEF IInv, TypeOK, RowsGrounded
<1>2. Exists(o)' => orders'[o].cart \in Carts /\ returned'[o] \in Nat
  BY DEF IInv, TypeOK, RowsGrounded
<1>3. \A c \in Carts : Basket[c][i] \in Nat
  BY BasketAssumption
<1>4. \A b, r \in Nat : b * (1 - r) \in Int
  OBVIOUS
<1>5. Exists(o) => HeldBy(o, i) \in Int
  BY <1>1, <1>3, <1>4 DEF HeldBy
<1>6. Exists(o)' => HeldBy(o, i)' \in Int
  BY <1>2, <1>3, <1>4 DEF HeldBy
<1> QED BY <1>5, <1>6

\* A placement takes from the shelf what its order holds.
LEMMA PlaceAccounts ==
    ASSUME IInv, IInv', StockInv, NEW h \in Handlers, NEW o \in Orders, CommitPlace(h, o)
    PROVE  StockInv'
<1>1. /\ o \notin Placed /\ Placed' = Placed \cup {o}
      /\ \A p \in Orders : p # o => orders'[p] = orders[p]
      /\ orders'[o].cart = req[h].cart /\ req[h].cart \in Carts /\ Exists(o)'
      /\ returned' = returned /\ returned[o] = 0
      /\ stock' = [i \in Items |-> stock[i] - Basket[req[h].cart][i]]
  <2>1. orders \in [Orders -> OrderRows] /\ req[h] \in Placing
    BY RequestKinds DEF IInv, TypeOK, CommitPlace
  <2>2. InitialStatus(req[h].method) # "ABSENT"
    BY DEF InitialStatus
  <2>3. orders' = [orders EXCEPT ![o] =
                   [status |-> InitialStatus(req[h].method), paymentStatus |-> "PENDING",
                    method |-> req[h].method, cart |-> req[h].cart]]
    BY DEF CommitPlace
  <2>4. /\ \A p \in Orders : p # o => orders'[p] = orders[p]
        /\ orders'[o].cart = req[h].cart /\ req[h].cart \in Carts /\ Exists(o)'
    BY <2>1, <2>2, <2>3 DEF Placing, Exists
  <2>5. ~ Exists(o) /\ returned' = returned
        /\ stock' = [i \in Items |-> stock[i] - Basket[req[h].cart][i]]
    BY DEF CommitPlace
  <2>6. o \notin Placed /\ Placed' = Placed \cup {o}
    BY <2>4, <2>5 DEF Placed, Exists
  <2>7. returned[o] = 0
    BY <2>5 DEF StockInv
  <2> QED BY <2>4, <2>5, <2>6, <2>7
<1>2. IsFiniteSet(Placed) /\ IsFiniteSet(Placed')
  BY <1>1, FS_AddElement DEF StockInv
<1>3. ASSUME NEW i \in Items
      PROVE  stock'[i] + Held(i)' = InitialStock[i]
  <2> PICK v : v = [p \in Placed |-> HeldBy(p, i)]
    OBVIOUS
  <2> PICK w : w = [p \in Placed |-> HeldBy(p, i)]'
    OBVIOUS
  <2>1. \A p \in Placed : v[p] = w[p] /\ v[p] \in Int
    BY <1>1, HeldIsNumber DEF HeldBy, Placed
  <2>2. w[o] = Basket[req[h].cart][i] /\ Basket[req[h].cart][i] \in Nat
    <3>1. Basket[req[h].cart][i] \in Nat
      BY <1>1, BasketAssumption
    <3>2. w[o] = Basket[req[h].cart][i] * (1 - 0)
      BY <1>1 DEF HeldBy
    <3> QED BY <3>1, <3>2
  <2> PICK b : b = Basket[req[h].cart][i]
    OBVIOUS
  <2> PICK sum : sum = Sigma(v, Placed)
    OBVIOUS
  <2>3. Sigma(w, Placed') = sum + b
    BY <1>1, <1>2, <2>1, <2>2, SumWithOneMore
  <2>4. sum \in Int
    BY <1>2, <2>1, SumIsInt
  <2>5. Held(i) = sum /\ Held(i)' = sum + b
    BY <1>2, <2>3, HeldIsSum
  <2>6. stock[i] + sum = InitialStock[i] /\ stock[i] \in Nat
    BY <2>5 DEF StockInv, StockAccounted, IInv, TypeOK
  <2>7. stock'[i] = stock[i] - b /\ b \in Nat
    BY <1>1, <2>2
  <2> QED BY <2>4, <2>5, <2>6, <2>7
<1>4. \A p \in Orders : ~ Exists(p)' => returned'[p] = 0
  BY <1>1 DEF StockInv, Exists
<1> QED BY <1>2, <1>3, <1>4 DEF StockInv, StockAccounted

\* A step that places no order and returns nothing leaves the account as it is.
LEMMA QuietAccounts ==
    ASSUME IInv, IInv', StockInv, UNCHANGED <<stock, returned>>,
           \A o \in Orders : Exists(o)' = Exists(o) /\ orders'[o].cart = orders[o].cart
    PROVE  StockInv'
<1>1. Placed' = Placed /\ IsFiniteSet(Placed)
  BY DEF StockInv, Placed
<1>2. ASSUME NEW i \in Items
      PROVE  stock'[i] + Held(i)' = InitialStock[i]
  <2>1. [p \in Placed |-> HeldBy(p, i)]' = [p \in Placed |-> HeldBy(p, i)]
    BY <1>1 DEF HeldBy, Placed
  <2>2. Held(i)' = Held(i)
    BY <1>1, <2>1, HeldIsSum
  <2> QED BY <2>2 DEF StockInv, StockAccounted
<1>3. \A p \in Orders : ~ Exists(p)' => returned'[p] = 0
  BY DEF StockInv
<1> QED BY <1>1, <1>2, <1>3 DEF StockInv, StockAccounted

\* A bad ending puts back what its order held, once more.
LEMMA MoveAccounts ==
    ASSUME IInv, IInv', StockInv, NEW h \in Handlers, CommitMove(h)
    PROVE  StockInv'
<1> DEFINE o == req[h].order
<1>1. /\ o \in Orders /\ Exists(o)
      /\ \A p \in Orders : Exists(p)' = Exists(p) /\ orders'[p].cart = orders[p].cart
  <2>1. req[h] \in Moving /\ req[h].kind = "move" /\ orders \in [Orders -> OrderRows]
    BY RequestKinds DEF IInv, TypeOK, CommitMove, Is
  <2>2. o \in Orders /\ req[h].to # "ABSENT" /\ Exists(o)
    BY <2>1 DEF Moving, IInv, MovesGrounded, OrderStatuses
  <2>3. orders' = [orders EXCEPT
                ![o].status = req[h].to,
                ![o].paymentStatus = IF CollectsCash(req[h]) THEN "PAID" ELSE @]
    BY DEF CommitMove
  <2>4. ASSUME NEW p \in Orders
        PROVE  Exists(p)' = Exists(p) /\ orders'[p].cart = orders[p].cart
    <3>1. orders'[p].cart = orders[p].cart /\ orders'[p].status =
                IF p = o THEN req[h].to ELSE orders[p].status
      BY <2>1, <2>2, <2>3 DEF OrderRows
    <3> QED BY <2>2, <3>1 DEF Exists
  <2> QED BY <2>2, <2>4
<1>2. CASE UNCHANGED <<stock, returned>>
  BY <1>1, <1>2, QuietAccounts
<1>3. CASE Restock(o)
  <2>1. Placed' = Placed /\ IsFiniteSet(Placed) /\ o \in Placed
    BY <1>1 DEF StockInv, Placed
  <2>2. ASSUME NEW i \in Items
        PROVE  stock'[i] + Held(i)' = InitialStock[i]
    <3> PICK v : v = [p \in Placed |-> HeldBy(p, i)]
      OBVIOUS
    <3> PICK w : w = [p \in Placed |-> HeldBy(p, i)]'
      OBVIOUS
    <3>1. \A p \in Placed : v[p] \in Int /\ w[p] \in Int
      BY <1>1, <2>1, HeldIsNumber DEF Placed
    <3>2. \A p \in Placed : p # o => v[p] = w[p]
      BY <1>1, <1>3, <2>1 DEF HeldBy, Placed, Restock
    <3> PICK b : b = Basket[orders[o].cart][i]
      OBVIOUS
    <3> PICK r : r = returned[o]
      OBVIOUS
    <3>3. b \in Nat /\ r \in Nat /\ returned'[o] = r + 1
      <4>1. orders[o].cart \in Carts
        BY <1>1 DEF IInv, RowsGrounded
      <4>2. returned \in [Orders -> Nat]
        BY DEF IInv, TypeOK
      <4> QED BY <1>1, <1>3, <4>1, <4>2, BasketAssumption DEF Restock
    <3>4. v[o] = b * (1 - r) /\ w[o] = b * (1 - (r + 1))
      BY <1>1, <2>1, <3>3 DEF HeldBy
    <3>5. w[o] - v[o] = - b
      <4>1. \A x, y \in Nat : x * (1 - (y + 1)) - x * (1 - y) = - x
        OBVIOUS
      <4>2. b * (1 - (r + 1)) - b * (1 - r) = - b
        BY <3>3, <4>1, Zenon
      <4> QED BY <3>4, <4>2, Zenon
    <3> PICK sum : sum = Sigma(v, Placed)
      OBVIOUS
    <3>6. Sigma(w, Placed) = sum + (w[o] - v[o])
      BY <2>1, <3>1, <3>2, SumOfOneChanged
    <3>7. sum \in Int
      BY <2>1, <3>1, SumIsInt
    <3>8. Held(i) = sum /\ Held(i)' = sum + (- b)
      BY <2>1, <3>5, <3>6, HeldIsSum
    <3>9. stock[i] + sum = InitialStock[i] /\ stock[i] \in Nat
      BY <3>8 DEF StockInv, StockAccounted, IInv, TypeOK
    <3>10. stock'[i] = stock[i] + b
      BY <1>3 DEF Restock
    <3> QED BY <3>3, <3>7, <3>8, <3>9, <3>10
  <2>3. \A p \in Orders : ~ Exists(p)' => returned'[p] = 0
    <3>1. \A p \in Orders : p # o => returned'[p] = returned[p]
      BY <1>3 DEF Restock, IInv, TypeOK
    <3> QED BY <1>1, <3>1 DEF StockInv
  <2> QED BY <2>1, <2>2, <2>3 DEF StockInv, StockAccounted
<1> QED BY <1>2, <1>3, Zenon DEF CommitMove

LEMMA RefundAccounts ==
    ASSUME IInv, IInv', StockInv, NEW h \in Handlers, CommitRefund(h)
    PROVE  StockInv'
<1>1. req[h] \in Refunding /\ orders \in [Orders -> OrderRows]
  BY RequestKinds DEF IInv, TypeOK, CommitRefund, Is
<1> PICK s : orders' = [orders EXCEPT ![req[h].order].paymentStatus = s]
  BY DEF CommitRefund
<1>2. \A o \in Orders : orders'[o].cart = orders[o].cart /\ orders'[o].status = orders[o].status
  BY <1>1 DEF Refunding, OrderRows
<1>3. UNCHANGED <<stock, returned>>
  BY DEF CommitRefund
<1> QED BY <1>2, <1>3, QuietAccounts DEF Exists

LEMMA StockStarts == Init => StockInv
<1> SUFFICES ASSUME Init PROVE StockInv
  OBVIOUS
<1>1. Placed = {} /\ IsFiniteSet(Placed)
  BY FS_EmptySet DEF Init, Placed, Exists, NoOrder
<1>2. ASSUME NEW i \in Items PROVE stock[i] + Held(i) = InitialStock[i]
  <2>1. Held(i) = 0
    BY <1>1, HeldIsSum, SumOfNone
  <2> QED BY <2>1, StockAssumption DEF Init
<1> QED BY <1>1, <1>2 DEF Init, StockInv, StockAccounted

\* The shelf and the orders account for every unit, whatever was placed,
\* cancelled, rejected and failed at once, and however often stock that was
\* returned already is returned again.
THEOREM EveryUnitIsAccounted == Spec => []StockAccounted
<1>1. IInv /\ IInv' /\ StockInv /\ [Next]_vars => StockInv'
  <2> SUFFICES ASSUME IInv, IInv', StockInv, [Next]_vars PROVE StockInv'
    OBVIOUS
  <2>1. CASE UNCHANGED <<orders, stock, returned>>
    BY <2>1, QuietAccounts DEF Exists
  <2>2. ASSUME NEW h \in Handlers, Step(h), ~ UNCHANGED <<orders, stock, returned>>
        PROVE  \/ \E o \in Orders : CommitPlace(h, o)
               \/ CommitMove(h)
               \/ CommitRefund(h)
    BY <2>2, StepKinds DEF PlaceOrder, Accept, BeginMove, Refund, BeginRefund, Abandon, tables
  <2>3. CASE Next
    BY <2>1, <2>2, <2>3, PlaceAccounts, MoveAccounts, RefundAccounts DEF Next
  <2>4. CASE UNCHANGED vars
    BY <2>1, <2>4 DEF vars, tables
  <2> QED BY <2>3, <2>4
<1>2. StockInv => StockAccounted
  BY DEF StockInv
<1> QED BY <1>1, <1>2, StockStarts, Invariance, PTL DEF Spec
=============================================================================
