-------------------------- MODULE Payments_proofs --------------------------
(***************************************************************************)
(* Theorems about orders and payments together, for any number of orders,  *)
(* attempts and concurrent requests: whatever customers, gateways, sweeps, *)
(* staff and operators do to an attempt at the same time.                  *)
(***************************************************************************)
EXTENDS PaymentProperties, FiniteSetTheorems, WellFoundedInduction, TLAPS

(***************************************************************************)
(* The inductive invariant.  What a request carries from one transaction   *)
(* to the next must stay true while others commit, so Sound names the      *)
(* tables it speaks of: os are the orders, ps the payments, gs the gateway.*)
(***************************************************************************)

\* The attempt was opened.
Known(a, ps) == a \in Attempts /\ ps[a].order # NULL

\* The attempt may not be paid any more.
Shut(a, ps) == ps[a].status \notin OPEN_STATUSES

\* No gateway is waited for any more by the order of this attempt.
Released(a, os, ps) ==
    ps[a].method \in ONLINE_METHODS => os[ps[a].order].status # "PENDING_PAYMENT"

CheckoutRequests == [kind : {"checkout"}, step : {"find", "create"},
                     order : Orders, method : CUSTOMER_PAYMENT_METHODS]

TransferRequests == [kind : {"transfer"}, step : {"validated", "reading"},
                     order : Orders, payment : Attempts \cup {NULL}]

\* What the gateway was heard to say of an attempt was its last word, or none.
Told(a, said, gs) == said \in CONCLUSIONS => gs[a] = said

\* What the request r has read is still good for what it will write.
Sound(r, os, ps, gs) ==
    /\ r.kind = "place" => r \in Placing
    /\ r.kind = "move" => r \in Moving /\ r.to # "PENDING_PAYMENT" /\ os[r.order].status # "ABSENT"
    /\ r.kind = "refund" =>
        /\ r \in Refunding
        /\ r.payment # NULL => Known(r.payment, ps) /\ Released(r.payment, os, ps)
    /\ r.kind = "apply" =>
        /\ Known(r.payment, ps)
        /\ Told(r.payment, r.via.said, gs)
    /\ r.kind = "settle" =>
        /\ Known(r.payment, ps)
        /\ gs[r.payment] = "PAID"
        /\ Told(r.payment, r.via.said, gs)
        /\ r.orderStatus # "PENDING_PAYMENT" => Released(r.payment, os, ps)
    /\ r.kind = "fail" =>
        /\ Known(r.payment, ps)
        /\ Told(r.payment, r.via.said, gs)
        /\ r.to \in {"FAILED", "CANCELLED"}
        /\ r.then \in CUSTOMER_PAYMENT_METHODS \cup {NULL}
    /\ r.kind = "resolve" =>
        /\ Known(r.payment, ps)
        /\ Told(r.payment, r.said, gs)
        /\ r.result \in {"RECEIVED", "PROCESSED", "FAILED"}
        /\ r.said \in CONCLUSIONS /\ r.result = "PROCESSED" => Shut(r.payment, ps)
    /\ r.kind = "checkout" => r \in CheckoutRequests /\ os[r.order].status # "ABSENT"
    /\ r.kind = "supersede" =>
        Known(r.payment, ps) /\ r.method \in CUSTOMER_PAYMENT_METHODS
    /\ r.kind = "cash" => Known(r.payment, ps) /\ ps[r.payment].method = CASH
    /\ r.kind = "transfer" =>
        /\ r \in TransferRequests
        /\ os[r.order].status # "ABSENT"
        /\ r.payment # NULL =>
             ps[r.payment].order = r.order /\ ps[r.payment].method = "QR_TRANSFER"

\* What the log may say of an attempt.
CallbackLogs == [Verdicts -> {"NONE", "RECEIVED", "PROCESSED", "FAILED"}]

PayTypes ==
    /\ orders \in [Orders -> OrderRows]
    /\ payments \in [Attempts -> PaymentRows]
    /\ receipts \in [Orders -> Nat]
    /\ refunded \in [Orders -> Nat]
    /\ IsFiniteSet(references)
    /\ gateway \in [Attempts -> {"NONE", "PENDING", "PAID", "FAILED"}]
    /\ inbox \in [Attempts -> CallbackLogs]
    /\ req = [h \in Handlers |-> req[h]]

\* An attempt that was not opened has left nothing anywhere; one that was
\* belongs to an order.
RowsKnown ==
    \A a \in Attempts :
        \/ /\ payments[a] = NoPayment
           /\ gateway[a] = "NONE" /\ inbox[a] = Unheard
           /\ AttemptReference(a) \notin references
        \/ /\ payments[a].order \in Orders
           /\ Exists(payments[a].order)
           /\ payments[a].status # "ABSENT"

\* The log of callbacks holds what the gateway did say.
LogIsTrue ==
    \A a \in Attempts, said \in CONCLUSIONS : inbox[a][said] # "NONE" => gateway[a] = said

\* Ids are handed out in order: only so many have been.
RowsBounded ==
    \E n \in Nat : \A a \in Attempts : payments[a].order # NULL => a <= n

RequestsSound == \A h \in Handlers : Sound(req[h], orders, payments, gateway)

PayInv ==
    /\ PayTypes
    /\ RowsKnown
    /\ LogIsTrue
    /\ RowsBounded
    /\ RequestsSound
    /\ PaidOrderReleased
    /\ ReceiptsMatchReferences
    /\ NoMoneyFromNothing
    /\ ProcessedIsApplied

-----------------------------------------------------------------------------
(* What every step keeps.                                                  *)

\* Orders are never taken back, nor made to wait for money again.
OrdersGoOn ==
    \A o \in Orders : Exists(o) =>
        /\ orders'[o].status # "ABSENT"
        /\ orders[o].status # "PENDING_PAYMENT" => orders'[o].status # "PENDING_PAYMENT"

\* Attempts keep their order and method, and stay closed.
AttemptsGoOn ==
    \A a \in Attempts : payments[a].order # NULL =>
        /\ payments'[a].order = payments[a].order
        /\ payments'[a].method = payments[a].method
        /\ Shut(a, payments) => Shut(a, payments')

\* A row that does exist is not the empty one.
LEMMA KnownRows ==
    ASSUME PayTypes, RowsKnown, NEW a \in Attempts, payments[a].order # NULL
    PROVE  /\ payments[a].order \in Orders
           /\ orders[payments[a].order].status # "ABSENT"
           /\ payments[a].status \in PaymentStatuses
           /\ payments[a].method \in OrderMethods
BY DEF RowsKnown, NoPayment, Exists, PayTypes, PaymentRows

\* What a request has read stays good while others commit.
LEMMA SoundStays ==
    ASSUME PayTypes, RowsKnown, OrdersGoOn, AttemptsGoOn,
           \A a \in Attempts : gateway[a] \in CONCLUSIONS => gateway'[a] = gateway[a],
           NEW r, Sound(r, orders, payments, gateway)
    PROVE  Sound(r, orders', payments', gateway')
<1>1. ASSUME NEW a, Known(a, payments)
      PROVE  /\ a \in Attempts /\ Known(a, payments')
             /\ payments'[a].order = payments[a].order
             /\ payments'[a].method = payments[a].method
             /\ Released(a, orders, payments) => Released(a, orders', payments')
             /\ Shut(a, payments) => Shut(a, payments')
  <2>1. a \in Attempts /\ payments[a].order # NULL
    BY <1>1 DEF Known
  <2>2. payments[a].order \in Orders /\ Exists(payments[a].order)
    BY <2>1, KnownRows DEF Exists
  <2> QED BY <2>1, <2>2 DEF Known, Released, AttemptsGoOn, OrdersGoOn
<1>2. \A o \in Orders : orders[o].status # "ABSENT" => orders'[o].status # "ABSENT"
  BY DEF OrdersGoOn, Exists
<1>3. r.kind \in {"place", "move"} => Sound(r, orders', payments', gateway')
  BY <1>2 DEF Sound, Moving
<1>4. r.kind = "refund" => Sound(r, orders', payments', gateway')
  BY <1>1 DEF Sound
<1>5. r.kind \in {"apply", "settle"} => Sound(r, orders', payments', gateway')
  BY <1>1 DEF Sound, Told, CONCLUSIONS
<1>6. r.kind \in {"fail", "resolve", "supersede", "cash"}
        => Sound(r, orders', payments', gateway')
  BY <1>1 DEF Sound, Told
<1>7. r.kind = "checkout" => Sound(r, orders', payments', gateway')
  BY <1>2 DEF Sound, CheckoutRequests
<1>8. r.kind = "transfer" => Sound(r, orders', payments', gateway')
  <2> SUFFICES ASSUME r.kind = "transfer" PROVE Sound(r, orders', payments', gateway')
    OBVIOUS
  <2>1. /\ r \in TransferRequests /\ orders[r.order].status # "ABSENT"
        /\ r.payment # NULL =>
             payments[r.payment].order = r.order /\ payments[r.payment].method = "QR_TRANSFER"
    BY DEF Sound
  <2>2. r.order \in Orders /\ r.payment \in Attempts \cup {NULL} /\ r.order # NULL
    BY <2>1, NullAssumption DEF TransferRequests
  <2>3. r.payment # NULL => Known(r.payment, payments)
    BY <2>1, <2>2 DEF Known
  <2> QED BY <2>1, <2>2, <2>3, <1>1, <1>2 DEF Sound
<1>9. r.kind \notin {"place", "move", "refund", "apply", "settle", "fail", "resolve",
                    "supersede", "cash", "checkout", "transfer"}
        => Sound(r, orders', payments', gateway')
  BY DEF Sound
<1> QED BY <1>3, <1>4, <1>5, <1>6, <1>7, <1>8, <1>9

-----------------------------------------------------------------------------
(* The ledger.                                                             *)

\* The references of an order's receipts.
Entries(o) ==
    {r \in references :
        r = OrderReference(o) \/ \E a \in AttemptsOf(o) : r = AttemptReference(a)}

\* An attempt never changes hands; only a row that was empty gets an order.
OrdersKept ==
    \A a \in Attempts :
        payments'[a].order = payments[a].order \/ payments[a].order = NULL

LEMMA EntriesKept ==
    ASSUME PayTypes, RowsKnown, OrdersKept, NEW o \in Orders
    PROVE  Entries(o) = {r \in references :
                r = OrderReference(o) \/ \E a \in AttemptsOf(o)' : r = AttemptReference(a)}
<1>1. \A a \in Attempts : payments[a].order = NULL => AttemptReference(a) \notin references
  BY NullAssumption DEF RowsKnown
<1> QED BY <1>1, NullAssumption DEF Entries, AttemptsOf, OrdersKept

LEMMA EntriesCounted ==
    ASSUME PayTypes, NEW o \in Orders
    PROVE  IsFiniteSet(Entries(o)) /\ Cardinality(Entries(o)) \in Nat
<1>1. Entries(o) \in SUBSET references
  BY DEF Entries
<1>2. IsFiniteSet(Entries(o))
  BY <1>1, FS_Subset DEF PayTypes
<1> QED BY <1>2, FS_CardinalityType

LEMMA NothingPosted ==
    ASSUME PayTypes, RowsKnown, OrdersKept, ReceiptsMatchReferences,
           UNCHANGED <<receipts, references>>
    PROVE  ReceiptsMatchReferences'
<1> SUFFICES ASSUME NEW o \in Orders
             PROVE  receipts'[o] = Cardinality({r \in references' :
                r = OrderReference(o) \/ \E a \in AttemptsOf(o)' : r = AttemptReference(a)})
  BY DEF ReceiptsMatchReferences, OrderReference, AttemptReference
<1>1. receipts[o] = Cardinality(Entries(o))
  BY DEF ReceiptsMatchReferences, Entries
<1>2. Entries(o) = {r \in references' :
                r = OrderReference(o) \/ \E a \in AttemptsOf(o)' : r = AttemptReference(a)}
  BY EntriesKept
<1> QED BY <1>1, <1>2

\* The reference belongs to a receipt of the order.
Belongs(ref, o) ==
    \/ ref = OrderReference(o)
    \/ \E a \in AttemptsOf(o) : ref = AttemptReference(a)

LEMMA OnePosted ==
    ASSUME PayTypes, RowsKnown, OrdersKept, ReceiptsMatchReferences,
           NEW o \in Orders, NEW ref, PostReceipt(o, ref), Belongs(ref, o)'
    PROVE  ReceiptsMatchReferences'
<1> DEFINE E(p) == {r \in references' :
                r = OrderReference(p) \/ \E a \in AttemptsOf(p)' : r = AttemptReference(a)}
<1> SUFFICES ASSUME NEW p \in Orders
             PROVE  receipts'[p] = Cardinality(E(p))
  BY DEF ReceiptsMatchReferences, OrderReference, AttemptReference
<1>1. receipts[p] = Cardinality(Entries(p))
  BY DEF ReceiptsMatchReferences, Entries
<1>2. /\ ref \notin references
      /\ references' = references \cup {ref}
      /\ receipts' = [receipts EXCEPT ![o] = @ + 1]
  BY DEF PostReceipt
<1>3. Entries(p) = {r \in references :
                r = OrderReference(p) \/ \E a \in AttemptsOf(p)' : r = AttemptReference(a)}
  BY EntriesKept
<1>4. CASE p = o
  <2>1. E(p) = Entries(p) \cup {ref}
    BY <1>2, <1>3, <1>4 DEF Belongs, OrderReference, AttemptReference
  <2>2. ref \notin Entries(p)
    BY <1>2 DEF Entries
  <2>3. Cardinality(E(p)) = Cardinality(Entries(p)) + 1
    BY <2>1, <2>2, EntriesCounted, FS_AddElement
  <2> QED BY <2>3, <1>1, <1>2, <1>4 DEF PayTypes
<1>5. CASE p # o
  <2>1. ~ (ref = OrderReference(p) \/ \E a \in AttemptsOf(p)' : ref = AttemptReference(a))
    BY <1>5 DEF Belongs, AttemptsOf, OrderReference, AttemptReference
  <2>2. E(p) = Entries(p)
    BY <1>2, <1>3, <2>1
  <2> QED BY <2>2, <1>1, <1>2, <1>5 DEF PayTypes
<1> QED BY <1>4, <1>5

-----------------------------------------------------------------------------
(* What a step must show.                                                  *)

\* A row that the step writes belongs to an order afterwards; if it was not
\* new it is still the same attempt, and paid online it frees its order.
RowsWritten ==
    \A a \in Attempts :
        \/ payments'[a] = payments[a]
        \/ /\ payments'[a].order \in Orders
           /\ orders'[payments'[a].order].status # "ABSENT"
           /\ payments'[a].status # "ABSENT"
           /\ payments[a].order # NULL =>
                /\ payments'[a].order = payments[a].order
                /\ payments'[a].method = payments[a].method
                /\ Shut(a, payments) => Shut(a, payments')
           /\ payments'[a].status \in SETTLED_STATUSES => Released(a, orders', payments')

\* Money enters the ledger for an attempt of the order, and for one of a
\* gateway only when that has collected it.
Collects(o, ref) ==
    /\ PostReceipt(o, ref)
    /\ \/ ref = OrderReference(o)
       \/ \E a \in Attempts :
            /\ ref = AttemptReference(a)
            /\ payments'[a].order = o
            /\ payments'[a].method \in ONLINE_METHODS => gateway'[a] = "PAID"

MoneyWritten ==
    \/ UNCHANGED <<receipts, references>>
    \/ \E o \in Orders : \E ref : Collects(o, ref)

\* Gateway and callback log only speak of attempts that were opened.
OutsideWritten ==
    \A a \in Attempts :
        /\ \/ gateway'[a] = gateway[a]
           \/ payments'[a].order # NULL /\ gateway[a] \notin CONCLUSIONS
        /\ \/ inbox'[a] = inbox[a]
           \/ /\ payments'[a].order # NULL
              /\ \A said \in CONCLUSIONS :
                    inbox'[a][said] # inbox[a][said] =>
                        /\ inbox'[a][said] = "PROCESSED" => Shut(a, payments')
                        /\ gateway'[a] = said

RequestsWritten ==
    \A h \in Handlers :
        req'[h] = req[h] \/ Sound(req'[h], orders', payments', gateway')

Written == RowsWritten /\ MoneyWritten /\ OutsideWritten /\ RequestsWritten

LEMMA WrittenRows ==
    ASSUME PayTypes, RowsKnown, RowsWritten
    PROVE  OrdersKept /\ AttemptsGoOn
BY DEF RowsWritten, OrdersKept, AttemptsGoOn, Shut

LEMMA WrittenKnown ==
    ASSUME PayTypes, RowsKnown, OrdersGoOn, Written
    PROVE  RowsKnown'
<1> SUFFICES ASSUME NEW a \in Attempts
             PROVE  \/ /\ payments'[a] = NoPayment
                       /\ gateway'[a] = "NONE" /\ inbox'[a] = Unheard
                       /\ AttemptReference(a) \notin references'
                    \/ /\ payments'[a].order \in Orders
                       /\ orders'[payments'[a].order].status # "ABSENT"
                       /\ payments'[a].status # "ABSENT"
  BY DEF RowsKnown, Exists, AttemptReference
<1>1. CASE payments'[a] = payments[a] /\ payments[a].order # NULL
  <2>1. payments[a].order \in Orders /\ Exists(payments[a].order) /\ payments[a].status # "ABSENT"
    BY <1>1 DEF RowsKnown, NoPayment
  <2> QED BY <1>1, <2>1 DEF OrdersGoOn
<1>2. CASE payments'[a] = payments[a] /\ payments[a].order = NULL
  <2>1. /\ payments[a] = NoPayment /\ gateway[a] = "NONE" /\ inbox[a] = Unheard
        /\ AttemptReference(a) \notin references
    BY <1>2, NullAssumption DEF RowsKnown
  <2>2. gateway'[a] = "NONE" /\ inbox'[a] = Unheard
    BY <1>2, <2>1 DEF Written, OutsideWritten
  <2>3. AttemptReference(a) \notin references'
    <3>1. CASE UNCHANGED <<receipts, references>>
      BY <3>1, <2>1
    <3>2. ASSUME NEW o \in Orders, NEW ref, Collects(o, ref)
          PROVE  AttemptReference(a) \notin references'
      <4>1. ref # AttemptReference(a)
        BY <1>2, <3>2, NullAssumption DEF Collects, OrderReference, AttemptReference
      <4> QED BY <2>1, <3>2, <4>1 DEF Collects, PostReceipt
    <3> QED BY <3>1, <3>2 DEF Written, MoneyWritten
  <2> QED BY <1>2, <2>1, <2>2, <2>3
<1>3. CASE payments'[a] # payments[a]
  BY <1>3 DEF Written, RowsWritten
<1> QED BY <1>1, <1>2, <1>3

LEMMA WrittenMoney ==
    ASSUME PayTypes, RowsKnown, ReceiptsMatchReferences, NoMoneyFromNothing, Written
    PROVE  ReceiptsMatchReferences' /\ NoMoneyFromNothing'
<1>1. OrdersKept /\ AttemptsGoOn
  BY WrittenRows DEF Written
<1>2. \A a \in Attempts : AttemptReference(a) \in references =>
        payments[a].order # NULL
  BY NullAssumption DEF RowsKnown
<1>3. \A a \in Attempts : gateway[a] = "PAID" => gateway'[a] = "PAID"
  BY DEF Written, OutsideWritten, CONCLUSIONS
<1>4. \A a \in Attempts :
        AttemptReference(a) \in references /\ payments'[a].method \in ONLINE_METHODS
          => gateway'[a] = "PAID"
  BY <1>1, <1>2, <1>3 DEF NoMoneyFromNothing, Online, AttemptsGoOn
<1>5. CASE UNCHANGED <<receipts, references>>
  <2>1. ReceiptsMatchReferences'
    BY <1>1, <1>5, NothingPosted
  <2>2. NoMoneyFromNothing'
    BY <1>4, <1>5 DEF NoMoneyFromNothing, Online, AttemptReference
  <2> QED BY <2>1, <2>2
<1>6. ASSUME NEW o \in Orders, NEW ref, Collects(o, ref)
      PROVE  ReceiptsMatchReferences' /\ NoMoneyFromNothing'
  <2>1. ReceiptsMatchReferences'
    <3>1. Belongs(ref, o)'
      BY <1>6 DEF Collects, Belongs, AttemptsOf, OrderReference, AttemptReference
    <3> QED BY <1>1, <1>6, <3>1, OnePosted DEF Collects
  <2>2. references' = references \cup {ref}
    BY <1>6 DEF Collects, PostReceipt
  <2>3. ASSUME NEW a \in Attempts, payments'[a].method \in ONLINE_METHODS,
               ref = AttemptReference(a)
        PROVE  gateway'[a] = "PAID"
    BY <1>6, <2>3 DEF Collects, OrderReference, AttemptReference
  <2>4. NoMoneyFromNothing'
    BY <1>4, <2>2, <2>3 DEF NoMoneyFromNothing, Online, AttemptReference
  <2> QED BY <2>1, <2>4
<1> QED BY <1>5, <1>6 DEF Written, MoneyWritten

\* A step that writes rows, money, outside tables and requests so keeps all.
LEMMA WrittenKeeps ==
    ASSUME PayTypes, PayTypes', RowsKnown, RequestsSound, PaidOrderReleased,
           ReceiptsMatchReferences, NoMoneyFromNothing, ProcessedIsApplied, LogIsTrue,
           OrdersGoOn, Written
    PROVE  /\ RowsKnown' /\ RequestsSound' /\ PaidOrderReleased'
           /\ ReceiptsMatchReferences' /\ NoMoneyFromNothing' /\ ProcessedIsApplied'
           /\ LogIsTrue'
<1>1. OrdersKept /\ AttemptsGoOn
  BY WrittenRows DEF Written
<1>2. \A a \in Attempts : gateway[a] \in CONCLUSIONS => gateway'[a] = gateway[a]
  BY DEF Written, OutsideWritten
<1>3. RequestsSound'
  BY <1>1, <1>2, SoundStays DEF RequestsSound, Written, RequestsWritten
<1>4. PaidOrderReleased'
  <2> SUFFICES ASSUME NEW a \in Attempts, payments'[a].method \in ONLINE_METHODS,
                      payments'[a].status \in SETTLED_STATUSES
               PROVE  orders'[payments'[a].order].status # "PENDING_PAYMENT"
    BY DEF PaidOrderReleased, Online, IsSettled, OrderOf
  <2>1. CASE payments'[a] = payments[a]
    <3>1. orders[payments[a].order].status # "PENDING_PAYMENT"
      BY <2>1 DEF PaidOrderReleased, Online, IsSettled, OrderOf
    <3>2. payments[a].order \in Orders /\ Exists(payments[a].order)
      BY <2>1 DEF RowsKnown, NoPayment, SETTLED_STATUSES
    <3> QED BY <2>1, <3>1, <3>2 DEF OrdersGoOn
  <2>2. CASE payments'[a] # payments[a]
    BY <2>2 DEF Written, RowsWritten, Released
  <2> QED BY <2>1, <2>2
<1>5. ProcessedIsApplied'
  <2> SUFFICES ASSUME NEW a \in Attempts, NEW said \in CONCLUSIONS,
                      inbox'[a][said] = "PROCESSED"
               PROVE  Shut(a, payments')
    BY DEF ProcessedIsApplied, IsOpen, Shut
  <2>1. CASE inbox[a][said] = "PROCESSED"
    <3>1. said \in Verdicts
      BY DEF CONCLUSIONS, Verdicts
    <3>2. payments[a].order # NULL /\ Shut(a, payments)
      BY <2>1, <3>1, NullAssumption DEF RowsKnown, Unheard, ProcessedIsApplied, IsOpen, Shut
    <3> QED BY <3>2, <1>1 DEF AttemptsGoOn
  <2>2. CASE inbox[a][said] # "PROCESSED"
    BY <2>2 DEF Written, OutsideWritten
  <2> QED BY <2>1, <2>2
<1>6. LogIsTrue'
  BY DEF LogIsTrue, Written, OutsideWritten
<1> QED BY <1>3, <1>4, <1>5, <1>6, WrittenKnown, WrittenMoney

\* At most one row is new.
OneNew ==
    \E b \in Nat : \A a \in Attempts :
        payments'[a].order # NULL => a = b \/ payments[a].order # NULL

LEMMA BoundKept ==
    ASSUME RowsBounded, OneNew
    PROVE  RowsBounded'
<1> PICK n \in Nat : \A a \in Attempts : payments[a].order # NULL => a <= n
  BY DEF RowsBounded
<1> PICK b \in Nat : \A a \in Attempts :
        payments'[a].order # NULL => a = b \/ payments[a].order # NULL
  BY DEF OneNew
<1> DEFINE top == IF n < b THEN b ELSE n
<1>1. top \in Nat /\ \A a \in Attempts : payments'[a].order # NULL => a <= top
  BY AttemptAssumption
<1> QED BY <1>1 DEF RowsBounded

LEMMA PayInvKept ==
    ASSUME PayInv, PayTypes', OrdersGoOn, Written, OneNew
    PROVE  PayInv'
BY WrittenKeeps, BoundKept DEF PayInv

\* The handler goes on with a request that is sound.
GoesOn(h, os, ps, gs) ==
    \E r : req' = [req EXCEPT ![h] = r] /\ Sound(r, os, ps, gs)

LEMMA RequestTyped ==
    ASSUME PayTypes, NEW h \in Handlers, NEW os, NEW ps, NEW gs, GoesOn(h, os, ps, gs)
    PROVE  /\ req' = [k \in Handlers |-> req'[k]]
           /\ \A k \in Handlers : req'[k] = req[k] \/ Sound(req'[k], os, ps, gs)
BY DEF PayTypes, GoesOn

LEMMA IdleSound ==
    ASSUME NEW os, NEW ps, NEW gs
    PROVE  Sound(Idle, os, ps, gs)
BY DEF Sound, Idle

LEMMA FinishGoesOn ==
    ASSUME NEW h \in Handlers, NEW os, NEW ps, NEW gs, Finish(h)
    PROVE  GoesOn(h, os, ps, gs)
BY IdleSound DEF Finish, GoesOn

\* A step that writes no table but the log of redeliveries.
LEMMA QuietKept ==
    ASSUME PayInv, NEW h \in Handlers, GoesOn(h, orders, payments, gateway),
           UNCHANGED <<tables, gateway, inbox>>
    PROVE  PayInv'
<1>1. /\ req' = [k \in Handlers |-> req'[k]]
      /\ \A k \in Handlers : req'[k] = req[k] \/ Sound(req'[k], orders, payments, gateway)
  BY RequestTyped DEF PayInv
<1>2. PayTypes'
  BY <1>1 DEF PayInv, PayTypes, tables
<1>3. OrdersGoOn
  BY DEF OrdersGoOn, tables, Exists
<1>4. Written
  BY <1>1 DEF Written, RowsWritten, MoneyWritten, OutsideWritten, RequestsWritten, tables
<1>5. OneNew
  BY DEF OneNew, tables
<1> QED BY <1>2, <1>3, <1>4, <1>5, PayInvKept

\* A request that is over, or has an outcome to record.
LEMMA DoneGoesOn ==
    ASSUME NEW h \in Handlers, NEW os, NEW ps, NEW gs, NEW a, NEW via, NEW result,
           Known(a, ps), result \in {"RECEIVED", "PROCESSED", "FAILED"},
           via.said \in CONCLUSIONS /\ result = "PROCESSED" => Shut(a, ps),
           Told(a, via.said, gs),
           Done(h, a, via, result)
    PROVE  GoesOn(h, os, ps, gs)
<1> DEFINE r == [kind |-> "resolve", payment |-> a, said |-> via.said, result |-> result]
<1>1. Sound(r, os, ps, gs)
  BY DEF Sound
<1>2. req' = [req EXCEPT ![h] = r] \/ req' = [req EXCEPT ![h] = Idle]
  BY DEF Done
<1> HIDE DEF r
<1> QED BY <1>1, <1>2, IdleSound DEF GoesOn

LEMMA SettleGoesOn ==
    ASSUME PayInv, NEW h \in Handlers, NEW a \in Attempts, NEW via,
           Known(a, payments), Told(a, via.said, gateway), gateway[a] = "PAID",
           BeginSettle(h, a, via)
    PROVE  GoesOn(h, orders, payments, gateway)
<1>1. CASE payments[a].status \in SETTLED_STATUSES /\ Done(h, a, via, "PROCESSED")
  BY <1>1, DoneGoesOn DEF Shut, SETTLED_STATUSES, OPEN_STATUSES
<1>2. CASE Done(h, a, via, "FAILED")
  BY <1>2, DoneGoesOn
<1>3. CASE Reading(h, [kind |-> "settle", payment |-> a, via |-> via,
                       orderStatus |-> orders[payments[a].order].status])
  <2> DEFINE r == [kind |-> "settle", payment |-> a, via |-> via,
                   orderStatus |-> orders[payments[a].order].status]
  <2>1. Sound(r, orders, payments, gateway)
    BY DEF Sound, Released
  <2>2. req' = [req EXCEPT ![h] = r]
    BY <1>3 DEF Reading
  <2> HIDE DEF r
  <2> QED BY <2>1, <2>2 DEF GoesOn
<1> QED BY <1>1, <1>2, <1>3 DEF BeginSettle

\* What is over for the table of statuses is over for the customer.
LEMMA TerminalIsShut ==
    ASSUME NEW a, NEW ps, IsTerminalPayment(ps[a].status)
    PROVE  Shut(a, ps)
BY DEF Shut, IsTerminalPayment, PAYMENT_TRANSITIONS, OPEN_STATUSES

LEMMA AfterFailGoesOn ==
    ASSUME NEW h \in Handlers, NEW os, NEW ps, NEW gs, NEW a, NEW via,
           NEW then \in CUSTOMER_PAYMENT_METHODS \cup {NULL},
           Known(a, ps), Shut(a, ps), Told(a, via.said, gs),
           payments[a].order \in Orders, os[payments[a].order].status # "ABSENT",
           AfterFail(h, a, via, then)
    PROVE  GoesOn(h, os, ps, gs)
<1>1. CASE then = NULL
  BY <1>1, DoneGoesOn DEF AfterFail
<1>2. CASE then # NULL
  <2> DEFINE r == [kind |-> "checkout", step |-> "create",
                   order |-> payments[a].order, method |-> then]
  <2>1. r \in CheckoutRequests
    BY <1>2 DEF CheckoutRequests
  <2>2. Sound(r, os, ps, gs)
    BY <2>1 DEF Sound
  <2>3. req' = [req EXCEPT ![h] = r]
    BY <1>2 DEF AfterFail, Reading
  <2> HIDE DEF r
  <2> QED BY <2>2, <2>3 DEF GoesOn
<1> QED BY <1>1, <1>2

LEMMA FailGoesOn ==
    ASSUME PayInv, NEW h \in Handlers, NEW a \in Attempts, NEW to \in {"FAILED", "CANCELLED"},
           NEW failOrder, NEW via, NEW then \in CUSTOMER_PAYMENT_METHODS \cup {NULL},
           Known(a, payments), Told(a, via.said, gateway),
           BeginFail(h, a, to, failOrder, via, then)
    PROVE  GoesOn(h, orders, payments, gateway)
<1>1. payments[a].order \in Orders /\ orders[payments[a].order].status # "ABSENT"
  BY KnownRows DEF PayInv, Known
<1>2. CASE Done(h, a, via, "FAILED")
  BY <1>2, DoneGoesOn
<1>3. CASE IsTerminalPayment(payments[a].status) /\ AfterFail(h, a, via, then)
  BY <1>1, <1>3, TerminalIsShut, AfterFailGoesOn
<1>4. CASE Reading(h, [kind |-> "fail", payment |-> a, to |-> to,
                       failOrder |-> failOrder, via |-> via, then |-> then,
                       orderStatus |-> orders[payments[a].order].status])
  <2> DEFINE r == [kind |-> "fail", payment |-> a, to |-> to,
                   failOrder |-> failOrder, via |-> via, then |-> then,
                   orderStatus |-> orders[payments[a].order].status]
  <2>1. Sound(r, orders, payments, gateway)
    BY DEF Sound
  <2>2. req' = [req EXCEPT ![h] = r]
    BY <1>4 DEF Reading
  <2> HIDE DEF r
  <2> QED BY <2>1, <2>2 DEF GoesOn
<1> QED BY <1>2, <1>3, <1>4 DEF BeginFail

LEMMA ApplyGoesOn ==
    ASSUME PayInv, NEW h \in Handlers, NEW a \in Attempts, NEW verdict, NEW via,
           Known(a, payments), Told(a, via.said, gateway),
           verdict = "PAID" => gateway[a] = "PAID",
           verdict = "PENDING" => via.said \notin CONCLUSIONS,
           Apply(h, a, verdict, via)
    PROVE  GoesOn(h, orders, payments, gateway)
<1>1. CASE verdict = "PAID" /\ BeginSettle(h, a, via)
  BY <1>1, SettleGoesOn
<1>2. CASE payments[a].status \in SETTLED_STATUSES /\ Done(h, a, via, "PROCESSED")
  BY <1>2, DoneGoesOn DEF Shut, SETTLED_STATUSES, OPEN_STATUSES
<1>3. CASE BeginFail(h, a, "FAILED", FALSE, via, NULL)
  BY <1>3, FailGoesOn
<1>4. CASE verdict = "PENDING" /\ Done(h, a, via, "PROCESSED")
  BY <1>4, DoneGoesOn
<1> QED BY <1>1, <1>2, <1>3, <1>4 DEF Apply

-----------------------------------------------------------------------------
(* Steps that write no table.                                              *)

\* The table never leads to waiting for payment.
LEMMA NeverHeldAgain ==
    ASSUME NEW actor, NEW from, NEW to, MayMove(actor, from, to)
    PROVE  from \in OrderStatuses /\ to \in OrderStatuses /\ to # "PENDING_PAYMENT"
BY DEF MayMove, ORDER_TRANSITIONS, OrderStatuses

LEMMA MoveStarts ==
    ASSUME PayInv, NEW h \in Handlers, NEW o \in Orders, NEW to \in OrderStatuses, Exists(o),
           to # "PENDING_PAYMENT", StartMove(h, o, to), UNCHANGED <<tables, gateway, inbox>>
    PROVE  PayInv'
<1> DEFINE r == [kind |-> "move", step |-> "validated", order |-> o,
                 from |-> orders[o].status, to |-> to, method |-> orders[o].method]
<1>1. orders[o].status \in OrderStatuses /\ orders[o].method \in OrderMethods
  BY DEF PayInv, PayTypes, Exists, OrderRows
<1>2. Sound(r, orders, payments, gateway)
  BY <1>1 DEF Sound, Moving, Exists
<1>3. req' = [req EXCEPT ![h] = r]
  BY DEF StartMove
<1> HIDE DEF r
<1> QED BY <1>2, <1>3, QuietKept DEF GoesOn

LEMMA OrderRequestsBegin ==
    ASSUME PayInv, NEW h \in Handlers, UNCHANGED outside,
           \/ \E c \in Carts, m \in PlacedWith : PlaceOrder(h, c, m)
           \/ \E o \in Orders, to \in OrderStatuses, as \in CallerTypes : Advance(h, o, to, as)
           \/ \E o \in Orders, as \in CallerTypes : Cancel(h, o, as)
           \/ \E o \in Orders, amount \in 1 .. Total : Refund(h, o, amount)
    PROVE  PayInv'
<1>1. UNCHANGED <<gateway, inbox>>
  BY DEF outside
<1>2. ASSUME NEW c \in Carts, NEW m \in PlacedWith, PlaceOrder(h, c, m) PROVE PayInv'
  <2> DEFINE r == [kind |-> "place", cart |-> c, method |-> m]
  <2>1. Sound(r, orders, payments, gateway)
    BY DEF Sound, Placing
  <2>2. req' = [req EXCEPT ![h] = r] /\ UNCHANGED tables
    BY <1>2 DEF PlaceOrder
  <2> HIDE DEF r
  <2> QED BY <1>1, <2>1, <2>2, QuietKept DEF GoesOn
<1>3. ASSUME NEW o \in Orders, NEW to \in OrderStatuses, NEW as \in CallerTypes,
             Advance(h, o, to, as)
      PROVE  PayInv'
  BY <1>1, <1>3, NeverHeldAgain, MoveStarts DEF Advance
<1>4. ASSUME NEW o \in Orders, NEW as \in CallerTypes, Cancel(h, o, as) PROVE PayInv'
  BY <1>1, <1>4, NeverHeldAgain, MoveStarts DEF Cancel
<1>5. ASSUME NEW o \in Orders, NEW amount \in 1 .. Total, Refund(h, o, amount) PROVE PayInv'
  <2> PICK a \in IF PaidAttempts(o) = {} THEN {NULL} ELSE PaidAttempts(o) :
        req' = [req EXCEPT ![h] =
            [kind |-> "refund", step |-> "validated", order |-> o,
             payment |-> a, amount |-> amount, sum |-> 0]]
    BY <1>5 DEF Refund
  <2> DEFINE r == [kind |-> "refund", step |-> "validated", order |-> o,
                   payment |-> a, amount |-> amount, sum |-> 0]
  <2>1. a = NULL \/ a \in PaidAttempts(o)
    OBVIOUS
  <2>2. a # NULL => Known(a, payments) /\ Released(a, orders, payments)
    BY <2>1, NullAssumption
       DEF PaidAttempts, Known, Released, PayInv, PaidOrderReleased, Online, IsSettled, OrderOf,
           SETTLED_STATUSES
  <2>3. r \in Refunding
    BY <2>1 DEF Refunding, PaidAttempts
  <2>4. r.kind = "refund" /\ r.payment = a
    OBVIOUS
  <2>5. req' = [req EXCEPT ![h] = r] /\ UNCHANGED tables
    BY <1>5 DEF Refund
  <2> HIDE DEF r
  <2>6. Sound(r, orders, payments, gateway)
    BY <2>2, <2>3, <2>4 DEF Sound
  <2> QED BY <1>1, <2>5, <2>6, QuietKept DEF GoesOn
<1> QED BY <1>2, <1>3, <1>4, <1>5

LEMMA OrderRequestsRead ==
    ASSUME PayInv, NEW h \in Handlers, UNCHANGED outside,
           BeginMove(h) \/ BeginRefund(h) \/ Abandon(h)
    PROVE  PayInv'
<1>1. Sound(req[h], orders, payments, gateway) /\ UNCHANGED <<gateway, inbox>>
  BY DEF PayInv, RequestsSound, outside
<1>2. ASSUME BeginMove(h) PROVE PayInv'
  <2> DEFINE r == [req[h] EXCEPT !.step = "reading", !.method = orders[req[h].order].method]
  <2>1. req[h] \in Moving /\ req[h].to # "PENDING_PAYMENT" /\ req[h].order \in Orders
        /\ orders[req[h].order].status # "ABSENT"
    BY <1>1, <1>2 DEF BeginMove, Is, Sound, Moving
  <2>2. orders[req[h].order].method \in OrderMethods
    BY <2>1 DEF PayInv, PayTypes, OrderRows
  <2>3. /\ r \in Moving /\ r.to = req[h].to /\ r.kind = "move" /\ r.order = req[h].order
    BY <2>1, <2>2 DEF Moving
  <2>4. req' = [req EXCEPT ![h] = r] /\ UNCHANGED tables
    BY <1>2 DEF BeginMove, PayInv, PayTypes
  <2> HIDE DEF r
  <2>5. Sound(r, orders, payments, gateway)
    BY <2>1, <2>3 DEF Sound
  <2> QED BY <1>1, <2>4, <2>5, QuietKept DEF GoesOn
<1>3. ASSUME BeginRefund(h) PROVE PayInv'
  <2> DEFINE r == [req[h] EXCEPT !.step = "reading", !.sum = refunded[req[h].order]]
  <2>1. /\ req[h] \in Refunding
        /\ req[h].payment # NULL =>
             Known(req[h].payment, payments) /\ Released(req[h].payment, orders, payments)
    BY <1>1, <1>3 DEF BeginRefund, Is, Sound
  <2>2. r.payment = req[h].payment /\ r.kind = "refund" /\ r \in Refunding
    BY <2>1 DEF Refunding, PayInv, PayTypes
  <2>3. req' = [req EXCEPT ![h] = r] /\ UNCHANGED tables
    BY <1>3 DEF BeginRefund, PayInv, PayTypes
  <2> HIDE DEF r
  <2>4. Sound(r, orders, payments, gateway)
    BY <2>1, <2>2 DEF Sound
  <2> QED BY <1>1, <2>3, <2>4, QuietKept DEF GoesOn
<1>4. ASSUME Abandon(h) PROVE PayInv'
  BY <1>1, <1>4, FinishGoesOn, QuietKept DEF Abandon
<1> QED BY <1>2, <1>3, <1>4

\* Whatever shows that an attempt was opened.
LEMMA OpenedIsKnown ==
    ASSUME PayInv, NEW a \in Attempts,
           payments[a] # NoPayment \/ IsOpen(a) \/ inbox[a] # Unheard \/ gateway[a] # "NONE"
    PROVE  Known(a, payments)
<1>1. payments[a].order \in Orders
  BY DEF PayInv, RowsKnown, IsOpen, NoPayment, OPEN_STATUSES
<1> QED BY <1>1, NullAssumption DEF Known

\* A request that serves no callback reports nothing the gateway said.
LEMMA NothingTold ==
    ASSUME NEW a, NEW gs
    PROVE  Told(a, OnRequest.said, gs)
BY DEF Told, OnRequest, CONCLUSIONS

LEMMA CallbackRequests ==
    ASSUME PayInv, NEW h \in Handlers,
           \/ ApplyCallback(h)
           \/ \E a \in Attempts : ReplayCallback(h, a) \/ VerifyPayment(h, a)
           \/ RefuseSettle(h)
    PROVE  PayInv'
<1>1. Sound(req[h], orders, payments, gateway)
  BY DEF PayInv, RequestsSound
<1>2. ASSUME ApplyCallback(h) PROVE PayInv'
  <2> DEFINE a == req[h].payment
             via == req[h].via
  <2>1. /\ Known(a, payments) /\ Told(a, via.said, gateway)
        /\ UNCHANGED <<tables, gateway, inbox>>
    BY <1>1, <1>2 DEF ApplyCallback, Sound, outside
  <2>2. \/ \E verdict \in {via.said, gateway[a]} : Apply(h, a, verdict, via)
        \/ Done(h, a, via, "RECEIVED")
    BY <1>2 DEF ApplyCallback
  <2> HIDE DEF a, via
  <2>3. ASSUME NEW verdict \in {via.said, gateway[a]}, Apply(h, a, verdict, via)
        PROVE  GoesOn(h, orders, payments, gateway)
    <3>1. verdict = "PAID" => gateway[a] = "PAID"
      BY <2>1 DEF Told, CONCLUSIONS
    <3>2. verdict = "PENDING" => via.said \notin CONCLUSIONS
      BY <2>1 DEF Told, CONCLUSIONS
    <3> QED BY <2>1, <2>3, <3>1, <3>2, ApplyGoesOn DEF Known
  <2>4. ASSUME Done(h, a, via, "RECEIVED") PROVE GoesOn(h, orders, payments, gateway)
    BY <2>1, <2>4, DoneGoesOn
  <2> QED BY <2>1, <2>2, <2>3, <2>4, QuietKept
<1>3. ASSUME NEW a \in Attempts, ReplayCallback(h, a) PROVE PayInv'
  <2> PICK said \in Verdicts :
        /\ inbox[a][said] # "NONE"
        /\ Reading(h, [kind |-> "apply", payment |-> a,
                       via |-> [by |-> "replay", said |-> said]])
    BY <1>3 DEF ReplayCallback
  <2> DEFINE r == [kind |-> "apply", payment |-> a,
                   via |-> [by |-> "replay", said |-> said]]
  <2>1. Known(a, payments)
    BY OpenedIsKnown DEF Unheard
  <2>2. Sound(r, orders, payments, gateway)
    BY <2>1 DEF Sound, Told, PayInv, LogIsTrue
  <2>3. req' = [req EXCEPT ![h] = r] /\ UNCHANGED <<tables, gateway, inbox>>
    BY <1>3 DEF ReplayCallback, Reading, outside
  <2> HIDE DEF r
  <2> QED BY <2>2, <2>3, QuietKept DEF GoesOn
<1>4. ASSUME NEW a \in Attempts, VerifyPayment(h, a) PROVE PayInv'
  <2>1. Known(a, payments)
    BY <1>4, OpenedIsKnown DEF VerifyPayment
  <2> DEFINE via == [by |-> "poll", said |-> gateway[a]]
  <2>2. Apply(h, a, gateway[a], via) /\ UNCHANGED <<tables, gateway, inbox>>
    BY <1>4 DEF VerifyPayment, outside
  <2>3. Told(a, via.said, gateway) /\ via.said = gateway[a]
    BY DEF Told
  <2>4. gateway[a] = "PENDING" => via.said \notin CONCLUSIONS
    BY DEF CONCLUSIONS
  <2> HIDE DEF via
  <2>5. GoesOn(h, orders, payments, gateway)
    BY <2>1, <2>2, <2>3, <2>4, ApplyGoesOn
  <2> QED BY <2>2, <2>5, QuietKept
<1>5. ASSUME RefuseSettle(h) PROVE PayInv'
  <2>1. /\ Known(req[h].payment, payments) /\ Done(h, req[h].payment, req[h].via, "FAILED")
        /\ UNCHANGED <<tables, gateway, inbox>>
    BY <1>1, <1>5 DEF RefuseSettle, Sound, outside
  <2>2. Told(req[h].payment, req[h].via.said, gateway)
    BY <1>1, <1>5 DEF RefuseSettle, Sound
  <2>3. GoesOn(h, orders, payments, gateway)
    BY <2>1, <2>2, DoneGoesOn
  <2> QED BY <2>1, <2>3, QuietKept
<1> QED BY <1>2, <1>3, <1>4, <1>5

\* The greatest of the attempts that were opened is one of them.
LEMMA NewestIsOne ==
    ASSUME RowsBounded, NEW S \in SUBSET Attempts, S # {},
           \A a \in S : payments[a].order # NULL
    PROVE  Max(S) \in S
<1> PICK n \in Nat : \A a \in Attempts : payments[a].order # NULL => a <= n
  BY DEF RowsBounded
<1> DEFINE Above == {u \in Nat : \A a \in S : a <= u}
<1>1. n \in Above
  OBVIOUS
<1>2. Above \subseteq Nat
  OBVIOUS
<1>3. PICK u \in Above : \A v \in Above : <<v, u>> \notin OpToRel(<, Nat)
  BY <1>1, <1>2, NatLessThanWellFounded, WFMin, Zenon
<1>4. \A v \in Above : ~ v < u
  BY <1>2, <1>3 DEF OpToRel
<1>5. u \in S
  <2> SUFFICES ASSUME u \notin S PROVE FALSE
    OBVIOUS
  <2> PICK a \in S : TRUE
    OBVIOUS
  <2>1. \A b \in S : b \in Nat /\ b <= u - 1
    BY AttemptAssumption
  <2>2. u - 1 \in Nat
    BY <2>1
  <2>3. u - 1 \in Above
    BY <2>1, <2>2
  <2> QED BY <1>4, <2>3
<1>6. \A a \in S : u >= a
  BY AttemptAssumption
<1> QED BY <1>5, <1>6 DEF Max

LEMMA CheckoutRequestsGoOn ==
    ASSUME PayInv, NEW h \in Handlers,
           \/ \E o \in Orders, m \in PlacedWith : StartCheckout(h, o, m)
           \/ FindOpenAttempt(h)
           \/ Supersede(h)
           \/ \E a \in Attempts :
                CancelCheckout(h, a) \/ ExpirePayment(h, a) \/ FailPaymentAdmin(h, a)
    PROVE  PayInv'
<1>1. Sound(req[h], orders, payments, gateway)
  BY DEF PayInv, RequestsSound
<1>2. ASSUME NEW o \in Orders, NEW m \in PlacedWith, StartCheckout(h, o, m) PROVE PayInv'
  <2> DEFINE r == [kind |-> "checkout", step |-> "find", order |-> o, method |-> m]
  <2>1. Sound(r, orders, payments, gateway)
    BY <1>2, MethodAssumption DEF StartCheckout, Sound, CheckoutRequests
  <2>2. req' = [req EXCEPT ![h] = r] /\ UNCHANGED <<tables, gateway, inbox>>
    BY <1>2 DEF StartCheckout, Reading, outside
  <2> HIDE DEF r
  <2> QED BY <2>1, <2>2, QuietKept DEF GoesOn
<1>3. ASSUME FindOpenAttempt(h) PROVE PayInv'
  <2> DEFINE o == req[h].order
             m == req[h].method
             a == OpenAttempt(o)
             r == [req[h] EXCEPT !.step = "create"]
             s == [kind |-> "supersede", payment |-> a, method |-> m]
  <2>1. /\ req[h] \in CheckoutRequests /\ orders[o].status # "ABSENT"
        /\ m \in CUSTOMER_PAYMENT_METHODS
    BY <1>1, <1>3 DEF FindOpenAttempt, Is, Sound, CheckoutRequests
  <2>2. Sound(r, orders, payments, gateway)
    <3>1. r \in CheckoutRequests /\ r.kind = "checkout" /\ r.order = o
      BY <2>1 DEF CheckoutRequests
    <3> HIDE DEF r
    <3> QED BY <2>1, <3>1 DEF Sound
  <2>3. ASSUME a # NULL PROVE Known(a, payments)
    <3> DEFINE S == {b \in AttemptsOf(o) : IsOpen(b)}
    <3>1. S # {} /\ a = Max(S)
      BY <2>3 DEF OpenAttempt
    <3>2. o \in Orders
      BY <2>1 DEF CheckoutRequests
    <3>3. S \in SUBSET Attempts /\ \A b \in S : payments[b].order # NULL
      BY <3>2, NullAssumption DEF AttemptsOf
    <3>4. a \in S
      BY <3>1, <3>3, NewestIsOne DEF PayInv
    <3> QED BY <3>3, <3>4 DEF Known
  <2>4. a # NULL => Sound(s, orders, payments, gateway)
    BY <2>1, <2>3 DEF Sound
  <2>5. /\ \/ req' = [req EXCEPT ![h] = r]
           \/ Finish(h)
           \/ a # NULL /\ req' = [req EXCEPT ![h] = s]
        /\ UNCHANGED <<tables, gateway, inbox>>
    BY <1>3 DEF FindOpenAttempt, Reading, outside
  <2> HIDE DEF r, s, a
  <2> QED BY <2>2, <2>4, <2>5, FinishGoesOn, QuietKept DEF GoesOn
<1>4. ASSUME Supersede(h) PROVE PayInv'
  <2>1. /\ Known(req[h].payment, payments) /\ req[h].method \in CUSTOMER_PAYMENT_METHODS
        /\ BeginFail(h, req[h].payment, "CANCELLED", FALSE, OnRequest, req[h].method)
        /\ UNCHANGED <<tables, gateway, inbox>>
    BY <1>1, <1>4 DEF Supersede, Sound, outside
  <2>2. GoesOn(h, orders, payments, gateway)
    BY <2>1, NothingTold, FailGoesOn DEF Known
  <2> QED BY <2>1, <2>2, QuietKept
<1>5. ASSUME NEW a \in Attempts,
             CancelCheckout(h, a) \/ ExpirePayment(h, a) \/ FailPaymentAdmin(h, a)
      PROVE  PayInv'
  <2>1. Known(a, payments)
    BY <1>5, OpenedIsKnown DEF CancelCheckout, ExpirePayment, FailPaymentAdmin
  <2>2. /\ \E to \in {"FAILED", "CANCELLED"}, failOrder \in BOOLEAN :
                BeginFail(h, a, to, failOrder, OnRequest, NULL)
        /\ UNCHANGED <<tables, gateway, inbox>>
    BY <1>5 DEF CancelCheckout, ExpirePayment, FailPaymentAdmin, outside
  <2>3. GoesOn(h, orders, payments, gateway)
    BY <2>1, <2>2, NothingTold, FailGoesOn
  <2> QED BY <2>2, <2>3, QuietKept
<1> QED BY <1>2, <1>3, <1>4, <1>5

LEMMA PersonRequests ==
    ASSUME PayInv, NEW h \in Handlers,
           \/ \E a \in Attempts : SettleCash(h, a)
           \/ \E o \in Orders : MarkPaymentReceived(h, o)
           \/ BeginTransfer(h)
    PROVE  PayInv'
<1>1. Sound(req[h], orders, payments, gateway)
  BY DEF PayInv, RequestsSound
<1>2. ASSUME NEW a \in Attempts, SettleCash(h, a) PROVE PayInv'
  <2> DEFINE r == [kind |-> "cash", payment |-> a]
  <2>1. payments[a].method = CASH /\ payments[a] # NoPayment
    BY <1>2 DEF SettleCash, NoPayment, CASH
  <2>2. Sound(r, orders, payments, gateway)
    BY <2>1, OpenedIsKnown DEF Sound
  <2>3. req' = [req EXCEPT ![h] = r] /\ UNCHANGED <<tables, gateway, inbox>>
    BY <1>2 DEF SettleCash, Reading, outside
  <2> HIDE DEF r
  <2> QED BY <2>2, <2>3, QuietKept DEF GoesOn
<1>3. ASSUME NEW o \in Orders, MarkPaymentReceived(h, o) PROVE PayInv'
  <2> DEFINE r == [kind |-> "transfer", step |-> "validated", order |-> o, payment |-> NULL]
  <2>1. Sound(r, orders, payments, gateway)
    BY <1>3 DEF Sound, TransferRequests, MarkPaymentReceived, Exists
  <2>2. req' = [req EXCEPT ![h] = r] /\ UNCHANGED <<tables, gateway, inbox>>
    BY <1>3 DEF MarkPaymentReceived, Reading, outside
  <2> HIDE DEF r
  <2> QED BY <2>1, <2>2, QuietKept DEF GoesOn
<1>4. ASSUME BeginTransfer(h) PROVE PayInv'
  <2> DEFINE o == req[h].order
             open == TransferAttempts(o)
             p == IF open = {} THEN NULL ELSE Max(open)
             r == [req[h] EXCEPT !.step = "reading", !.payment = p]
  <2>1. req[h] \in TransferRequests /\ o \in Orders /\ orders[o].status # "ABSENT"
    BY <1>1, <1>4 DEF BeginTransfer, Is, Sound, TransferRequests
  <2>2. p # NULL => p \in open
    <3>1. open \in SUBSET Attempts /\ \A b \in open : payments[b].order # NULL
      BY <2>1, NullAssumption DEF TransferAttempts, AttemptsOf
    <3> QED BY <3>1, NewestIsOne DEF PayInv
  <2>3. p # NULL => /\ p \in Attempts /\ payments[p].order = o
                    /\ payments[p].method = "QR_TRANSFER"
    BY <2>2 DEF TransferAttempts, AttemptsOf
  <2>4. UNCHANGED <<tables, gateway, inbox>>
    BY <1>4 DEF BeginTransfer, outside
  <2>5. Finish(h) \/ req' = [req EXCEPT ![h] = r]
    BY <1>4 DEF BeginTransfer, Reading
  <2> HIDE DEF p
  <2>6. r \in TransferRequests /\ r.kind = "transfer" /\ r.order = o /\ r.payment = p
    BY <2>1, <2>3 DEF TransferRequests
  <2> HIDE DEF r
  <2>7. Sound(r, orders, payments, gateway)
    BY <2>1, <2>3, <2>6 DEF Sound
  <2> QED BY <2>4, <2>5, <2>7, FinishGoesOn, QuietKept DEF GoesOn
<1> QED BY <1>2, <1>3, <1>4

-----------------------------------------------------------------------------
(* The gateway, the clock and the log of callbacks.                        *)

LEMMA OutsideKept ==
    ASSUME PayInv, UNCHANGED tables, OutsideWritten, RequestsWritten,
           gateway' \in [Attempts -> {"NONE", "PENDING", "PAID", "FAILED"}],
           inbox' \in [Attempts -> CallbackLogs],
           req' = [h \in Handlers |-> req'[h]]
    PROVE  PayInv'
<1>1. PayTypes'
  BY DEF PayInv, PayTypes, tables
<1>2. OrdersGoOn
  BY DEF OrdersGoOn, tables, Exists
<1>3. Written
  BY DEF Written, RowsWritten, MoneyWritten, tables
<1>4. OneNew
  BY DEF OneNew, tables
<1> QED BY <1>1, <1>2, <1>3, <1>4, PayInvKept

LEMMA GatewaySteps ==
    ASSUME PayInv, NEW a \in Attempts, GatewayStep(a)
    PROVE  PayInv'
<1>1. UNCHANGED <<tables, req, inbox>>
  BY DEF GatewayStep, CustomerPays, GatewayDeclines, WindowCloses, vars
<1>2. \/ gateway' = gateway
      \/ /\ gateway[a] = "PENDING"
         /\ \E s \in {"PAID", "FAILED"} : gateway' = [gateway EXCEPT ![a] = s]
  BY DEF GatewayStep, CustomerPays, GatewayDeclines, WindowCloses
<1>3. gateway' \in [Attempts -> {"NONE", "PENDING", "PAID", "FAILED"}]
  BY <1>2 DEF PayInv, PayTypes
<1>4. payments' = payments
  BY <1>1 DEF tables
<1>5. gateway[a] = "PENDING" => payments[a].order # NULL
  BY OpenedIsKnown DEF Known
<1>6. OutsideWritten
  BY <1>1, <1>2, <1>4, <1>5 DEF OutsideWritten, PayInv, PayTypes, CONCLUSIONS
<1>7. RequestsWritten
  BY <1>1 DEF RequestsWritten
<1>8. inbox' \in [Attempts -> CallbackLogs]
      /\ req' = [h \in Handlers |-> req'[h]]
  BY <1>1 DEF PayInv, PayTypes
<1> QED BY <1>1, <1>3, <1>6, <1>7, <1>8, OutsideKept

LEMMA CallbackLog ==
    ASSUME PayInv, NEW h \in Handlers,
           \/ \E a \in Attempts : ReceiveCallback(h, a) \/ ReceiveDuplicate(h, a)
           \/ ResolveCallback(h)
    PROVE  PayInv'
<1>1. Sound(req[h], orders, payments, gateway)
  BY DEF PayInv, RequestsSound
<1>2. ASSUME NEW a \in Attempts, ReceiveDuplicate(h, a) PROVE PayInv'
  <2>1. UNCHANGED <<tables, req, gateway, inbox>>
    BY <1>2 DEF ReceiveDuplicate, vars
  <2>2. OutsideWritten /\ RequestsWritten
    BY <2>1 DEF OutsideWritten, RequestsWritten
  <2> QED BY <2>1, <2>2, OutsideKept DEF PayInv, PayTypes
<1>3. ASSUME NEW a \in Attempts, ReceiveCallback(h, a) PROVE PayInv'
  <2> DEFINE said == gateway[a]
             r == [kind |-> "apply", payment |-> a, via |-> [by |-> "callback", said |-> said]]
  <2>1. /\ inbox' = [inbox EXCEPT ![a][said] = "RECEIVED"]
        /\ req' = [req EXCEPT ![h] = r]
        /\ UNCHANGED <<tables, gateway>>
    BY <1>3 DEF ReceiveCallback, Reading
  <2>2. Known(a, payments)
    BY <1>3, OpenedIsKnown DEF ReceiveCallback, Verdicts
  <2>3. payments' = payments /\ orders' = orders
    BY <2>1 DEF tables
  <2>4. Sound(r, orders', payments', gateway')
    BY <2>1, <2>2, <2>3 DEF Sound, Told
  <2> HIDE DEF r
  <2>5. OutsideWritten
    BY <2>1, <2>2, <2>3 DEF OutsideWritten, PayInv, PayTypes, CallbackLogs, Known,
                           CONCLUSIONS, Verdicts
  <2>6. RequestsWritten /\ req' = [k \in Handlers |-> req'[k]]
    BY <2>1, <2>4 DEF RequestsWritten, PayInv, PayTypes
  <2>7. /\ inbox' \in [Attempts -> CallbackLogs]
        /\ gateway' \in [Attempts -> {"NONE", "PENDING", "PAID", "FAILED"}]
    BY <2>1 DEF PayInv, PayTypes, CallbackLogs
  <2> QED BY <2>1, <2>5, <2>6, <2>7, OutsideKept
<1>4. ASSUME ResolveCallback(h) PROVE PayInv'
  <2> DEFINE a == req[h].payment
             said == req[h].said
             result == req[h].result
  <2>1. /\ Known(a, payments) /\ Told(a, said, gateway)
        /\ result \in {"RECEIVED", "PROCESSED", "FAILED"}
        /\ said \in CONCLUSIONS /\ result = "PROCESSED" => Shut(a, payments)
    BY <1>1, <1>4 DEF ResolveCallback, Sound
  <2>2. /\ inbox' = [inbox EXCEPT ![a][said] = result] /\ Finish(h) /\ UNCHANGED <<tables, gateway>>
    BY <1>4 DEF ResolveCallback
  <2>3. payments' = payments /\ orders' = orders
    BY <2>2 DEF tables
  <2> HIDE DEF a, said, result
  <2>4. OutsideWritten
    BY <2>1, <2>2, <2>3 DEF OutsideWritten, PayInv, PayTypes, CallbackLogs, Known, Told,
                           CONCLUSIONS, Verdicts
  <2>5. GoesOn(h, orders', payments', gateway')
    BY <2>2, FinishGoesOn
  <2>6. RequestsWritten /\ req' = [k \in Handlers |-> req'[k]]
    BY <2>5, RequestTyped DEF RequestsWritten, PayInv
  <2>7. /\ inbox' \in [Attempts -> CallbackLogs]
        /\ gateway' \in [Attempts -> {"NONE", "PENDING", "PAID", "FAILED"}]
    BY <2>1, <2>2 DEF PayInv, PayTypes, CallbackLogs, Known
  <2> QED BY <2>2, <2>4, <2>6, <2>7, OutsideKept
<1> QED BY <1>2, <1>3, <1>4

-----------------------------------------------------------------------------
(* Transactions that write.                                                *)

LEMMA WritingKept ==
    ASSUME PayInv, NEW h \in Handlers, GoesOn(h, orders', payments', gateway'),
           orders' \in [Orders -> OrderRows], payments' \in [Attempts -> PaymentRows],
           refunded' \in [Orders -> Nat],
           gateway' \in [Attempts -> {"NONE", "PENDING", "PAID", "FAILED"}],
           OrdersGoOn, RowsWritten, OneNew, MoneyWritten,
           \A a \in Attempts : gateway'[a] # gateway[a] =>
             payments'[a].order # NULL /\ gateway[a] \notin CONCLUSIONS,
           inbox' = inbox
    PROVE  PayInv'
<1>1. receipts' \in [Orders -> Nat] /\ IsFiniteSet(references')
  <2>1. CASE UNCHANGED <<receipts, references>>
    BY <2>1 DEF PayInv, PayTypes
  <2>2. ASSUME NEW o \in Orders, NEW ref, Collects(o, ref)
        PROVE  receipts' \in [Orders -> Nat] /\ IsFiniteSet(references')
    <3>1. references' = references \cup {ref} /\ receipts' = [receipts EXCEPT ![o] = @ + 1]
      BY <2>2 DEF Collects, PostReceipt
    <3> QED BY <3>1, FS_AddElement DEF PayInv, PayTypes
  <2> QED BY <2>1, <2>2 DEF MoneyWritten
<1>2. RequestsWritten /\ req' = [k \in Handlers |-> req'[k]]
  BY RequestTyped DEF RequestsWritten, PayInv
<1>3. PayTypes'
  BY <1>1, <1>2 DEF PayInv, PayTypes
<1>4. Written
  BY <1>2 DEF Written, OutsideWritten
<1> QED BY <1>3, <1>4, PayInvKept

LEMMA TablesKept ==
    ASSUME PayInv, NEW h \in Handlers, GoesOn(h, orders', payments', gateway'),
           orders' \in [Orders -> OrderRows], payments' \in [Attempts -> PaymentRows],
           refunded' \in [Orders -> Nat],
           OrdersGoOn, RowsWritten, OneNew, MoneyWritten, UNCHANGED <<gateway, inbox>>
    PROVE  PayInv'
<1>1. gateway' \in [Attempts -> {"NONE", "PENDING", "PAID", "FAILED"}]
  BY DEF PayInv, PayTypes
<1>2. \A a \in Attempts : gateway'[a] # gateway[a] =>
             payments'[a].order # NULL /\ gateway[a] \notin CONCLUSIONS
  OBVIOUS
<1>3. inbox' = inbox
  OBVIOUS
<1> QED BY <1>1, <1>2, <1>3, WritingKept, Zenon

LEMMA OrderStays ==
    ASSUME PayInv, NEW o \in Orders, Exists(o), NEW row \in OrderRows,
           row.status \notin {"ABSENT", "PENDING_PAYMENT"} \/ row.status = orders[o].status,
           orders' = [orders EXCEPT ![o] = row]
    PROVE  /\ OrdersGoOn /\ orders' \in [Orders -> OrderRows] /\ orders'[o].status = row.status
           /\ orders'[o].status # "ABSENT"
           /\ \A q \in Orders : orders[q].status # "ABSENT" => orders'[q].status # "ABSENT"
BY DEF PayInv, PayTypes, OrdersGoOn, Exists

LEMMA PlaceKept ==
    ASSUME PayInv, NEW h \in Handlers, NEW o \in Orders, CommitPlace(h, o), UNCHANGED outside
    PROVE  PayInv'
<1> DEFINE c == req[h].cart
           m == req[h].method
           row == [status |-> InitialStatus(m), paymentStatus |-> "PENDING",
                   method |-> m, cart |-> c]
<1>1. c \in Carts /\ m \in CUSTOMER_PAYMENT_METHODS
  BY MethodAssumption DEF CommitPlace, PayInv, RequestsSound, Sound, Placing
<1>2. InitialStatus(m) \in OrderStatuses /\ InitialStatus(m) # "ABSENT"
  BY DEF InitialStatus, OrderStatuses
<1>3. row \in OrderRows /\ row.status # "ABSENT"
  BY <1>1, <1>2 DEF OrderRows, OrderMethods, PaymentStatuses
<1>4. /\ orders' = [orders EXCEPT ![o] = row] /\ ~ Exists(o)
      /\ OpenPayment(o, m) /\ Finish(h)
      /\ UNCHANGED <<receipts, references, refunded, gateway, inbox>>
  BY DEF CommitPlace, outside
<1> HIDE DEF row
<1>5. orders' \in [Orders -> OrderRows] /\ OrdersGoOn /\ orders'[o].status # "ABSENT"
  BY <1>3, <1>4 DEF PayInv, PayTypes, OrdersGoOn, Exists
<1>6. payments' \in [Attempts -> PaymentRows] /\ RowsWritten /\ OneNew
  <2>1. CASE payments' = payments
    BY <2>1 DEF PayInv, PayTypes, RowsWritten, OneNew
  <2>2. ASSUME NEW a \in Attempts, m \notin ONLINE_METHODS, NextAttempt(a),
               payments' = [payments EXCEPT ![a] = PendingPayment(o, m)]
        PROVE  payments' \in [Attempts -> PaymentRows] /\ RowsWritten /\ OneNew
    <3>1. PendingPayment(o, m) \in PaymentRows
      BY <1>1 DEF PendingPayment, PaymentRows, OrderMethods, PaymentStatuses
    <3>2. payments[a].order = NULL
      BY <2>2 DEF NextAttempt, NoPayment
    <3>3. payments'[a].order = o /\ payments'[a].status = "PENDING"
      BY <2>2 DEF PendingPayment, PayInv, PayTypes
    <3>4. RowsWritten
      BY <1>5, <2>2, <3>2, <3>3 DEF RowsWritten, SETTLED_STATUSES, PayInv, PayTypes
    <3>5. OneNew
      BY <2>2, AttemptAssumption DEF OneNew, PayInv, PayTypes
    <3> QED BY <2>2, <3>1, <3>4, <3>5 DEF PayInv, PayTypes
  <2> QED BY <1>4, <2>1, <2>2 DEF OpenPayment
<1>7. GoesOn(h, orders', payments', gateway')
  BY <1>4, FinishGoesOn
<1>8. refunded' \in [Orders -> Nat] /\ MoneyWritten
  BY <1>4 DEF PayInv, PayTypes, MoneyWritten
<1> QED BY <1>4, <1>5, <1>6, <1>7, <1>8, TablesKept

LEMMA MoveKept ==
    ASSUME PayInv, NEW h \in Handlers, CommitMove(h), UNCHANGED outside
    PROVE  PayInv'
<1> DEFINE r == req[h]
           o == req[h].order
           p == IF CollectsCash(r) THEN "PAID" ELSE orders[o].paymentStatus
<1>1. /\ r \in Moving /\ r.to # "PENDING_PAYMENT" /\ o \in Orders /\ r.to \in OrderStatuses
      /\ Exists(o)
  BY DEF CommitMove, Is, PayInv, RequestsSound, Sound, Moving, Exists
<1>2. orders[o] \in OrderRows
  BY <1>1 DEF PayInv, PayTypes
<1>3. p \in PaymentStatuses /\ orders[o].method \in OrderMethods
  BY <1>2 DEF OrderRows, PaymentStatuses
<1> DEFINE row == [orders[o] EXCEPT !.status = r.to, !.paymentStatus = p]
<1>4. orders' = [orders EXCEPT ![o] = row]
  BY <1>1, <1>2 DEF CommitMove, OrderRows
<1> HIDE DEF p
<1>5. row \in OrderRows /\ row.status = r.to /\ r.to # "ABSENT"
  BY <1>1, <1>2, <1>3 DEF OrderRows, OrderStatuses
<1> HIDE DEF row
<1>6. /\ OrdersGoOn /\ orders' \in [Orders -> OrderRows] /\ orders'[o].status = r.to
      /\ \A q \in Orders : orders[q].status # "ABSENT" => orders'[q].status # "ABSENT"
  BY <1>1, <1>4, <1>5, OrderStays
<1>7. UNCHANGED <<refunded, gateway, inbox>> /\ Finish(h)
  BY DEF CommitMove, outside
<1>8. payments' \in [Attempts -> PaymentRows] /\ RowsWritten /\ OneNew /\ MoneyWritten
  <2>1. CASE ~ CollectsCash(r)
    <3>1. UNCHANGED <<payments, receipts, references>>
      BY <2>1 DEF CommitMove
    <3> QED BY <3>1 DEF RowsWritten, OneNew, MoneyWritten, PayInv, PayTypes
  <2>2. CASE CollectsCash(r)
    <3>1. PayPending(o) /\ PostReceipt(o, OrderReference(o))
      BY <2>2 DEF CommitMove, SettleCashAtDoor
    <3>2. \A a \in Attempts : payments[a].order = o /\ payments[a].status = "PENDING" =>
            payments'[a] = [payments[a] EXCEPT !.status = "PAID"]
      BY <3>1 DEF PayPending
    <3>3. \A a \in Attempts : ~ (payments[a].order = o /\ payments[a].status = "PENDING") =>
            payments'[a] = payments[a]
      BY <3>1 DEF PayPending
    <3>4. payments' \in [Attempts -> PaymentRows]
      BY <3>1 DEF PayPending, PayInv, PayTypes, PaymentRows, PaymentStatuses
    <3>5. RowsWritten
      <4> SUFFICES ASSUME NEW a \in Attempts, payments[a].order = o,
                          payments[a].status = "PENDING"
                   PROVE  /\ payments'[a].order = o /\ payments'[a].status = "PAID"
                          /\ payments'[a].method = payments[a].method
                          /\ Shut(a, payments') /\ Released(a, orders', payments')
        BY <1>1, <1>5, <1>6, <3>3 DEF RowsWritten
      <4>1. payments[a] \in PaymentRows
        BY DEF PayInv, PayTypes
      <4> QED BY <1>1, <1>6, <3>2, <4>1 DEF PaymentRows, Shut, OPEN_STATUSES, Released
    <3>6. OneNew
      BY <1>1, <3>3, NullAssumption DEF OneNew
    <3>7. MoneyWritten
      BY <1>1, <3>1 DEF MoneyWritten, Collects
    <3> QED BY <3>4, <3>5, <3>6, <3>7
  <2> QED BY <2>1, <2>2
<1>9. GoesOn(h, orders', payments', gateway')
  BY <1>7, FinishGoesOn
<1>10. refunded' \in [Orders -> Nat]
  BY <1>7 DEF PayInv, PayTypes
<1> QED BY <1>6, <1>7, <1>8, <1>9, <1>10, TablesKept

\* A step that only writes the status of one attempt.
LEMMA OneRowWritten ==
    ASSUME PayInv, NEW a \in Attempts, Known(a, payments), NEW s \in PaymentStatuses,
           Shut(a, payments) => s \notin OPEN_STATUSES,
           s \in SETTLED_STATUSES => Released(a, orders', payments),
           orders' \in [Orders -> OrderRows], OrdersGoOn,
           payments' = [payments EXCEPT ![a].status = s]
    PROVE  /\ payments' \in [Attempts -> PaymentRows] /\ RowsWritten /\ OneNew
           /\ Known(a, payments') /\ payments'[a].status = s
           /\ payments'[a].order = payments[a].order
           /\ payments'[a].method = payments[a].method
<1>1. /\ payments[a] \in PaymentRows /\ payments \in [Attempts -> PaymentRows]
      /\ payments[a].order \in Orders /\ orders[payments[a].order].status # "ABSENT"
  BY KnownRows DEF PayInv, PayTypes, Known
<1> DEFINE row == [payments[a] EXCEPT !.status = s]
<1>2. /\ row \in PaymentRows /\ row.status = s
      /\ row.order = payments[a].order /\ row.method = payments[a].method
  BY <1>1 DEF PaymentRows
<1>3. payments' = [payments EXCEPT ![a] = row]
  BY <1>1
<1> HIDE DEF row
<1>4. /\ payments' \in [Attempts -> PaymentRows] /\ payments'[a] = row
      /\ \A b \in Attempts : b # a => payments'[b] = payments[b]
  BY <1>1, <1>2, <1>3
<1>5. Known(a, payments')
  BY <1>2, <1>4 DEF Known
<1>6. orders'[payments[a].order].status # "ABSENT"
  BY <1>1 DEF OrdersGoOn, Exists
<1>7. RowsWritten
  <2> SUFFICES ASSUME NEW b \in Attempts, b = a
               PROVE  /\ payments'[b].order \in Orders
                      /\ orders'[payments'[b].order].status # "ABSENT"
                      /\ payments'[b].status # "ABSENT"
                      /\ payments'[b].order = payments[b].order
                      /\ payments'[b].method = payments[b].method
                      /\ Shut(b, payments) => Shut(b, payments')
                      /\ payments'[b].status \in SETTLED_STATUSES
                           => Released(b, orders', payments')
    BY <1>4 DEF RowsWritten
  <2> QED BY <1>1, <1>2, <1>4, <1>6 DEF Shut, Released, PaymentStatuses
<1>8. OneNew
  BY <1>4, <1>5, AttemptAssumption DEF OneNew, Known
<1> QED BY <1>2, <1>4, <1>5, <1>7, <1>8

LEMMA RefundKept ==
    ASSUME PayInv, NEW h \in Handlers, CommitRefund(h), UNCHANGED outside
    PROVE  PayInv'
<1> DEFINE r == req[h]
           o == req[h].order
           s == StatusAfterRefund(r.sum + r.amount)
<1>1. /\ r \in Refunding /\ o \in Orders
      /\ r.payment # NULL => Known(r.payment, payments) /\ Released(r.payment, orders, payments)
  BY DEF CommitRefund, Is, PayInv, RequestsSound, Sound, Refunding
<1>2. s \in SETTLED_STATUSES /\ s \in PaymentStatuses /\ s \notin OPEN_STATUSES
  BY DEF StatusAfterRefund, SETTLED_STATUSES, PaymentStatuses, OPEN_STATUSES
<1>3. orders[o] \in OrderRows /\ orders \in [Orders -> OrderRows]
  BY <1>1 DEF PayInv, PayTypes
<1>4. orders' = [orders EXCEPT ![o].paymentStatus = s]
  BY DEF CommitRefund
<1>5. payments' = [a \in Attempts |-> IF a = r.payment
                                      THEN [payments[a] EXCEPT !.status = s]
                                      ELSE payments[a]]
  BY DEF CommitRefund
<1>6. /\ refunded' = [refunded EXCEPT ![o] = @ + r.amount] /\ Finish(h)
      /\ UNCHANGED <<receipts, references, gateway, inbox>>
  BY DEF CommitRefund, outside
<1> HIDE DEF s
<1>7. orders' \in [Orders -> OrderRows] /\ OrdersGoOn
      /\ \A q \in Orders : orders'[q].status = orders[q].status
  BY <1>2, <1>3, <1>4 DEF OrderRows, OrdersGoOn, Exists
<1>8. payments' \in [Attempts -> PaymentRows] /\ RowsWritten /\ OneNew
  <2>1. CASE r.payment = NULL
    <3>1. payments' = payments
      BY <1>5, <2>1, NullAssumption DEF PayInv, PayTypes
    <3> QED BY <3>1 DEF RowsWritten, OneNew, PayInv, PayTypes
  <2>2. CASE r.payment # NULL
    <3>1. Known(r.payment, payments) /\ Released(r.payment, orders, payments)
          /\ r.payment \in Attempts /\ payments[r.payment].order \in Orders
      BY <1>1, <2>2, KnownRows DEF Known, PayInv
    <3>2. payments' = [payments EXCEPT ![r.payment].status = s]
      BY <1>5, <3>1 DEF PayInv, PayTypes
    <3>3. Released(r.payment, orders', payments)
      BY <1>7, <3>1 DEF Released
    <3> QED BY <1>2, <1>7, <3>1, <3>2, <3>3, OneRowWritten
  <2> QED BY <2>1, <2>2
<1>9. refunded' \in [Orders -> Nat] /\ MoneyWritten
  BY <1>1, <1>6 DEF PayInv, PayTypes, MoneyWritten, Refunding
<1>10. GoesOn(h, orders', payments', gateway')
  BY <1>6, FinishGoesOn
<1> QED BY <1>6, <1>7, <1>8, <1>9, <1>10, TablesKept

\* A step that writes the order of an attempt, and does not make it wait.
LEMMA OrderWritten ==
    ASSUME PayInv, NEW o \in Orders, Exists(o), NEW s, NEW ps \in PaymentStatuses,
           NEW m \in OrderMethods,
           s = orders[o].status \/ s \in OrderStatuses \ {"PENDING_PAYMENT"},
           orders' = [orders EXCEPT ![o] =
                        [orders[o] EXCEPT !.status = s, !.paymentStatus = ps, !.method = m]]
    PROVE  orders' \in [Orders -> OrderRows] /\ OrdersGoOn /\ orders'[o].status = s
<1> DEFINE row == [orders[o] EXCEPT !.status = s, !.paymentStatus = ps, !.method = m]
<1>1. orders[o] \in OrderRows /\ orders \in [Orders -> OrderRows]
  BY DEF PayInv, PayTypes
<1>2. s \in OrderStatuses \cup {"ABSENT"} /\ s # "ABSENT"
  BY <1>1 DEF OrderRows, Exists, OrderStatuses
<1>3. row \in OrderRows /\ row.status = s
  BY <1>1, <1>2 DEF OrderRows
<1>4. orders' = [orders EXCEPT ![o] = row]
  OBVIOUS
<1> HIDE DEF row
<1> QED BY <1>1, <1>2, <1>3, <1>4 DEF OrdersGoOn, Exists

LEMMA SettleKept ==
    ASSUME PayInv, NEW h \in Handlers, CommitSettle(h)
    PROVE  PayInv'
<1> DEFINE r == req[h]
           a == req[h].payment
           o == payments[a].order
           held == HeldForPayment(r.orderStatus)
           s == IF held THEN "PLACED" ELSE orders[o].status
<1>1. /\ Known(a, payments) /\ gateway[a] = "PAID"
      /\ r.orderStatus # "PENDING_PAYMENT" => Released(a, orders, payments)
  BY DEF CommitSettle, PayInv, RequestsSound, Sound
<1>2. a \in Attempts /\ o \in Orders /\ Exists(o) /\ orders[o] \in OrderRows
  BY <1>1, KnownRows DEF PayInv, PayTypes, Known, Exists
<1>3. /\ payments' = [payments EXCEPT ![a].status = "PAID"]
      /\ orders' = [orders EXCEPT ![o].paymentStatus = "PAID",
                                  ![o].status = IF held THEN "PLACED" ELSE @]
      /\ PostReceipt(o, AttemptReference(a))
      /\ Done(h, a, r.via, "PROCESSED")
      /\ UNCHANGED <<refunded, gateway, inbox>>
  BY DEF CommitSettle, outside
<1>4. orders' = [orders EXCEPT ![o] =
                   [orders[o] EXCEPT !.status = s, !.paymentStatus = "PAID",
                                     !.method = orders[o].method]]
  BY <1>2, <1>3 DEF OrderRows, PayInv, PayTypes
<1>5. s = orders[o].status \/ s \in OrderStatuses \ {"PENDING_PAYMENT"}
  BY DEF OrderStatuses
<1>6. (Released(a, orders, payments) /\ orders[o].status = s) \/ s = "PLACED"
  BY <1>1 DEF HeldForPayment
<1> HIDE DEF s
<1>7. orders' \in [Orders -> OrderRows] /\ OrdersGoOn /\ orders'[o].status = s
  <2>1. "PAID" \in PaymentStatuses /\ orders[o].method \in OrderMethods
    BY <1>2 DEF OrderRows, PaymentStatuses
  <2> HIDE DEF r, a, o, held
  <2> QED BY <1>2, <1>4, <1>5, <2>1, OrderWritten
<1>8. Released(a, orders', payments)
  BY <1>6, <1>7 DEF Released
<1>9. /\ payments' \in [Attempts -> PaymentRows] /\ RowsWritten /\ OneNew
      /\ Known(a, payments') /\ payments'[a].status = "PAID" /\ payments'[a].order = o
  BY <1>1, <1>2, <1>3, <1>7, <1>8, OneRowWritten DEF PaymentStatuses, OPEN_STATUSES
<1>10. MoneyWritten
  BY <1>1, <1>2, <1>3, <1>9 DEF MoneyWritten, Collects
<1>11. GoesOn(h, orders', payments', gateway')
  <2>1. Shut(a, payments')
    BY <1>9 DEF Shut, OPEN_STATUSES
  <2> DEFINE via == r.via
  <2>2. Done(h, a, via, "PROCESSED") /\ Known(a, payments')
    BY <1>3, <1>9
  <2>3. Told(a, via.said, gateway')
    BY <1>3 DEF CommitSettle, PayInv, RequestsSound, Sound
  <2> HIDE DEF r, a, o, held, via
  <2> QED BY <2>1, <2>2, <2>3, DoneGoesOn
<1>12. refunded' \in [Orders -> Nat]
  BY <1>3 DEF PayInv, PayTypes
<1> QED BY <1>3, <1>7, <1>9, <1>10, <1>11, <1>12, TablesKept

LEMMA FailKept ==
    ASSUME PayInv, NEW h \in Handlers, CommitFail(h)
    PROVE  PayInv'
<1> DEFINE r == req[h]
           a == req[h].payment
           o == payments[a].order
<1>1. /\ Known(a, payments) /\ r.to \in {"FAILED", "CANCELLED"}
      /\ r.then \in CUSTOMER_PAYMENT_METHODS \cup {NULL}
      /\ Told(a, r.via.said, gateway)
  BY DEF CommitFail, PayInv, RequestsSound, Sound
<1>2. a \in Attempts /\ o \in Orders /\ Exists(o) /\ orders[o] \in OrderRows
  BY <1>1, KnownRows DEF PayInv, PayTypes, Known, Exists
<1>3. /\ payments' = [payments EXCEPT ![a].status = r.to]
      /\ \/ UNCHANGED orders
         \/ orders' = [orders EXCEPT ![o].status = "FAILED", ![o].paymentStatus = "FAILED"]
      /\ AfterFail(h, a, r.via, r.then)
      /\ UNCHANGED <<receipts, references, refunded, gateway, inbox>>
  BY DEF CommitFail, outside
<1>4. orders' \in [Orders -> OrderRows] /\ OrdersGoOn
  <2>1. CASE UNCHANGED orders
    BY <2>1 DEF PayInv, PayTypes, OrdersGoOn, Exists
  <2>2. CASE orders' = [orders EXCEPT ![o].status = "FAILED", ![o].paymentStatus = "FAILED"]
    <3>1. orders' = [orders EXCEPT ![o] =
                       [orders[o] EXCEPT !.status = "FAILED", !.paymentStatus = "FAILED",
                                         !.method = orders[o].method]]
      BY <1>2, <2>2 DEF OrderRows, PayInv, PayTypes
    <3>2. "FAILED" \in OrderStatuses \ {"PENDING_PAYMENT"} /\ "FAILED" \in PaymentStatuses
          /\ orders[o].method \in OrderMethods
      BY <1>2 DEF OrderStatuses, PaymentStatuses, OrderRows
    <3> QED BY <1>2, <3>1, <3>2, OrderWritten
  <2> QED BY <1>3, <2>1, <2>2
<1>5. r.to \in PaymentStatuses /\ r.to \notin OPEN_STATUSES /\ r.to \notin SETTLED_STATUSES
  BY <1>1 DEF PaymentStatuses, OPEN_STATUSES, SETTLED_STATUSES
<1>6. /\ payments' \in [Attempts -> PaymentRows] /\ RowsWritten /\ OneNew
      /\ Known(a, payments') /\ payments'[a].status = r.to
  BY <1>1, <1>2, <1>3, <1>4, <1>5, OneRowWritten
<1>7. Shut(a, payments') /\ orders'[o].status # "ABSENT"
  BY <1>2, <1>4, <1>5, <1>6 DEF Shut, OrdersGoOn
<1>8. GoesOn(h, orders', payments', gateway')
  BY <1>1, <1>2, <1>3, <1>6, <1>7, AfterFailGoesOn
<1>9. MoneyWritten /\ refunded' \in [Orders -> Nat]
  BY <1>3 DEF MoneyWritten, PayInv, PayTypes
<1> QED BY <1>3, <1>4, <1>6, <1>8, <1>9, TablesKept

LEMMA CashKept ==
    ASSUME PayInv, NEW h \in Handlers, CommitCash(h)
    PROVE  PayInv'
<1> DEFINE a == req[h].payment
           o == payments[a].order
<1>1. Known(a, payments) /\ payments[a].method = CASH
  BY DEF CommitCash, PayInv, RequestsSound, Sound
<1>2. a \in Attempts /\ o \in Orders /\ Exists(o) /\ orders[o] \in OrderRows
  BY <1>1, KnownRows DEF PayInv, PayTypes, Known, Exists
<1>3. /\ payments' = [payments EXCEPT ![a].status = "PAID"]
      /\ orders' = [orders EXCEPT ![o].paymentStatus = "PAID"]
      /\ PostReceipt(o, AttemptReference(a)) /\ Finish(h)
      /\ UNCHANGED <<refunded, gateway, inbox>>
  BY DEF CommitCash, outside
<1>4. orders' = [orders EXCEPT ![o] =
                   [orders[o] EXCEPT !.status = orders[o].status, !.paymentStatus = "PAID",
                                     !.method = orders[o].method]]
  BY <1>2, <1>3 DEF OrderRows, PayInv, PayTypes
<1>5. orders' \in [Orders -> OrderRows] /\ OrdersGoOn
  <2>1. "PAID" \in PaymentStatuses /\ orders[o].method \in OrderMethods
    BY <1>2 DEF OrderRows, PaymentStatuses
  <2> QED BY <1>2, <1>4, <2>1, OrderWritten
<1>6. CASH \notin ONLINE_METHODS
  BY DEF CASH, ONLINE_METHODS
<1>7. /\ payments' \in [Attempts -> PaymentRows] /\ RowsWritten /\ OneNew
      /\ payments'[a].order = o /\ payments'[a].method = CASH
  BY <1>1, <1>2, <1>3, <1>5, <1>6, OneRowWritten
     DEF PaymentStatuses, OPEN_STATUSES, Released
<1>8. MoneyWritten
  BY <1>2, <1>3, <1>6, <1>7 DEF MoneyWritten, Collects
<1>9. GoesOn(h, orders', payments', gateway') /\ refunded' \in [Orders -> Nat]
  BY <1>3, FinishGoesOn DEF PayInv, PayTypes
<1> QED BY <1>3, <1>5, <1>7, <1>8, <1>9, TablesKept

LEMMA CreateKept ==
    ASSUME PayInv, NEW h \in Handlers, CreateAttempt(h)
    PROVE  PayInv'
<1> DEFINE o == req[h].order
           m == req[h].method
<1>1. req[h] \in CheckoutRequests /\ o \in Orders /\ m \in CUSTOMER_PAYMENT_METHODS
      /\ orders[o].status # "ABSENT"
  BY DEF CreateAttempt, Is, PayInv, RequestsSound, Sound, CheckoutRequests
<1> PICK a \in Attempts :
        /\ NextAttempt(a)
        /\ payments' = [payments EXCEPT ![a] = PendingPayment(o, m)]
        /\ gateway' = [gateway EXCEPT ![a] = IF m \in ONLINE_METHODS THEN "PENDING" ELSE @]
  BY DEF CreateAttempt
<1>2. orders' = orders /\ Finish(h) /\ UNCHANGED <<receipts, references, refunded, inbox>>
  BY DEF CreateAttempt
<1>3. payments[a].order = NULL /\ gateway[a] = "NONE"
  BY NullAssumption DEF NextAttempt, NoPayment, PayInv, RowsKnown
<1>4. PendingPayment(o, m) \in PaymentRows
  BY <1>1 DEF PendingPayment, PaymentRows, OrderMethods, PaymentStatuses
<1>5. /\ payments' \in [Attempts -> PaymentRows]
      /\ payments'[a].order = o /\ payments'[a].status = "PENDING"
      /\ \A b \in Attempts : b # a => payments'[b] = payments[b]
  BY <1>4 DEF PendingPayment, PayInv, PayTypes
<1>6. o # NULL
  BY <1>1, NullAssumption
<1>7. RowsWritten
  BY <1>1, <1>2, <1>3, <1>5 DEF RowsWritten, SETTLED_STATUSES
<1>8. OneNew
  BY <1>5, AttemptAssumption DEF OneNew
<1>9. gateway' \in [Attempts -> {"NONE", "PENDING", "PAID", "FAILED"}]
      /\ \A b \in Attempts : gateway'[b] # gateway[b] =>
           payments'[b].order # NULL /\ gateway[b] \notin CONCLUSIONS
  BY <1>3, <1>5, <1>6 DEF PayInv, PayTypes, CONCLUSIONS
<1>10. orders' \in [Orders -> OrderRows] /\ refunded' \in [Orders -> Nat]
       /\ OrdersGoOn /\ MoneyWritten
  BY <1>2 DEF PayInv, PayTypes, OrdersGoOn, Exists, MoneyWritten
<1>11. GoesOn(h, orders', payments', gateway')
  BY <1>2, FinishGoesOn
<1> QED BY <1>2, <1>5, <1>7, <1>8, <1>9, <1>10, <1>11, WritingKept

LEMMA TransferKept ==
    ASSUME PayInv, NEW h \in Handlers, CommitTransfer(h)
    PROVE  PayInv'
<1> DEFINE o == req[h].order
           p == req[h].payment
           paid == [PendingPayment(o, "QR_TRANSFER") EXCEPT !.status = "PAID"]
<1>1. /\ req[h] \in TransferRequests /\ o \in Orders /\ Exists(o)
      /\ p # NULL => payments[p].order = o /\ payments[p].method = "QR_TRANSFER"
  BY DEF CommitTransfer, Is, PayInv, RequestsSound, Sound, TransferRequests, Exists
<1> PICK a \in Attempts :
        /\ IF p = NULL THEN NextAttempt(a) ELSE a = p
        /\ payments' = [b \in Attempts |->
             IF b = a THEN paid
             ELSE IF b \in AttemptsOf(o) /\ IsOpen(b)
                  THEN [payments[b] EXCEPT !.status = "CANCELLED"]
                  ELSE payments[b]]
        /\ PostReceipt(o, AttemptReference(a))
  BY DEF CommitTransfer
<1>2. /\ orders' = [orders EXCEPT ![o].paymentStatus = "PAID", ![o].method = "QR_TRANSFER"]
      /\ Finish(h) /\ UNCHANGED <<refunded, gateway, inbox>>
  BY DEF CommitTransfer, outside
<1>3. orders[o] \in OrderRows /\ orders \in [Orders -> OrderRows]
      /\ payments \in [Attempts -> PaymentRows]
  BY <1>1 DEF PayInv, PayTypes
<1>4. orders' = [orders EXCEPT ![o] =
                   [orders[o] EXCEPT !.status = orders[o].status, !.paymentStatus = "PAID",
                                     !.method = "QR_TRANSFER"]]
  BY <1>2, <1>3 DEF OrderRows
<1>5. orders' \in [Orders -> OrderRows] /\ OrdersGoOn
  <2>1. "PAID" \in PaymentStatuses /\ "QR_TRANSFER" \in OrderMethods
    BY DEF PaymentStatuses, OrderMethods, CUSTOMER_PAYMENT_METHODS
  <2> QED BY <1>1, <1>4, <2>1, OrderWritten
<1>6. /\ paid \in PaymentRows /\ paid.order = o /\ paid.status = "PAID"
      /\ paid.method = "QR_TRANSFER"
  BY <1>1 DEF PendingPayment, PaymentRows, PaymentStatuses, OrderMethods,
       CUSTOMER_PAYMENT_METHODS
<1> HIDE DEF paid
<1>7. payments[a].order = NULL \/ (payments[a].order = o /\ payments[a].method = "QR_TRANSFER")
  BY <1>1 DEF NextAttempt, NoPayment
<1>8. \A b \in Attempts :
        \/ b = a /\ payments'[b] = paid
        \/ b # a /\ payments'[b] = payments[b]
        \/ /\ b # a /\ payments[b].order = o /\ payments'[b].order = o
           /\ payments'[b].method = payments[b].method /\ payments'[b].status = "CANCELLED"
  <2> TAKE b \in Attempts
  <2>1. payments[b] \in PaymentRows
    BY <1>3
  <2> QED BY <2>1 DEF AttemptsOf, PaymentRows
<1>9. payments' \in [Attempts -> PaymentRows]
  BY <1>3, <1>6 DEF PaymentRows, PaymentStatuses
<1>10. orders'[o].status # "ABSENT" /\ o # NULL
  BY <1>1, <1>5, NullAssumption DEF OrdersGoOn
<1>11. RowsWritten
  <2> SUFFICES ASSUME NEW b \in Attempts, payments'[b] # payments[b]
               PROVE  /\ payments'[b].order = o
                      /\ payments'[b].status \in {"PAID", "CANCELLED"}
                      /\ payments[b].order # NULL =>
                           payments[b].order = o /\ payments'[b].method = payments[b].method
                      /\ payments'[b].status = "PAID" => payments'[b].method = "QR_TRANSFER"
    BY <1>1, <1>10
       DEF RowsWritten, Shut, Released, OPEN_STATUSES, SETTLED_STATUSES, ONLINE_METHODS
  <2> QED BY <1>6, <1>7, <1>8
<1>12. OneNew
  <2>1. \A b \in Attempts : payments'[b].order # NULL => b = a \/ payments[b].order # NULL
    BY <1>8, <1>10
  <2> QED BY <2>1, AttemptAssumption DEF OneNew
<1>13. MoneyWritten
  BY <1>1, <1>6, <1>8 DEF MoneyWritten, Collects, ONLINE_METHODS
<1>14. GoesOn(h, orders', payments', gateway') /\ refunded' \in [Orders -> Nat]
  BY <1>2, FinishGoesOn DEF PayInv, PayTypes
<1> QED BY <1>2, <1>5, <1>9, <1>11, <1>12, <1>13, <1>14, TablesKept

-----------------------------------------------------------------------------
(* All steps, and the theorems.                                            *)

LEMMA OrderStepKept ==
    ASSUME PayInv, NEW h \in Handlers, Step(h), UNCHANGED outside
    PROVE  PayInv'
BY OrderRequestsBegin, OrderRequestsRead, PlaceKept, MoveKept, RefundKept DEF Step

LEMMA PayStepKept ==
    ASSUME PayInv, NEW h \in Handlers, PayStep(h)
    PROVE  PayInv'
<1>1. CASE \E a \in Attempts : ReceiveCallback(h, a) \/ ReceiveDuplicate(h, a)
  BY <1>1, CallbackLog
<1>2. CASE ResolveCallback(h)
  BY <1>2, CallbackLog
<1>3. CASE \/ ApplyCallback(h)
           \/ \E a \in Attempts : ReplayCallback(h, a) \/ VerifyPayment(h, a)
           \/ RefuseSettle(h)
  BY <1>3, CallbackRequests
<1>4. CASE \/ \E o \in Orders, m \in PlacedWith : StartCheckout(h, o, m)
           \/ FindOpenAttempt(h)
           \/ Supersede(h)
           \/ \E a \in Attempts :
                CancelCheckout(h, a) \/ ExpirePayment(h, a) \/ FailPaymentAdmin(h, a)
  BY <1>4, CheckoutRequestsGoOn
<1>5. CASE \/ \E a \in Attempts : SettleCash(h, a)
           \/ \E o \in Orders : MarkPaymentReceived(h, o)
           \/ BeginTransfer(h)
  BY <1>5, PersonRequests
<1>6. CASE CommitSettle(h)
  BY <1>6, SettleKept
<1>7. CASE CommitFail(h)
  BY <1>7, FailKept
<1>8. CASE CommitCash(h)
  BY <1>8, CashKept
<1>9. CASE CreateAttempt(h)
  BY <1>9, CreateKept
<1>10. CASE CommitTransfer(h)
  BY <1>10, TransferKept
<1> QED BY <1>1, <1>2, <1>3, <1>4, <1>5, <1>6, <1>7, <1>8, <1>9, <1>10 DEF PayStep

LEMMA PayInvIsKept == PayInv /\ [PayNext]_payVars => PayInv'
<1> SUFFICES ASSUME PayInv, [PayNext]_payVars PROVE PayInv'
  OBVIOUS
<1>1. CASE UNCHANGED payVars
  <2>1. UNCHANGED <<tables, req, gateway, inbox>>
    BY <1>1 DEF payVars, vars, outside
  <2>2. OutsideWritten /\ RequestsWritten
    BY <2>1 DEF OutsideWritten, RequestsWritten
  <2> QED BY <2>1, <2>2, OutsideKept DEF PayInv, PayTypes
<1>2. CASE \E a \in Attempts : GatewayStep(a)
  BY <1>2, GatewaySteps
<1>3. CASE \E h \in Handlers : HandlerStep(h)
  BY <1>3, OrderStepKept, PayStepKept DEF HandlerStep
<1> QED BY <1>1, <1>2, <1>3 DEF PayNext

LEMMA PayInvInitially == PayInit => PayInv
<1> SUFFICES ASSUME PayInit PROVE PayInv
  OBVIOUS
<1> USE DEF PayInit, Init
<1>1. PayTypes
  <2>1. NoOrder \in OrderRows
    BY DEF NoOrder, OrderRows, OrderMethods, PaymentStatuses
  <2>2. NoPayment \in PaymentRows
    BY DEF NoPayment, PaymentRows, OrderMethods
  <2>3. Unheard \in CallbackLogs
    BY DEF Unheard, CallbackLogs
  <2> QED BY <2>1, <2>2, <2>3, FS_EmptySet DEF PayTypes
<1>2. \A a \in Attempts : payments[a] = NoPayment
  OBVIOUS
<1>3. RowsKnown
  BY DEF RowsKnown
<1>4. RowsBounded
  BY <1>2 DEF RowsBounded, NoPayment
<1>5. RequestsSound
  BY IdleSound DEF RequestsSound
<1>6. PaidOrderReleased
  BY <1>2 DEF PaidOrderReleased, Online, NoPayment, ONLINE_METHODS
<1>7. ReceiptsMatchReferences
  <2> SUFFICES ASSUME NEW o \in Orders
               PROVE  0 = Cardinality({r \in references :
                   r = OrderReference(o) \/ \E a \in AttemptsOf(o) : r = AttemptReference(a)})
    BY DEF ReceiptsMatchReferences
  <2>1. {r \in references :
            r = OrderReference(o) \/ \E a \in AttemptsOf(o) : r = AttemptReference(a)} = {}
    OBVIOUS
  <2> QED BY <2>1, FS_EmptySet
<1>8. NoMoneyFromNothing /\ ProcessedIsApplied /\ LogIsTrue
  BY DEF NoMoneyFromNothing, ProcessedIsApplied, LogIsTrue, Unheard, CONCLUSIONS, Verdicts
<1> QED BY <1>1, <1>3, <1>4, <1>5, <1>6, <1>7, <1>8 DEF PayInv

\* Whatever customers, gateways, operators and the sweep do at the same time,
\* every row of the tables is of its type and belongs to an order, and what a
\* request holds in its hands is still good for what it is going to write.
THEOREM PaymentsInvariant == PaySpec => []PayInv
<1>1. PayInit => PayInv
  BY PayInvInitially
<1>2. PayInv /\ [PayNext]_payVars => PayInv'
  BY PayInvIsKept
<1> QED BY <1>1, <1>2, PTL DEF PaySpec

\* An order whose money a gateway has collected is never left waiting for it,
\* for any number of attempts and concurrent requests.
THEOREM PaidOrdersAreReleased == PaySpec => []PaidOrderReleased
<1>1. PayInv => PaidOrderReleased
  BY DEF PayInv
<1> QED BY <1>1, PaymentsInvariant, PTL

\* Every receipt has a reference of its own: however often callbacks, polls,
\* replays and the cash at the door report one success, it is posted once.
THEOREM ReceiptsAreKeyed == PaySpec => []ReceiptsMatchReferences
<1>1. PayInv => ReceiptsMatchReferences
  BY DEF PayInv
<1> QED BY <1>1, PaymentsInvariant, PTL

\* The ledger never shows money of a gateway that did not collect it.
THEOREM MoneyIsCollected == PaySpec => []NoMoneyFromNothing
<1>1. PayInv => NoMoneyFromNothing
  BY DEF PayInv
<1> QED BY <1>1, PaymentsInvariant, PTL

\* A callback that reported how a payment ended and is shown as processed has
\* closed its attempt: the gateway's word, or its answer when it was asked in
\* the place of an unsigned callback, was applied; reports of a payment in
\* progress, late or not, never stand in for it.
THEOREM ProcessedCallbacksAreApplied == PaySpec => []ProcessedIsApplied
<1>1. PayInv => ProcessedIsApplied
  BY DEF PayInv
<1> QED BY <1>1, PaymentsInvariant, PTL

-----------------------------------------------------------------------------
(* The second invariant: what an order's history and its money show.  It   *)
(* takes PayInv for granted, which is proved by now.                       *)

\* The ledger has the money of the order.
Backed(o, rc, cm) == rc[o] > 0 /\ cm[o] = "SUCCESS"

\* The order was in the status the request r read, and is still paid for if
\* it was; tl are the histories, rc the receipts and cm the commissions.
Timely(r, tl, ps, rc, cm) ==
    /\ r.kind = "move" => r.from \in tl[r.order] /\ AllowedMove(r.from, r.to)
    /\ r.kind \in {"settle", "fail"} => r.orderStatus \in tl[ps[r.payment].order]
    /\ r.kind = "refund" => Backed(r.order, rc, cm)

RecordTypes ==
    /\ timeline \in [Orders -> SUBSET OrderStatuses]
    /\ commission \in [Orders -> {"NONE", "PENDING", "SUCCESS"}]

\* The history has the status of the order; there is none without an order.
OnRecord ==
    \A o \in Orders :
        IF Exists(o)
        THEN orders[o].status \in timeline[o] /\ commission[o] # "NONE"
        ELSE timeline[o] = {} /\ commission[o] = "NONE"

RequestsTimely ==
    \A h \in Handlers : Timely(req[h], timeline, payments, receipts, commission)

\* A status is only reached from one the transition table leads from.
Caused ==
    \A o \in Orders : \A s \in timeline[o] :
        \/ s \in {"PENDING_PAYMENT", "PLACED"}
        \/ \E p \in timeline[o] : AllowedMove(p, s)

RecordInv == RecordTypes /\ OnRecord /\ RequestsTimely /\ Caused /\ PaidHasReceipt

\* One order is checked out, or goes on from a status it has been in.
CheckedOut(o) ==
    /\ timeline[o] = {}
    /\ \E s \in {"PENDING_PAYMENT", "PLACED"} : timeline' = [timeline EXCEPT ![o] = {s}]

Reached(o) ==
    \E from \in timeline[o], to \in OrderStatuses :
        /\ AllowedMove(from, to)
        /\ timeline' = [timeline EXCEPT ![o] = @ \cup {to}]

Recorded ==
    \/ UNCHANGED timeline
    \/ \E o \in Orders : CheckedOut(o) \/ Reached(o)

\* Money and commission of an order only come in.
MoneyStays ==
    \A o \in Orders :
        /\ receipts'[o] \in Nat /\ receipts'[o] >= receipts[o]
        /\ commission'[o] \in {"NONE", "PENDING", "SUCCESS"}
        /\ commission[o] = "SUCCESS" => commission'[o] = "SUCCESS"
        /\ commission[o] # "NONE" => commission'[o] # "NONE"

\* What the step shows of an order is on record.
OrdersRecorded ==
    \A o \in Orders :
        /\ \/ /\ orders'[o].status = orders[o].status
              /\ \/ Exists(o)
                 \/ timeline'[o] = timeline[o] /\ commission'[o] = commission[o]
           \/ /\ orders'[o].status \in timeline'[o] /\ orders'[o].status # "ABSENT"
              /\ commission'[o] # "NONE"
        /\ orders'[o].paymentStatus \in SETTLED_STATUSES =>
             \/ orders[o].paymentStatus \in SETTLED_STATUSES
             \/ Backed(o, receipts', commission')

RequestsRecorded ==
    \A h \in Handlers :
        \/ req'[h] = req[h]
        \/ Timely(req'[h], timeline', payments', receipts', commission')

LEMMA RecordedGrows ==
    ASSUME RecordTypes, Recorded
    PROVE  /\ timeline' \in [Orders -> SUBSET OrderStatuses]
           /\ \A o \in Orders : timeline[o] \subseteq timeline'[o]
<1>1. {"PENDING_PAYMENT", "PLACED"} \subseteq OrderStatuses
  BY DEF OrderStatuses
<1> QED BY <1>1 DEF Recorded, RecordTypes, CheckedOut, Reached

LEMMA TimelyStays ==
    ASSUME RecordTypes, Recorded, MoneyStays, OrdersKept, NEW r,
           Sound(r, orders, payments, gateway),
           PayTypes, RowsKnown,
           Timely(r, timeline, payments, receipts, commission)
    PROVE  Timely(r, timeline', payments', receipts', commission')
<1>1. \A o \in Orders : timeline[o] \subseteq timeline'[o]
  BY RecordedGrows
<1>2. r.kind = "move" => Timely(r, timeline', payments', receipts', commission')
  BY <1>1 DEF Timely, Sound, Moving
<1>3. r.kind \in {"settle", "fail"} => Timely(r, timeline', payments', receipts', commission')
  <2> SUFFICES ASSUME r.kind \in {"settle", "fail"}
               PROVE  r.orderStatus \in timeline'[payments'[r.payment].order]
    BY DEF Timely
  <2>1. r.payment \in Attempts /\ payments[r.payment].order # NULL
    BY DEF Sound, Known
  <2>2. payments[r.payment].order \in Orders
    BY <2>1, KnownRows
  <2>3. payments'[r.payment].order = payments[r.payment].order
    BY <2>1 DEF OrdersKept
  <2> QED BY <1>1, <2>2, <2>3 DEF Timely
<1>4. r.kind = "refund" => Timely(r, timeline', payments', receipts', commission')
  <2> SUFFICES ASSUME r.kind = "refund", r.order \in Orders
               PROVE  Backed(r.order, receipts', commission')
    BY DEF Timely, Sound, Refunding
  <2>1. /\ receipts[r.order] \in Nat /\ receipts'[r.order] \in Nat
        /\ receipts'[r.order] >= receipts[r.order]
    BY DEF PayTypes, MoneyStays
  <2>2. receipts[r.order] > 0 /\ commission[r.order] = "SUCCESS"
    BY DEF Timely, Backed
  <2> QED BY <2>1, <2>2 DEF Backed, MoneyStays
<1>5. r.kind \notin {"move", "settle", "fail", "refund"}
        => Timely(r, timeline', payments', receipts', commission')
  BY DEF Timely
<1> QED BY <1>2, <1>3, <1>4, <1>5

LEMMA RecordKept ==
    ASSUME PayInv, RecordInv, OrdersKept, Recorded, MoneyStays, OrdersRecorded,
           RequestsRecorded, commission' \in [Orders -> {"NONE", "PENDING", "SUCCESS"}]
    PROVE  RecordInv'
<1>1. RecordTypes' /\ \A o \in Orders : timeline[o] \subseteq timeline'[o]
  BY RecordedGrows DEF RecordInv, RecordTypes
<1>2. OnRecord'
  <2> SUFFICES ASSUME NEW o \in Orders
               PROVE  IF orders'[o].status # "ABSENT"
                      THEN orders'[o].status \in timeline'[o] /\ commission'[o] # "NONE"
                      ELSE timeline'[o] = {} /\ commission'[o] = "NONE"
    BY DEF OnRecord, Exists
  <2>1. CASE orders'[o].status = orders[o].status /\ Exists(o)
    BY <1>1, <2>1 DEF RecordInv, OnRecord, MoneyStays, Exists
  <2>2. CASE orders'[o].status = orders[o].status /\ ~ Exists(o)
    BY <2>2 DEF RecordInv, OnRecord, OrdersRecorded, Exists
  <2>3. CASE orders'[o].status # orders[o].status
    BY <2>3 DEF OrdersRecorded
  <2> QED BY <2>1, <2>2, <2>3
<1>3. RequestsTimely'
  BY TimelyStays DEF RequestsTimely, RequestsRecorded, RecordInv, PayInv, RequestsSound
<1>4. Caused'
  <2> SUFFICES ASSUME NEW o \in Orders, NEW s \in timeline'[o],
                      s \notin {"PENDING_PAYMENT", "PLACED"}
               PROVE  \E p \in timeline'[o] : AllowedMove(p, s)
    BY DEF Caused
  <2>1. CASE s \in timeline[o]
    BY <1>1, <2>1 DEF RecordInv, Caused
  <2>2. CASE s \notin timeline[o]
    BY <1>1, <2>2 DEF Recorded, CheckedOut, Reached, RecordInv, RecordTypes
  <2> QED BY <2>1, <2>2
<1>5. PaidHasReceipt'
  <2> SUFFICES ASSUME NEW o \in Orders, orders'[o].paymentStatus \in SETTLED_STATUSES
               PROVE  Backed(o, receipts', commission')
    BY DEF PaidHasReceipt, Backed
  <2>1. CASE orders[o].paymentStatus \in SETTLED_STATUSES
    <3>1. /\ receipts[o] \in Nat /\ receipts[o] > 0 /\ commission[o] = "SUCCESS"
          /\ receipts'[o] \in Nat /\ receipts'[o] >= receipts[o]
      BY <2>1 DEF RecordInv, PaidHasReceipt, MoneyStays, PayInv, PayTypes
    <3> QED BY <3>1 DEF MoneyStays, Backed
  <2>2. CASE orders[o].paymentStatus \notin SETTLED_STATUSES
    BY <2>2 DEF OrdersRecorded
  <2> QED BY <2>1, <2>2
<1> QED BY <1>1, <1>2, <1>3, <1>4, <1>5 DEF RecordInv

\* Most requests begin and end without writing anything.
LEMMA QuietRecord ==
    ASSUME PayInv, RecordInv, UNCHANGED tables, RequestsRecorded
    PROVE  RecordInv'
<1>1. /\ orders' = orders /\ payments' = payments /\ timeline' = timeline
      /\ receipts' = receipts /\ commission' = commission
  BY DEF tables
<1>2. OrdersKept /\ Recorded /\ OrdersRecorded
  BY <1>1 DEF OrdersKept, Recorded, OrdersRecorded, Exists
<1>3. MoneyStays /\ commission' \in [Orders -> {"NONE", "PENDING", "SUCCESS"}]
  BY <1>1 DEF MoneyStays, PayInv, PayTypes, RecordInv, RecordTypes
<1> QED BY <1>2, <1>3, RecordKept

\* The handler goes on with a request that is timely.
GoesOnTimely(h, tl, ps, rc, cm) ==
    \E r : req' = [req EXCEPT ![h] = r] /\ Timely(r, tl, ps, rc, cm)

LEMMA GoesOnRecorded ==
    ASSUME PayTypes, NEW h \in Handlers,
           GoesOnTimely(h, timeline', payments', receipts', commission')
    PROVE  RequestsRecorded
BY DEF PayTypes, GoesOnTimely, RequestsRecorded

\* Requests of these kinds remember no status.
LEMMA CarefreeTimely ==
    ASSUME NEW r, r.kind \notin {"move", "settle", "fail", "refund"},
           NEW tl, NEW ps, NEW rc, NEW cm
    PROVE  Timely(r, tl, ps, rc, cm)
BY DEF Timely

LEMMA TimelyQuiet ==
    ASSUME PayInv, RecordInv, NEW h \in Handlers, UNCHANGED tables,
           GoesOnTimely(h, timeline, payments, receipts, commission)
    PROVE  RecordInv'
<1>1. GoesOnTimely(h, timeline', payments', receipts', commission')
  BY DEF GoesOnTimely, tables
<1> QED BY <1>1, GoesOnRecorded, QuietRecord DEF PayInv

LEMMA CarefreeQuiet ==
    ASSUME PayInv, RecordInv, NEW h \in Handlers, UNCHANGED tables,
           NEW r, r.kind \notin {"move", "settle", "fail", "refund"},
           req' = [req EXCEPT ![h] = r]
    PROVE  RecordInv'
BY CarefreeTimely, TimelyQuiet DEF GoesOnTimely

LEMMA IdleQuiet ==
    ASSUME PayInv, RecordInv, NEW h \in Handlers, UNCHANGED tables, Finish(h)
    PROVE  RecordInv'
BY CarefreeQuiet DEF Finish, Idle

LEMMA DoneTimely ==
    ASSUME NEW h, NEW a, NEW via, NEW result, NEW tl, NEW ps, NEW rc, NEW cm,
           Done(h, a, via, result)
    PROVE  GoesOnTimely(h, tl, ps, rc, cm)
<1> PICK r : req' = [req EXCEPT ![h] = r] /\ r.kind \in {"resolve", "idle"}
  <2> DEFINE r == [kind |-> "resolve", payment |-> a, said |-> via.said, result |-> result]
  <2>1. r.kind = "resolve" /\ Idle.kind = "idle"
    BY DEF Idle
  <2>2. req' = [req EXCEPT ![h] = r] \/ req' = [req EXCEPT ![h] = Idle]
    BY DEF Done
  <2> HIDE DEF r
  <2> QED BY <2>1, <2>2
<1> QED BY CarefreeTimely DEF GoesOnTimely

LEMMA AfterFailTimely ==
    ASSUME NEW h, NEW a, NEW via, NEW then, NEW tl, NEW ps, NEW rc, NEW cm,
           AfterFail(h, a, via, then)
    PROVE  GoesOnTimely(h, tl, ps, rc, cm)
<1>1. CASE then = NULL
  BY <1>1, DoneTimely DEF AfterFail
<1>2. CASE then # NULL
  <2> DEFINE r == [kind |-> "checkout", step |-> "create",
                   order |-> payments[a].order, method |-> then]
  <2>1. r.kind = "checkout" /\ req' = [req EXCEPT ![h] = r]
    BY <1>2 DEF AfterFail, Reading
  <2> HIDE DEF r
  <2> QED BY <2>1, CarefreeTimely DEF GoesOnTimely
<1> QED BY <1>1, <1>2

\* The status an attempt's order is in is on record.
LEMMA PresentOnRecord ==
    ASSUME PayInv, RecordInv, NEW a \in Attempts, Known(a, payments)
    PROVE  orders[payments[a].order].status \in timeline[payments[a].order]
BY KnownRows DEF PayInv, RecordInv, OnRecord, Exists, Known

LEMMA SettleTimely ==
    ASSUME PayInv, RecordInv, NEW h, NEW a \in Attempts, NEW via, Known(a, payments),
           BeginSettle(h, a, via)
    PROVE  GoesOnTimely(h, timeline, payments, receipts, commission)
<1>1. CASE Done(h, a, via, "PROCESSED") \/ Done(h, a, via, "FAILED")
  BY <1>1, DoneTimely
<1>2. CASE Reading(h, [kind |-> "settle", payment |-> a, via |-> via,
                       orderStatus |-> orders[payments[a].order].status])
  <2> DEFINE r == [kind |-> "settle", payment |-> a, via |-> via,
                   orderStatus |-> orders[payments[a].order].status]
  <2>1. Timely(r, timeline, payments, receipts, commission)
    BY PresentOnRecord DEF Timely
  <2>2. req' = [req EXCEPT ![h] = r]
    BY <1>2 DEF Reading
  <2> HIDE DEF r
  <2> QED BY <2>1, <2>2 DEF GoesOnTimely
<1> QED BY <1>1, <1>2 DEF BeginSettle

LEMMA FailTimely ==
    ASSUME PayInv, RecordInv, NEW h, NEW a \in Attempts, NEW to, NEW failOrder, NEW via,
           NEW then, Known(a, payments), BeginFail(h, a, to, failOrder, via, then)
    PROVE  GoesOnTimely(h, timeline, payments, receipts, commission)
<1>1. CASE Done(h, a, via, "FAILED")
  BY <1>1, DoneTimely
<1>2. CASE AfterFail(h, a, via, then)
  BY <1>2, AfterFailTimely
<1>3. CASE Reading(h, [kind |-> "fail", payment |-> a, to |-> to,
                       failOrder |-> failOrder, via |-> via, then |-> then,
                       orderStatus |-> orders[payments[a].order].status])
  <2> DEFINE r == [kind |-> "fail", payment |-> a, to |-> to,
                   failOrder |-> failOrder, via |-> via, then |-> then,
                   orderStatus |-> orders[payments[a].order].status]
  <2>1. Timely(r, timeline, payments, receipts, commission)
    BY PresentOnRecord DEF Timely
  <2>2. req' = [req EXCEPT ![h] = r]
    BY <1>3 DEF Reading
  <2> HIDE DEF r
  <2> QED BY <2>1, <2>2 DEF GoesOnTimely
<1> QED BY <1>1, <1>2, <1>3 DEF BeginFail

LEMMA ApplyTimely ==
    ASSUME PayInv, RecordInv, NEW h, NEW a \in Attempts, NEW verdict, NEW via,
           Known(a, payments), Apply(h, a, verdict, via)
    PROVE  GoesOnTimely(h, timeline, payments, receipts, commission)
BY SettleTimely, FailTimely, DoneTimely DEF Apply

LEMMA OrderRequestsTimely ==
    ASSUME PayInv, RecordInv, NEW h \in Handlers,
           \/ \E c \in Carts, m \in PlacedWith : PlaceOrder(h, c, m)
           \/ \E o \in Orders, to \in OrderStatuses, as \in CallerTypes : Advance(h, o, to, as)
           \/ \E o \in Orders, as \in CallerTypes : Cancel(h, o, as)
           \/ BeginMove(h)
           \/ \E o \in Orders, amount \in 1 .. Total : Refund(h, o, amount)
           \/ BeginRefund(h) \/ Abandon(h)
    PROVE  RecordInv'
<1>1. Timely(req[h], timeline, payments, receipts, commission)
  BY DEF RecordInv, RequestsTimely
<1>2. ASSUME NEW c \in Carts, NEW m \in PlacedWith, PlaceOrder(h, c, m) PROVE RecordInv'
  <2> DEFINE r == [kind |-> "place", cart |-> c, method |-> m]
  <2>1. r.kind = "place" /\ req' = [req EXCEPT ![h] = r] /\ UNCHANGED tables
    BY <1>2 DEF PlaceOrder
  <2> HIDE DEF r
  <2> QED BY <2>1, CarefreeQuiet
<1>3. ASSUME NEW o \in Orders, NEW to, NEW as, Exists(o), MayMove(as, orders[o].status, to),
             StartMove(h, o, to), UNCHANGED tables
      PROVE  RecordInv'
  <2> DEFINE r == [kind |-> "move", step |-> "validated", order |-> o,
                   from |-> orders[o].status, to |-> to, method |-> orders[o].method]
  <2>1. orders[o].status \in timeline[o] /\ AllowedMove(orders[o].status, to)
    BY <1>3 DEF RecordInv, OnRecord, MayMove, AllowedMove
  <2>2. Timely(r, timeline, payments, receipts, commission)
    BY <2>1 DEF Timely
  <2>3. req' = [req EXCEPT ![h] = r]
    BY <1>3 DEF StartMove
  <2> HIDE DEF r
  <2> QED BY <1>3, <2>2, <2>3, TimelyQuiet DEF GoesOnTimely
<1>4. ASSUME NEW o \in Orders, NEW to \in OrderStatuses, NEW as \in CallerTypes,
             Advance(h, o, to, as)
      PROVE  RecordInv'
  BY <1>3, <1>4 DEF Advance
<1>5. ASSUME NEW o \in Orders, NEW as \in CallerTypes, Cancel(h, o, as) PROVE RecordInv'
  BY <1>3, <1>5 DEF Cancel
<1>6. ASSUME BeginMove(h) PROVE RecordInv'
  <2> DEFINE r == [req[h] EXCEPT !.step = "reading", !.method = orders[req[h].order].method]
  <2>1. req[h] \in Moving
    BY <1>6 DEF PayInv, RequestsSound, Sound, BeginMove, Is
  <2>2. r.from = req[h].from /\ r.to = req[h].to /\ r.order = req[h].order /\ r.kind = "move"
        /\ req[h].kind = "move"
    BY <2>1 DEF Moving
  <2>3. req' = [req EXCEPT ![h] = r] /\ UNCHANGED tables
    BY <1>6 DEF BeginMove, PayInv, PayTypes
  <2> HIDE DEF r
  <2>4. Timely(r, timeline, payments, receipts, commission)
    BY <1>1, <2>2 DEF Timely
  <2> QED BY <2>3, <2>4, TimelyQuiet DEF GoesOnTimely
<1>7. ASSUME NEW o \in Orders, NEW amount \in 1 .. Total, Refund(h, o, amount) PROVE RecordInv'
  <2> PICK a : req' = [req EXCEPT ![h] =
            [kind |-> "refund", step |-> "validated", order |-> o,
             payment |-> a, amount |-> amount, sum |-> 0]]
    BY <1>7 DEF Refund
  <2> DEFINE r == [kind |-> "refund", step |-> "validated", order |-> o,
                   payment |-> a, amount |-> amount, sum |-> 0]
  <2>1. Backed(o, receipts, commission)
    BY <1>7 DEF Refund, RecordInv, PaidHasReceipt, Backed, SETTLED_STATUSES
  <2>2. Timely(r, timeline, payments, receipts, commission)
    BY <2>1 DEF Timely
  <2>3. req' = [req EXCEPT ![h] = r] /\ UNCHANGED tables
    BY <1>7 DEF Refund
  <2> HIDE DEF r
  <2> QED BY <2>2, <2>3, TimelyQuiet DEF GoesOnTimely
<1>8. ASSUME BeginRefund(h) PROVE RecordInv'
  <2> DEFINE r == [req[h] EXCEPT !.step = "reading", !.sum = refunded[req[h].order]]
  <2>1. req[h] \in Refunding
    BY <1>8 DEF PayInv, RequestsSound, Sound, BeginRefund, Is
  <2>2. r.order = req[h].order /\ r.kind = "refund" /\ req[h].kind = "refund"
    BY <2>1 DEF Refunding
  <2>3. req' = [req EXCEPT ![h] = r] /\ UNCHANGED tables
    BY <1>8 DEF BeginRefund, PayInv, PayTypes
  <2> HIDE DEF r
  <2>4. Timely(r, timeline, payments, receipts, commission)
    BY <1>1, <2>2 DEF Timely
  <2> QED BY <2>3, <2>4, TimelyQuiet DEF GoesOnTimely
<1>9. ASSUME Abandon(h) PROVE RecordInv'
  BY <1>9, IdleQuiet DEF Abandon
<1> QED BY <1>2, <1>4, <1>5, <1>6, <1>7, <1>8, <1>9

LEMMA AttemptRequestsTimely ==
    ASSUME PayInv, RecordInv, NEW h \in Handlers,
           \/ ApplyCallback(h) \/ RefuseSettle(h) \/ Supersede(h)
           \/ \E a \in Attempts :
                \/ VerifyPayment(h, a) \/ CancelCheckout(h, a)
                \/ ExpirePayment(h, a) \/ FailPaymentAdmin(h, a)
    PROVE  RecordInv'
<1>1. Sound(req[h], orders, payments, gateway)
  BY DEF PayInv, RequestsSound
<1>2. CASE ApplyCallback(h)
  <2> DEFINE a == req[h].payment
             via == req[h].via
  <2>1. Known(a, payments) /\ UNCHANGED tables
        /\ \/ \E verdict \in {via.said, gateway[a]} : Apply(h, a, verdict, via)
           \/ Done(h, a, via, "RECEIVED")
    BY <1>1, <1>2 DEF ApplyCallback, Sound
  <2> HIDE DEF a, via
  <2> QED BY <2>1, ApplyTimely, DoneTimely, TimelyQuiet DEF Known
<1>3. CASE RefuseSettle(h)
  BY <1>3, DoneTimely, TimelyQuiet DEF RefuseSettle
<1>4. CASE Supersede(h)
  <2>1. Known(req[h].payment, payments) /\ UNCHANGED tables
        /\ BeginFail(h, req[h].payment, "CANCELLED", FALSE, OnRequest, req[h].method)
    BY <1>1, <1>4 DEF Supersede, Sound
  <2> QED BY <2>1, FailTimely, TimelyQuiet DEF Known
<1>5. ASSUME NEW a \in Attempts, VerifyPayment(h, a) PROVE RecordInv'
  BY <1>5, OpenedIsKnown, ApplyTimely, TimelyQuiet DEF VerifyPayment
<1>6. ASSUME NEW a \in Attempts,
             CancelCheckout(h, a) \/ ExpirePayment(h, a) \/ FailPaymentAdmin(h, a)
      PROVE  RecordInv'
  <2>1. Known(a, payments) /\ UNCHANGED tables
    BY <1>6, OpenedIsKnown DEF CancelCheckout, ExpirePayment, FailPaymentAdmin
  <2>2. \E to \in {"FAILED", "CANCELLED"}, failOrder \in BOOLEAN :
            BeginFail(h, a, to, failOrder, OnRequest, NULL)
    BY <1>6 DEF CancelCheckout, ExpirePayment, FailPaymentAdmin
  <2> QED BY <2>1, <2>2, FailTimely, TimelyQuiet
<1> QED BY <1>2, <1>3, <1>4, <1>5, <1>6

LEMMA CarefreeRequestsTimely ==
    ASSUME PayInv, RecordInv, NEW h \in Handlers,
           \/ FindOpenAttempt(h) \/ BeginTransfer(h) \/ ResolveCallback(h)
           \/ \E o \in Orders : MarkPaymentReceived(h, o)
           \/ \E o \in Orders, m \in PlacedWith : StartCheckout(h, o, m)
           \/ \E a \in Attempts :
                \/ ReceiveCallback(h, a) \/ ReceiveDuplicate(h, a) \/ ReplayCallback(h, a)
                \/ SettleCash(h, a)
    PROVE  RecordInv'
<1>1. Sound(req[h], orders, payments, gateway)
  BY DEF PayInv, RequestsSound
<1>2. CASE FindOpenAttempt(h)
  <2> DEFINE a == OpenAttempt(req[h].order)
             r == [req[h] EXCEPT !.step = "create"]
             s == [kind |-> "supersede", payment |-> a, method |-> req[h].method]
  <2>1. req[h] \in CheckoutRequests
    BY <1>1, <1>2 DEF FindOpenAttempt, Is, Sound
  <2>2. r.kind = "checkout" /\ s.kind = "supersede"
    BY <2>1 DEF CheckoutRequests
  <2>3. /\ UNCHANGED tables
        /\ Finish(h) \/ req' = [req EXCEPT ![h] = r] \/ req' = [req EXCEPT ![h] = s]
    BY <1>2 DEF FindOpenAttempt, Reading
  <2> HIDE DEF r, s
  <2> QED BY <2>2, <2>3, CarefreeQuiet, IdleQuiet
<1>3. CASE BeginTransfer(h)
  <2> DEFINE p == IF TransferAttempts(req[h].order) = {}
                  THEN NULL ELSE Max(TransferAttempts(req[h].order))
             r == [req[h] EXCEPT !.step = "reading", !.payment = p]
  <2>1. req[h] \in TransferRequests
    BY <1>1, <1>3 DEF BeginTransfer, Is, Sound
  <2>2. UNCHANGED tables /\ (Finish(h) \/ req' = [req EXCEPT ![h] = r])
    BY <1>3 DEF BeginTransfer, Reading
  <2> HIDE DEF p
  <2>3. r.kind = "transfer"
    BY <2>1 DEF TransferRequests
  <2> HIDE DEF r
  <2> QED BY <2>2, <2>3, CarefreeQuiet, IdleQuiet
<1>4. CASE ResolveCallback(h)
  BY <1>4, IdleQuiet DEF ResolveCallback
<1>5. ASSUME NEW o \in Orders, MarkPaymentReceived(h, o) PROVE RecordInv'
  <2> DEFINE r == [kind |-> "transfer", step |-> "validated", order |-> o, payment |-> NULL]
  <2>1. r.kind = "transfer" /\ req' = [req EXCEPT ![h] = r] /\ UNCHANGED tables
    BY <1>5 DEF MarkPaymentReceived, Reading
  <2> HIDE DEF r
  <2> QED BY <2>1, CarefreeQuiet
<1>6. ASSUME NEW o \in Orders, NEW m \in PlacedWith, StartCheckout(h, o, m) PROVE RecordInv'
  <2> DEFINE r == [kind |-> "checkout", step |-> "find", order |-> o, method |-> m]
  <2>1. r.kind = "checkout" /\ req' = [req EXCEPT ![h] = r] /\ UNCHANGED tables
    BY <1>6 DEF StartCheckout, Reading
  <2> HIDE DEF r
  <2> QED BY <2>1, CarefreeQuiet
<1>7. ASSUME NEW a \in Attempts, ReceiveCallback(h, a) \/ ReplayCallback(h, a) PROVE RecordInv'
  <2> PICK r : r.kind = "apply" /\ req' = [req EXCEPT ![h] = r]
    <3> DEFINE r(via) == [kind |-> "apply", payment |-> a, via |-> via]
    <3>1. \A via : r(via).kind = "apply"
      OBVIOUS
    <3>2. \E via : req' = [req EXCEPT ![h] = r(via)]
      BY <1>7 DEF ReceiveCallback, ReplayCallback, Reading
    <3> HIDE DEF r
    <3> QED BY <3>1, <3>2
  <2>1. UNCHANGED tables
    BY <1>7 DEF ReceiveCallback, ReplayCallback
  <2> QED BY <2>1, CarefreeQuiet
<1>8. ASSUME NEW a \in Attempts, ReceiveDuplicate(h, a) PROVE RecordInv'
  BY <1>8, QuietRecord DEF ReceiveDuplicate, vars, RequestsRecorded
<1>9. ASSUME NEW a \in Attempts, SettleCash(h, a) PROVE RecordInv'
  <2> DEFINE r == [kind |-> "cash", payment |-> a]
  <2>1. r.kind = "cash" /\ req' = [req EXCEPT ![h] = r] /\ UNCHANGED tables
    BY <1>9 DEF SettleCash, Reading
  <2> HIDE DEF r
  <2> QED BY <2>1, CarefreeQuiet
<1> QED BY <1>2, <1>3, <1>4, <1>5, <1>6, <1>7, <1>8, <1>9

LEMMA MoneyPosted ==
    ASSUME PayTypes, RecordTypes, NEW o \in Orders,
           \/ UNCHANGED receipts
           \/ \E ref : PostReceipt(o, ref),
           \/ UNCHANGED commission
           \/ ConfirmCommission(o)
           \/ commission' = [commission EXCEPT ![o] = "SUCCESS"]
    PROVE  /\ MoneyStays
           /\ commission' \in [Orders -> {"NONE", "PENDING", "SUCCESS"}]
           /\ \A q \in Orders : q # o => commission'[q] = commission[q]
<1>1. /\ commission' \in [Orders -> {"NONE", "PENDING", "SUCCESS"}]
      /\ \A q \in Orders : q # o => commission'[q] = commission[q]
      /\ commission[o] = "SUCCESS" => commission'[o] = "SUCCESS"
      /\ commission[o] # "NONE" => commission'[o] # "NONE"
  BY DEF RecordTypes, ConfirmCommission
<1>2. \A q \in Orders : receipts'[q] \in Nat /\ receipts'[q] >= receipts[q]
  BY DEF PostReceipt, PayTypes
<1> QED BY <1>1, <1>2 DEF MoneyStays

LEMMA PostedIsBacked ==
    ASSUME PayTypes, RecordTypes, NEW o \in Orders, NEW ref, PostReceipt(o, ref),
           \/ ConfirmCommission(o) /\ commission[o] # "NONE"
           \/ commission' = [commission EXCEPT ![o] = "SUCCESS"]
    PROVE  Backed(o, receipts', commission')
<1>1. receipts'[o] = receipts[o] + 1 /\ receipts[o] \in Nat
  BY DEF PostReceipt, PayTypes
<1>2. commission'[o] = "SUCCESS"
  BY DEF RecordTypes, ConfirmCommission
<1> QED BY <1>1, <1>2 DEF Backed

\* An order that exists is written, and nothing else of orders is.
LEMMA OneOrderRecorded ==
    ASSUME PayInv, RecordInv, NEW o \in Orders, Exists(o), MoneyStays,
           \A q \in Orders : q # o =>
              /\ orders'[q] = orders[q] /\ timeline'[q] = timeline[q]
              /\ commission'[q] = commission[q],
           \/ orders'[o].status = orders[o].status
           \/ orders'[o].status \in timeline'[o] /\ orders'[o].status # "ABSENT",
           orders'[o].paymentStatus \in SETTLED_STATUSES =>
              \/ orders[o].paymentStatus \in SETTLED_STATUSES
              \/ Backed(o, receipts', commission')
    PROVE  OrdersRecorded
<1>1. commission'[o] # "NONE"
  BY DEF RecordInv, OnRecord, MoneyStays
<1> QED BY <1>1 DEF OrdersRecorded

LEMMA PlaceRecord ==
    ASSUME PayInv, RecordInv, NEW h \in Handlers, NEW o \in Orders, CommitPlace(h, o)
    PROVE  RecordInv' /\ Recorded
<1> DEFINE c == req[h].cart
           m == req[h].method
           row == [status |-> InitialStatus(m), paymentStatus |-> "PENDING",
                   method |-> m, cart |-> c]
<1>1. /\ ~ Exists(o) /\ Finish(h)
      /\ orders' = [orders EXCEPT ![o] = row]
      /\ timeline' = [timeline EXCEPT ![o] = {InitialStatus(m)}]
      /\ commission' = [commission EXCEPT ![o] = "PENDING"]
      /\ UNCHANGED receipts
      /\ OpenPayment(o, m)
  BY DEF CommitPlace
<1>2. row.status \in {"PENDING_PAYMENT", "PLACED"} /\ row.paymentStatus = "PENDING"
      /\ row.status = InitialStatus(m)
  BY DEF InitialStatus
<1> HIDE DEF row
<1>3. timeline[o] = {} /\ commission[o] = "NONE"
  BY <1>1 DEF RecordInv, OnRecord
<1>4. CheckedOut(o) /\ Recorded
  BY <1>1, <1>2, <1>3 DEF CheckedOut, Recorded
<1>5. OrdersKept
  BY <1>1 DEF OpenPayment, NextAttempt, NoPayment, OrdersKept, PayInv, PayTypes
<1>6. MoneyStays /\ commission' \in [Orders -> {"NONE", "PENDING", "SUCCESS"}]
  BY <1>1, <1>3 DEF MoneyStays, PayInv, PayTypes, RecordInv, RecordTypes
<1>7. OrdersRecorded
  <2>1. ASSUME NEW q \in Orders, q # o
        PROVE  orders'[q] = orders[q] /\ timeline'[q] = timeline[q]
               /\ commission'[q] = commission[q]
    BY <1>1, <2>1 DEF PayInv, PayTypes, RecordInv, RecordTypes
  <2>2. /\ orders'[o] = row /\ timeline'[o] = {row.status} /\ commission'[o] = "PENDING"
    BY <1>1, <1>2 DEF PayInv, PayTypes, RecordInv, RecordTypes
  <2> QED BY <1>2, <2>1, <2>2 DEF OrdersRecorded, SETTLED_STATUSES
<1>8. RequestsRecorded
  BY <1>1, GoesOnRecorded, CarefreeTimely DEF Finish, Idle, GoesOnTimely, PayInv
<1> QED BY <1>4, <1>5, <1>6, <1>7, <1>8, RecordKept

LEMMA MoveRecord ==
    ASSUME PayInv, RecordInv, NEW h \in Handlers, CommitMove(h)
    PROVE  RecordInv' /\ Recorded
<1> DEFINE r == req[h]
           o == req[h].order
           p == IF CollectsCash(r) THEN "PAID" ELSE orders[o].paymentStatus
<1>1. /\ r \in Moving /\ o \in Orders /\ r.to \in OrderStatuses /\ Exists(o)
      /\ r.from \in timeline[o] /\ AllowedMove(r.from, r.to)
  BY DEF CommitMove, Is, PayInv, RequestsSound, Sound, Moving, Exists, RecordInv,
         RequestsTimely, Timely
<1>2. orders[o] \in OrderRows /\ orders \in [Orders -> OrderRows]
      /\ timeline \in [Orders -> SUBSET OrderStatuses]
  BY <1>1 DEF PayInv, PayTypes, RecordInv, RecordTypes
<1>3. /\ \A q \in Orders : q # o => orders'[q] = orders[q]
      /\ orders'[o].status = r.to /\ orders'[o].paymentStatus = p
  BY <1>1, <1>2 DEF CommitMove, OrderRows
<1>4. timeline' = [timeline EXCEPT ![o] = @ \cup {r.to}] /\ Finish(h)
  BY DEF CommitMove
<1>5. Recorded
  BY <1>1, <1>4 DEF Reached, Recorded
<1>6. /\ MoneyStays /\ OrdersKept
      /\ commission' \in [Orders -> {"NONE", "PENDING", "SUCCESS"}]
      /\ \A q \in Orders : q # o => commission'[q] = commission[q]
      /\ CollectsCash(r) => Backed(o, receipts', commission')
  <2>1. CASE ~ CollectsCash(r)
    <3>1. UNCHANGED <<receipts, payments, commission>>
      BY <2>1 DEF CommitMove
    <3> QED BY <1>1, <2>1, <3>1, MoneyPosted DEF OrdersKept, PayInv, RecordInv
  <2>2. CASE CollectsCash(r)
    <3>1. PayPending(o) /\ PostReceipt(o, OrderReference(o))
          /\ commission' = [commission EXCEPT ![o] = "SUCCESS"]
      BY <2>2 DEF CommitMove, SettleCashAtDoor
    <3>2. OrdersKept
      BY <3>1 DEF PayPending, OrdersKept, PayInv, PayTypes, PaymentRows
    <3> QED BY <1>1, <3>1, <3>2, MoneyPosted, PostedIsBacked DEF PayInv, RecordInv
  <2> QED BY <2>1, <2>2
<1>7. OrdersRecorded
  <2>1. orders'[o].status \in timeline'[o] /\ orders'[o].status # "ABSENT"
    BY <1>1, <1>2, <1>3, <1>4 DEF OrderStatuses
  <2>2. \A q \in Orders : q # o => timeline'[q] = timeline[q]
    BY <1>4, <1>2
  <2>3. orders'[o].paymentStatus \in SETTLED_STATUSES =>
          \/ orders[o].paymentStatus \in SETTLED_STATUSES
          \/ Backed(o, receipts', commission')
    BY <1>3, <1>6
  <2> QED BY <1>1, <1>3, <1>6, <2>1, <2>2, <2>3, OneOrderRecorded
<1>8. RequestsRecorded
  BY <1>4, GoesOnRecorded, CarefreeTimely DEF Finish, Idle, GoesOnTimely, PayInv
<1> QED BY <1>5, <1>6, <1>7, <1>8, RecordKept

LEMMA RefundRecord ==
    ASSUME PayInv, RecordInv, NEW h \in Handlers, CommitRefund(h)
    PROVE  RecordInv' /\ Recorded
<1> DEFINE r == req[h]
           o == req[h].order
           s == StatusAfterRefund(r.sum + r.amount)
<1>1. r \in Refunding /\ o \in Orders /\ Backed(o, receipts, commission)
  BY DEF CommitRefund, Is, PayInv, RequestsSound, Sound, Refunding, RecordInv,
         RequestsTimely, Timely
<1>2. orders' = [orders EXCEPT ![o].paymentStatus = s]
      /\ Finish(h) /\ UNCHANGED <<timeline, receipts, commission>>
      /\ payments' = [a \in Attempts |-> IF a = r.payment
                                         THEN [payments[a] EXCEPT !.status = s]
                                         ELSE payments[a]]
  BY DEF CommitRefund
<1> HIDE DEF s
<1>3. orders[o] \in OrderRows /\ orders \in [Orders -> OrderRows]
  BY <1>1 DEF PayInv, PayTypes
<1>4. /\ \A q \in Orders : q # o => orders'[q] = orders[q]
      /\ orders'[o].status = orders[o].status
  BY <1>1, <1>2, <1>3 DEF OrderRows
<1>5. Exists(o)
  BY <1>1 DEF RecordInv, OnRecord, Backed
<1>6. OrdersKept
  BY <1>2 DEF OrdersKept, PayInv, PayTypes, PaymentRows
<1>7. MoneyStays /\ commission' \in [Orders -> {"NONE", "PENDING", "SUCCESS"}]
  BY <1>1, <1>2, MoneyPosted DEF PayInv, RecordInv
<1>8. OrdersRecorded
  <2>1. Backed(o, receipts', commission')
    BY <1>1, <1>2 DEF Backed
  <2> QED BY <1>1, <1>2, <1>4, <1>5, <1>7, <2>1, OneOrderRecorded
<1>9. RequestsRecorded
  BY <1>2, GoesOnRecorded, CarefreeTimely DEF Finish, Idle, GoesOnTimely, PayInv
<1>10. Recorded
  BY <1>2 DEF Recorded
<1> QED BY <1>6, <1>7, <1>8, <1>9, <1>10, RecordKept

LEMMA SettleRecord ==
    ASSUME PayInv, RecordInv, NEW h \in Handlers, CommitSettle(h)
    PROVE  RecordInv' /\ Recorded
<1> DEFINE r == req[h]
           a == req[h].payment
           o == payments[a].order
           held == HeldForPayment(r.orderStatus)
<1>1. Known(a, payments) /\ r.orderStatus \in timeline[o]
  BY DEF CommitSettle, PayInv, RequestsSound, Sound, RecordInv, RequestsTimely, Timely
<1>2. a \in Attempts /\ o \in Orders /\ Exists(o)
      /\ orders[o] \in OrderRows /\ orders \in [Orders -> OrderRows]
      /\ timeline \in [Orders -> SUBSET OrderStatuses]
  BY <1>1, KnownRows DEF PayInv, PayTypes, Known, Exists, RecordInv, RecordTypes
<1>3. /\ payments' = [payments EXCEPT ![a].status = "PAID"]
      /\ orders' = [orders EXCEPT ![o].paymentStatus = "PAID",
                                  ![o].status = IF held THEN "PLACED" ELSE @]
      /\ timeline' = [timeline EXCEPT ![o] = IF held THEN @ \cup {"PLACED"} ELSE @]
      /\ PostReceipt(o, AttemptReference(a))
      /\ ConfirmCommission(o)
      /\ Done(h, a, r.via, "PROCESSED")
  BY DEF CommitSettle
<1>4. /\ \A q \in Orders : q # o => orders'[q] = orders[q] /\ timeline'[q] = timeline[q]
      /\ orders'[o].status = (IF held THEN "PLACED" ELSE orders[o].status)
      /\ timeline'[o] = (IF held THEN timeline[o] \cup {"PLACED"} ELSE timeline[o])
  BY <1>2, <1>3 DEF OrderRows
<1>5. Recorded
  <2>1. CASE held
    <3>1. AllowedMove("PENDING_PAYMENT", "PLACED") /\ "PLACED" \in OrderStatuses
      BY DEF AllowedMove, ORDER_TRANSITIONS, OrderStatuses
    <3> QED BY <1>1, <1>2, <1>3, <2>1, <3>1 DEF Recorded, Reached, HeldForPayment
  <2>2. CASE ~ held
    BY <1>2, <1>3, <2>2 DEF Recorded
  <2> QED BY <2>1, <2>2
<1>6. OrdersKept
  BY <1>3 DEF OrdersKept, PayInv, PayTypes, PaymentRows
<1>7. commission[o] # "NONE"
  BY <1>2 DEF RecordInv, OnRecord
<1>8. Backed(o, receipts', commission')
  BY <1>2, <1>3, <1>7, PostedIsBacked DEF PayInv, RecordInv
<1>9. /\ MoneyStays /\ commission' \in [Orders -> {"NONE", "PENDING", "SUCCESS"}]
      /\ \A q \in Orders : q # o => commission'[q] = commission[q]
  BY <1>2, <1>3, MoneyPosted DEF PayInv, RecordInv
<1>10. OrdersRecorded
  <2>1. \/ orders'[o].status = orders[o].status
        \/ orders'[o].status \in timeline'[o] /\ orders'[o].status # "ABSENT"
    BY <1>4
  <2> HIDE DEF o
  <2> QED BY <1>2, <1>4, <1>8, <1>9, <2>1, OneOrderRecorded
<1>11. RequestsRecorded
  BY <1>3, GoesOnRecorded, DoneTimely DEF PayInv
<1> QED BY <1>5, <1>6, <1>9, <1>10, <1>11, RecordKept

LEMMA FailRecord ==
    ASSUME PayInv, RecordInv, NEW h \in Handlers, CommitFail(h)
    PROVE  RecordInv' /\ Recorded
<1> DEFINE r == req[h]
           a == req[h].payment
           o == payments[a].order
           dies == r.failOrder /\ HeldForPayment(r.orderStatus)
<1>1. Known(a, payments) /\ r.orderStatus \in timeline[o]
  BY DEF CommitFail, PayInv, RequestsSound, Sound, RecordInv, RequestsTimely, Timely
<1>2. a \in Attempts /\ o \in Orders /\ Exists(o)
      /\ orders[o] \in OrderRows /\ orders \in [Orders -> OrderRows]
      /\ timeline \in [Orders -> SUBSET OrderStatuses]
  BY <1>1, KnownRows DEF PayInv, PayTypes, Known, Exists, RecordInv, RecordTypes
<1>3. /\ payments' = [payments EXCEPT ![a].status = r.to]
      /\ IF dies
         THEN /\ orders' = [orders EXCEPT ![o].status = "FAILED", ![o].paymentStatus = "FAILED"]
              /\ timeline' = [timeline EXCEPT ![o] = @ \cup {"FAILED"}]
         ELSE UNCHANGED <<orders, timeline>>
      /\ AfterFail(h, a, r.via, r.then)
      /\ UNCHANGED <<receipts, commission>>
  BY DEF CommitFail
<1>4. /\ \A q \in Orders : q # o => orders'[q] = orders[q] /\ timeline'[q] = timeline[q]
      /\ \/ orders'[o] = orders[o]
         \/ /\ orders'[o].status = "FAILED" /\ orders'[o].paymentStatus = "FAILED"
            /\ "FAILED" \in timeline'[o]
  <2>1. CASE dies
    <3> HIDE DEF o, dies
    <3>1. \A q \in Orders : q # o => orders'[q] = orders[q] /\ timeline'[q] = timeline[q]
      BY <1>2, <1>3, <2>1
    <3>2. orders'[o].status = "FAILED" /\ orders'[o].paymentStatus = "FAILED"
      BY <1>2, <1>3, <2>1 DEF OrderRows
    <3>3. "FAILED" \in timeline'[o]
      BY <1>2, <1>3, <2>1
    <3> QED BY <3>1, <3>2, <3>3
  <2>2. CASE ~ dies
    BY <1>3, <2>2
  <2> QED BY <2>1, <2>2
<1>5. Recorded
  <2>1. CASE dies
    <3>1. AllowedMove("PENDING_PAYMENT", "FAILED") /\ "FAILED" \in OrderStatuses
      BY DEF AllowedMove, ORDER_TRANSITIONS, OrderStatuses
    <3> QED BY <1>1, <1>2, <1>3, <2>1, <3>1 DEF Recorded, Reached, HeldForPayment
  <2>2. CASE ~ dies
    BY <1>3, <2>2 DEF Recorded
  <2> QED BY <2>1, <2>2
<1>6. OrdersKept
  BY <1>3 DEF OrdersKept, PayInv, PayTypes, PaymentRows
<1>7. MoneyStays /\ commission' \in [Orders -> {"NONE", "PENDING", "SUCCESS"}]
  BY <1>2, <1>3, MoneyPosted DEF PayInv, RecordInv
<1>8. OrdersRecorded
  <2> HIDE DEF o
  <2> QED BY <1>2, <1>3, <1>4, <1>7, OneOrderRecorded DEF SETTLED_STATUSES
<1>9. RequestsRecorded
  BY <1>3, GoesOnRecorded, AfterFailTimely DEF PayInv
<1> QED BY <1>5, <1>6, <1>7, <1>8, <1>9, RecordKept

LEMMA CashRecord ==
    ASSUME PayInv, RecordInv, NEW h \in Handlers, CommitCash(h)
    PROVE  RecordInv' /\ Recorded
<1> DEFINE a == req[h].payment
           o == payments[a].order
<1>1. Known(a, payments)
  BY DEF CommitCash, PayInv, RequestsSound, Sound
<1>2. a \in Attempts /\ o \in Orders /\ Exists(o)
      /\ orders[o] \in OrderRows /\ orders \in [Orders -> OrderRows]
  BY <1>1, KnownRows DEF PayInv, PayTypes, Known, Exists
<1>3. /\ payments' = [payments EXCEPT ![a].status = "PAID"]
      /\ orders' = [orders EXCEPT ![o].paymentStatus = "PAID"]
      /\ PostReceipt(o, AttemptReference(a)) /\ ConfirmCommission(o) /\ Finish(h)
      /\ UNCHANGED timeline
  BY DEF CommitCash
<1>4. /\ \A q \in Orders : q # o => orders'[q] = orders[q]
      /\ orders'[o].status = orders[o].status
  BY <1>2, <1>3 DEF OrderRows
<1>5. OrdersKept
  BY <1>3 DEF OrdersKept, PayInv, PayTypes, PaymentRows
<1>6. commission[o] # "NONE"
  BY <1>2 DEF RecordInv, OnRecord
<1>7. Backed(o, receipts', commission')
  BY <1>2, <1>3, <1>6, PostedIsBacked DEF PayInv, RecordInv
<1>8. /\ MoneyStays /\ commission' \in [Orders -> {"NONE", "PENDING", "SUCCESS"}]
      /\ \A q \in Orders : q # o => commission'[q] = commission[q]
  BY <1>2, <1>3, MoneyPosted DEF PayInv, RecordInv
<1>9. OrdersRecorded
  <2> HIDE DEF o
  <2> QED BY <1>2, <1>3, <1>4, <1>7, <1>8, OneOrderRecorded
<1>10. RequestsRecorded /\ Recorded
  BY <1>3, GoesOnRecorded, CarefreeTimely DEF Finish, Idle, GoesOnTimely, PayInv, Recorded
<1> QED BY <1>5, <1>8, <1>9, <1>10, RecordKept

LEMMA CreateRecord ==
    ASSUME PayInv, RecordInv, NEW h \in Handlers, CreateAttempt(h)
    PROVE  RecordInv' /\ Recorded
<1>1. UNCHANGED <<orders, timeline, receipts, commission>> /\ Finish(h)
  BY DEF CreateAttempt
<1>2. OrdersKept
  BY DEF CreateAttempt, NextAttempt, NoPayment, OrdersKept, PayInv, PayTypes
<1>3. MoneyStays /\ commission' \in [Orders -> {"NONE", "PENDING", "SUCCESS"}]
  BY <1>1 DEF MoneyStays, PayInv, PayTypes, RecordInv, RecordTypes
<1>4. OrdersRecorded /\ Recorded
  BY <1>1 DEF OrdersRecorded, Recorded
<1>5. RequestsRecorded
  BY <1>1, GoesOnRecorded, CarefreeTimely DEF Finish, Idle, GoesOnTimely, PayInv
<1> QED BY <1>2, <1>3, <1>4, <1>5, RecordKept

LEMMA TransferRecord ==
    ASSUME PayInv, RecordInv, NEW h \in Handlers, CommitTransfer(h)
    PROVE  RecordInv' /\ Recorded
<1> DEFINE o == req[h].order
           p == req[h].payment
           paid == [PendingPayment(o, "QR_TRANSFER") EXCEPT !.status = "PAID"]
<1>1. /\ o \in Orders /\ Exists(o)
      /\ p # NULL => payments[p].order = o
  BY DEF CommitTransfer, Is, PayInv, RequestsSound, Sound, TransferRequests, Exists
<1> PICK a \in Attempts :
        /\ IF p = NULL THEN NextAttempt(a) ELSE a = p
        /\ payments' = [b \in Attempts |->
             IF b = a THEN paid
             ELSE IF b \in AttemptsOf(o) /\ IsOpen(b)
                  THEN [payments[b] EXCEPT !.status = "CANCELLED"]
                  ELSE payments[b]]
        /\ PostReceipt(o, AttemptReference(a))
  BY DEF CommitTransfer
<1>2. /\ orders' = [orders EXCEPT ![o].paymentStatus = "PAID", ![o].method = "QR_TRANSFER"]
      /\ ConfirmCommission(o) /\ Finish(h) /\ UNCHANGED timeline
  BY DEF CommitTransfer
<1>3. orders[o] \in OrderRows /\ orders \in [Orders -> OrderRows]
  BY <1>1 DEF PayInv, PayTypes
<1>4. /\ \A q \in Orders : q # o => orders'[q] = orders[q]
      /\ orders'[o].status = orders[o].status
  BY <1>1, <1>2, <1>3 DEF OrderRows
<1>5. OrdersKept
  <2>1. paid.order = o
    BY DEF PendingPayment
  <2>2. payments[a].order = NULL \/ payments[a].order = o
    BY <1>1 DEF NextAttempt, NoPayment
  <2> HIDE DEF paid
  <2> QED BY <2>1, <2>2 DEF OrdersKept, PayInv, PayTypes, PaymentRows
<1>6. commission[o] # "NONE"
  BY <1>1 DEF RecordInv, OnRecord
<1>7. Backed(o, receipts', commission')
  BY <1>1, <1>2, <1>6, PostedIsBacked DEF PayInv, RecordInv
<1>8. /\ MoneyStays /\ commission' \in [Orders -> {"NONE", "PENDING", "SUCCESS"}]
      /\ \A q \in Orders : q # o => commission'[q] = commission[q]
  BY <1>1, <1>2, MoneyPosted DEF PayInv, RecordInv
<1>9. OrdersRecorded
  BY <1>1, <1>2, <1>4, <1>7, <1>8, OneOrderRecorded
<1>10. RequestsRecorded /\ Recorded
  BY <1>2, GoesOnRecorded, CarefreeTimely DEF Finish, Idle, GoesOnTimely, PayInv, Recorded
<1> QED BY <1>5, <1>8, <1>9, <1>10, RecordKept

LEMMA RecordStepKept ==
    ASSUME PayInv, RecordInv, [PayNext]_payVars
    PROVE  RecordInv' /\ Recorded
<1>0. ASSUME UNCHANGED tables PROVE Recorded
  BY <1>0 DEF Recorded, tables
<1>1. CASE UNCHANGED payVars
  BY <1>0, <1>1, QuietRecord DEF payVars, vars, RequestsRecorded
<1>2. ASSUME NEW a \in Attempts, GatewayStep(a) PROVE RecordInv' /\ Recorded
  <2>1. UNCHANGED <<tables, req>>
    BY <1>2 DEF GatewayStep, CustomerPays, GatewayDeclines, WindowCloses, vars
  <2> QED BY <2>1, <1>0, QuietRecord DEF RequestsRecorded
<1>3. ASSUME NEW h \in Handlers, Step(h) PROVE RecordInv' /\ Recorded
  <2>1. CASE \/ \E o \in Orders : CommitPlace(h, o)
             \/ CommitMove(h) \/ CommitRefund(h)
    BY <2>1, PlaceRecord, MoveRecord, RefundRecord
  <2>2. CASE \/ \E c \in Carts, m \in PlacedWith : PlaceOrder(h, c, m)
             \/ \E o \in Orders, to \in OrderStatuses, as \in CallerTypes : Advance(h, o, to, as)
             \/ \E o \in Orders, as \in CallerTypes : Cancel(h, o, as)
             \/ BeginMove(h)
             \/ \E o \in Orders, amount \in 1 .. Total : Refund(h, o, amount)
             \/ BeginRefund(h) \/ Abandon(h)
    <3>1. UNCHANGED tables
      BY <2>2 DEF PlaceOrder, Advance, Cancel, BeginMove, Refund, BeginRefund, Abandon
    <3> QED BY <2>2, <3>1, <1>0, OrderRequestsTimely
  <2> QED BY <1>3, <2>1, <2>2 DEF Step
<1>4. ASSUME NEW h \in Handlers, PayStep(h) PROVE RecordInv' /\ Recorded
  <2>1. CASE CommitSettle(h) \/ CommitFail(h) \/ CommitCash(h) \/ CreateAttempt(h)
             \/ CommitTransfer(h)
    BY <2>1, SettleRecord, FailRecord, CashRecord, CreateRecord, TransferRecord
  <2>2. CASE \/ ApplyCallback(h) \/ RefuseSettle(h) \/ Supersede(h)
             \/ \E a \in Attempts :
                  \/ VerifyPayment(h, a) \/ CancelCheckout(h, a)
                  \/ ExpirePayment(h, a) \/ FailPaymentAdmin(h, a)
    <3>1. UNCHANGED tables
      BY <2>2 DEF ApplyCallback, RefuseSettle, Supersede, VerifyPayment, CancelCheckout,
                  ExpirePayment, FailPaymentAdmin
    <3> QED BY <2>2, <3>1, <1>0, AttemptRequestsTimely
  <2>3. CASE \/ FindOpenAttempt(h) \/ BeginTransfer(h) \/ ResolveCallback(h)
             \/ \E o \in Orders : MarkPaymentReceived(h, o)
             \/ \E o \in Orders, m \in PlacedWith : StartCheckout(h, o, m)
             \/ \E a \in Attempts :
                  \/ ReceiveCallback(h, a) \/ ReceiveDuplicate(h, a) \/ ReplayCallback(h, a)
                  \/ SettleCash(h, a)
    <3>1. UNCHANGED tables
      BY <2>3 DEF FindOpenAttempt, BeginTransfer, ResolveCallback, MarkPaymentReceived,
                  StartCheckout, ReceiveCallback, ReceiveDuplicate, ReplayCallback,
                  SettleCash, vars
    <3> QED BY <2>3, <3>1, <1>0, CarefreeRequestsTimely
  <2> QED BY <1>4, <2>1, <2>2, <2>3 DEF PayStep
<1> QED BY <1>1, <1>2, <1>3, <1>4 DEF PayNext, HandlerStep

LEMMA RecordInvInitially == PayInit => RecordInv
<1> SUFFICES ASSUME PayInit PROVE RecordInv
  OBVIOUS
<1>1. \A o \in Orders : orders[o] = NoOrder /\ timeline[o] = {} /\ commission[o] = "NONE"
  BY DEF PayInit, Init
<1>2. \A h \in Handlers : req[h].kind = "idle"
  BY DEF PayInit, Init, Idle
<1>3. RequestsTimely
  BY <1>2 DEF RequestsTimely, Timely
<1>4. RecordTypes
  BY DEF PayInit, Init, RecordTypes
<1> QED BY <1>1, <1>3, <1>4
     DEF RecordInv, OnRecord, Caused, PaidHasReceipt, Exists, NoOrder, SETTLED_STATUSES

\* Orders and payments together: the history of an order always shows the
\* status it is in, every status in it was reached along the table, and an
\* order shown as paid is backed by the ledger.
THEOREM RecordInvariant == PaySpec => []RecordInv
<1>1. PayInit => RecordInv
  BY RecordInvInitially
<1>2. PayInv /\ RecordInv /\ [PayNext]_payVars => RecordInv'
  BY RecordStepKept
<1> QED BY <1>1, <1>2, PaymentsInvariant, PTL DEF PaySpec

\* An order is shown as paid or refunded only when the ledger has a receipt
\* for it and its commission was confirmed, whichever way the money came:
\* gateway, cash in the office or at the door, or a transfer.
THEOREM PaidIsBackedByLedger == PaySpec => []PaidHasReceipt
<1>1. RecordInv => PaidHasReceipt
  BY DEF RecordInv
<1> QED BY <1>1, RecordInvariant, PTL

\* The table's rows, read backwards from the door to the checkout.
LEMMA Predecessors ==
    ASSUME NEW p
    PROVE  /\ AllowedMove(p, "DELIVERED") => p \in {"READY_FOR_PICKUP", "ON_THE_WAY"}
           /\ AllowedMove(p, "ON_THE_WAY") => p = "PICKED_UP"
           /\ AllowedMove(p, "PICKED_UP") => p = "READY_FOR_PICKUP"
           /\ AllowedMove(p, "READY_FOR_PICKUP") => p = "PREPARING"
           /\ AllowedMove(p, "PREPARING") => p = "CONFIRMED"
           /\ AllowedMove(p, "CONFIRMED") => p = "PLACED"
BY DEF AllowedMove, ORDER_TRANSITIONS

\* No order is delivered that was not accepted, cooked and made ready, even
\* when settlements and expiries write its status too.
THEOREM PaidOrdersAreCooked == PaySpec => []KitchenBeforeDoor
<1>1. ASSUME Caused PROVE KitchenBeforeDoor
  <2> SUFFICES ASSUME NEW o \in Orders, "DELIVERED" \in timeline[o]
               PROVE  {"PLACED", "CONFIRMED", "PREPARING", "READY_FOR_PICKUP"}
                        \subseteq timeline[o]
    BY DEF KitchenBeforeDoor
  <2>1. "READY_FOR_PICKUP" \in timeline[o]
    BY <1>1, Predecessors DEF Caused
  <2>2. "PREPARING" \in timeline[o]
    BY <2>1, <1>1, Predecessors DEF Caused
  <2>3. "CONFIRMED" \in timeline[o]
    BY <2>2, <1>1, Predecessors DEF Caused
  <2>4. "PLACED" \in timeline[o]
    BY <2>3, <1>1, Predecessors DEF Caused
  <2> QED BY <2>1, <2>2, <2>3, <2>4
<1>2. RecordInv => KitchenBeforeDoor
  BY <1>1 DEF RecordInv
<1> QED BY <1>2, RecordInvariant, PTL

\* Payments that release or fail an order keep to the order's lifecycle: the
\* two modules together implement the abstract history of statuses.
THEOREM HistoryImplementedWithPayments == PaySpec => ImplementsHistory
<1>1. PayInit => History!Init
  BY DEF PayInit, Init, History!Init
<1>2. PayInv /\ RecordInv /\ [PayNext]_payVars => [History!Next]_timeline
  <2> SUFFICES ASSUME PayInv, RecordInv, [PayNext]_payVars
               PROVE  [History!Next]_timeline
    OBVIOUS
  <2>1. Recorded
    BY RecordStepKept
  <2>2. \A from, to : AllowedMove(from, to) => History!AllowedMove(from, to)
    BY DEF AllowedMove, History!AllowedMove, ORDER_TRANSITIONS, History!ORDER_TRANSITIONS
  <2>3. OrderStatuses = History!OrderStatuses
    BY DEF OrderStatuses, History!OrderStatuses
  <2>4. ASSUME NEW o \in Orders, CheckedOut(o) PROVE History!CheckOut(o)
    BY <2>4 DEF CheckedOut, History!CheckOut
  <2>5. ASSUME NEW o \in Orders, Reached(o) PROVE History!Reach(o)
    BY <2>2, <2>3, <2>5 DEF Reached, History!Reach
  <2> QED BY <2>1, <2>4, <2>5 DEF Recorded, History!Next
<1> QED BY <1>1, <1>2, PaymentsInvariant, RecordInvariant, PTL
     DEF PaySpec, ImplementsHistory, History!Spec

-----------------------------------------------------------------------------
(* One request at a time.  What a request has read is then still so when   *)
(* it writes, and the modules keep the two stricter contracts.             *)

OneAtATime == \A g, h \in Handlers : g = h

\* What the request r read is still so; os, ps and rf are the orders, the
\* payments and the refunds.
Fresh(r, os, ps, rf) ==
    /\ r.kind = "move" => r.from = os[r.order].status
    /\ r.kind = "refund" =>
        /\ r.amount <= Total - rf[r.order]
        /\ r.payment # NULL => ps[r.payment].status = "PAID"
    /\ r.kind = "settle" =>
        /\ MaySettle(ps[r.payment].status)
        /\ r.orderStatus = os[ps[r.payment].order].status
    /\ r.kind = "cash" => MaySettle(ps[r.payment].status)
    /\ r.kind = "fail" =>
        /\ ps[r.payment].status \in OPEN_STATUSES
        /\ r.orderStatus = os[ps[r.payment].order].status
    /\ r.kind = "transfer" /\ r.payment # NULL => ps[r.payment].status \in OPEN_STATUSES

FreshRequests == \A h \in Handlers : Fresh(req[h], orders, payments, refunded)

\* Stock comes back only with the end of an order, and no refund exceeds
\* what was paid.
EndsOnce ==
    /\ returned \in [Orders -> Nat]
    /\ \A o \in Orders : returned[o] # 0 => orders[o].status \in TERMINAL_STATUSES
    /\ refunded \in [Orders -> 0 .. Total]

SerialInv == FreshRequests /\ EndsOnce

\* The handler goes on with a request that is fresh.
GoesOnFresh(h, os, ps, rf) ==
    \E r : req' = [req EXCEPT ![h] = r] /\ Fresh(r, os, ps, rf)

LEMMA SerialKept ==
    ASSUME PayTypes, OneAtATime, NEW h \in Handlers, EndsOnce',
           GoesOnFresh(h, orders', payments', refunded')
    PROVE  SerialInv'
<1> PICK r : req' = [req EXCEPT ![h] = r] /\ Fresh(r, orders', payments', refunded')
  BY DEF GoesOnFresh
<1>1. \A g \in Handlers : g = h /\ req'[g] = r
  BY DEF OneAtATime, PayTypes
<1> QED BY <1>1 DEF SerialInv, FreshRequests

LEMMA SerialQuiet ==
    ASSUME PayTypes, OneAtATime, SerialInv, NEW h \in Handlers, UNCHANGED tables,
           GoesOnFresh(h, orders, payments, refunded)
    PROVE  SerialInv'
<1>1. /\ orders' = orders /\ payments' = payments /\ refunded' = refunded
      /\ returned' = returned
  BY DEF tables
<1>2. EndsOnce'
  BY <1>1 DEF SerialInv, EndsOnce
<1>3. GoesOnFresh(h, orders', payments', refunded')
  BY <1>1
<1> QED BY <1>2, <1>3, SerialKept

\* Requests of these kinds remember nothing that could change.
Carefree == {"idle", "place", "apply", "resolve", "checkout", "supersede"}

LEMMA CarefreeFresh ==
    ASSUME NEW h, NEW r, r.kind \in Carefree, req' = [req EXCEPT ![h] = r],
           NEW os, NEW ps, NEW rf
    PROVE  GoesOnFresh(h, os, ps, rf)
BY DEF GoesOnFresh, Fresh, Carefree

LEMMA IdleFresh ==
    ASSUME NEW h, Finish(h), NEW os, NEW ps, NEW rf
    PROVE  GoesOnFresh(h, os, ps, rf)
<1>1. Idle.kind \in Carefree
  BY DEF Idle, Carefree
<1>2. req' = [req EXCEPT ![h] = Idle]
  BY DEF Finish
<1> QED BY <1>1, <1>2, CarefreeFresh

LEMMA DoneFresh ==
    ASSUME NEW h, NEW a, NEW via, NEW result, NEW os, NEW ps, NEW rf,
           Done(h, a, via, result)
    PROVE  GoesOnFresh(h, os, ps, rf)
<1> DEFINE r == [kind |-> "resolve", payment |-> a, said |-> via.said, result |-> result]
<1>1. r.kind \in Carefree /\ Idle.kind \in Carefree
  BY DEF Idle, Carefree
<1>2. req' = [req EXCEPT ![h] = r] \/ req' = [req EXCEPT ![h] = Idle]
  BY DEF Done
<1> HIDE DEF r
<1> QED BY <1>1, <1>2, CarefreeFresh

LEMMA AfterFailFresh ==
    ASSUME NEW h, NEW a, NEW via, NEW then, NEW os, NEW ps, NEW rf,
           AfterFail(h, a, via, then)
    PROVE  GoesOnFresh(h, os, ps, rf)
<1>1. CASE then = NULL
  BY <1>1, DoneFresh DEF AfterFail
<1>2. CASE then # NULL
  <2> DEFINE r == [kind |-> "checkout", step |-> "create",
                   order |-> payments[a].order, method |-> then]
  <2>1. r.kind \in Carefree /\ req' = [req EXCEPT ![h] = r]
    BY <1>2 DEF AfterFail, Reading, Carefree
  <2> HIDE DEF r
  <2> QED BY <2>1, CarefreeFresh
<1> QED BY <1>1, <1>2

LEMMA SettleFresh ==
    ASSUME NEW h, NEW a, NEW via, BeginSettle(h, a, via)
    PROVE  GoesOnFresh(h, orders, payments, refunded)
<1>1. CASE Done(h, a, via, "PROCESSED") \/ Done(h, a, via, "FAILED")
  BY <1>1, DoneFresh
<1>2. CASE /\ MaySettle(payments[a].status)
           /\ Reading(h, [kind |-> "settle", payment |-> a, via |-> via,
                          orderStatus |-> orders[payments[a].order].status])
  <2> DEFINE r == [kind |-> "settle", payment |-> a, via |-> via,
                   orderStatus |-> orders[payments[a].order].status]
  <2>1. Fresh(r, orders, payments, refunded)
    BY <1>2 DEF Fresh
  <2>2. req' = [req EXCEPT ![h] = r]
    BY <1>2 DEF Reading
  <2> HIDE DEF r
  <2> QED BY <2>1, <2>2 DEF GoesOnFresh
<1> QED BY <1>1, <1>2 DEF BeginSettle

LEMMA FailFresh ==
    ASSUME PayInv, NEW h, NEW a \in Attempts, NEW to, NEW failOrder, NEW via, NEW then,
           Known(a, payments), BeginFail(h, a, to, failOrder, via, then)
    PROVE  GoesOnFresh(h, orders, payments, refunded)
<1>1. CASE Done(h, a, via, "FAILED")
  BY <1>1, DoneFresh
<1>2. CASE AfterFail(h, a, via, then)
  BY <1>2, AfterFailFresh
<1>3. CASE /\ MayFail(payments[a].status) /\ ~ IsTerminalPayment(payments[a].status)
           /\ Reading(h, [kind |-> "fail", payment |-> a, to |-> to,
                          failOrder |-> failOrder, via |-> via, then |-> then,
                          orderStatus |-> orders[payments[a].order].status])
  <2> DEFINE r == [kind |-> "fail", payment |-> a, to |-> to,
                   failOrder |-> failOrder, via |-> via, then |-> then,
                   orderStatus |-> orders[payments[a].order].status]
  <2>1. payments[a].status \in OPEN_STATUSES
    BY <1>3, KnownRows DEF PayInv, Known, MayFail, IsTerminalPayment, PAYMENT_TRANSITIONS,
       PaymentStatuses, SETTLED_STATUSES, OPEN_STATUSES
  <2>2. Fresh(r, orders, payments, refunded)
    BY <2>1 DEF Fresh
  <2>3. req' = [req EXCEPT ![h] = r]
    BY <1>3 DEF Reading
  <2> HIDE DEF r
  <2> QED BY <2>2, <2>3 DEF GoesOnFresh
<1> QED BY <1>1, <1>2, <1>3 DEF BeginFail

LEMMA ApplyFresh ==
    ASSUME PayInv, NEW h, NEW a \in Attempts, NEW verdict, NEW via, Known(a, payments),
           Apply(h, a, verdict, via)
    PROVE  GoesOnFresh(h, orders, payments, refunded)
BY SettleFresh, FailFresh, DoneFresh DEF Apply

LEMMA OrderRequestsFresh ==
    ASSUME PayInv, SerialInv, OneAtATime, NEW h \in Handlers,
           \/ \E c \in Carts, m \in PlacedWith : PlaceOrder(h, c, m)
           \/ \E o \in Orders, to \in OrderStatuses, as \in CallerTypes : Advance(h, o, to, as)
           \/ \E o \in Orders, as \in CallerTypes : Cancel(h, o, as)
           \/ BeginMove(h)
           \/ \E o \in Orders, amount \in 1 .. Total : Refund(h, o, amount)
           \/ BeginRefund(h) \/ Abandon(h)
    PROVE  SerialInv'
<1>1. Fresh(req[h], orders, payments, refunded) /\ PayTypes
  BY DEF SerialInv, FreshRequests, PayInv
<1>2. ASSUME NEW c \in Carts, NEW m \in PlacedWith, PlaceOrder(h, c, m) PROVE SerialInv'
  <2> DEFINE r == [kind |-> "place", cart |-> c, method |-> m]
  <2>1. r.kind \in Carefree /\ req' = [req EXCEPT ![h] = r] /\ UNCHANGED tables
    BY <1>2 DEF PlaceOrder, Carefree
  <2> HIDE DEF r
  <2> QED BY <1>1, <2>1, CarefreeFresh, SerialQuiet
<1>3. ASSUME NEW o, NEW to, StartMove(h, o, to), UNCHANGED tables PROVE SerialInv'
  <2> DEFINE r == [kind |-> "move", step |-> "validated", order |-> o,
                   from |-> orders[o].status, to |-> to, method |-> orders[o].method]
  <2>1. Fresh(r, orders, payments, refunded)
    BY DEF Fresh
  <2>2. req' = [req EXCEPT ![h] = r]
    BY <1>3 DEF StartMove
  <2> HIDE DEF r
  <2> QED BY <1>1, <1>3, <2>1, <2>2, SerialQuiet DEF GoesOnFresh
<1>4. ASSUME NEW o \in Orders, NEW to \in OrderStatuses, NEW as \in CallerTypes,
             Advance(h, o, to, as)
      PROVE  SerialInv'
  BY <1>3, <1>4 DEF Advance
<1>5. ASSUME NEW o \in Orders, NEW as \in CallerTypes, Cancel(h, o, as) PROVE SerialInv'
  BY <1>3, <1>5 DEF Cancel
<1>6. ASSUME BeginMove(h) PROVE SerialInv'
  <2> DEFINE r == [req[h] EXCEPT !.step = "reading", !.method = orders[req[h].order].method]
  <2>1. req[h] \in Moving
    BY <1>6 DEF PayInv, RequestsSound, Sound, BeginMove, Is
  <2>2. r.from = req[h].from /\ r.order = req[h].order /\ r.kind = "move" /\ req[h].kind = "move"
    BY <2>1 DEF Moving
  <2>3. req' = [req EXCEPT ![h] = r] /\ UNCHANGED tables
    BY <1>6 DEF BeginMove, PayInv, PayTypes
  <2> HIDE DEF r
  <2>4. Fresh(r, orders, payments, refunded)
    BY <1>1, <2>2 DEF Fresh
  <2> QED BY <1>1, <2>3, <2>4, SerialQuiet DEF GoesOnFresh
<1>7. ASSUME NEW o \in Orders, NEW amount \in 1 .. Total, Refund(h, o, amount) PROVE SerialInv'
  <2> PICK a \in IF PaidAttempts(o) = {} THEN {NULL} ELSE PaidAttempts(o) :
        req' = [req EXCEPT ![h] =
            [kind |-> "refund", step |-> "validated", order |-> o,
             payment |-> a, amount |-> amount, sum |-> 0]]
    BY <1>7 DEF Refund
  <2> DEFINE r == [kind |-> "refund", step |-> "validated", order |-> o,
                   payment |-> a, amount |-> amount, sum |-> 0]
  <2>1. a # NULL => payments[a].status = "PAID"
    BY DEF PaidAttempts
  <2>2. amount <= Total - refunded[o]
    BY <1>7 DEF Refund, Refundable
  <2>3. Fresh(r, orders, payments, refunded)
    BY <2>1, <2>2 DEF Fresh
  <2>4. req' = [req EXCEPT ![h] = r] /\ UNCHANGED tables
    BY <1>7 DEF Refund
  <2> HIDE DEF r
  <2> QED BY <1>1, <2>3, <2>4, SerialQuiet DEF GoesOnFresh
<1>8. ASSUME BeginRefund(h) PROVE SerialInv'
  <2> DEFINE r == [req[h] EXCEPT !.step = "reading", !.sum = refunded[req[h].order]]
  <2>1. req[h] \in Refunding
    BY <1>8 DEF PayInv, RequestsSound, Sound, BeginRefund, Is
  <2>2. /\ r.order = req[h].order /\ r.amount = req[h].amount /\ r.payment = req[h].payment
        /\ r.kind = "refund" /\ req[h].kind = "refund"
    BY <2>1 DEF Refunding
  <2>3. req' = [req EXCEPT ![h] = r] /\ UNCHANGED tables
    BY <1>8 DEF BeginRefund, PayInv, PayTypes
  <2> HIDE DEF r
  <2>4. Fresh(r, orders, payments, refunded)
    BY <1>1, <2>2 DEF Fresh
  <2> QED BY <1>1, <2>3, <2>4, SerialQuiet DEF GoesOnFresh
<1>9. ASSUME Abandon(h) PROVE SerialInv'
  BY <1>1, <1>9, IdleFresh, SerialQuiet DEF Abandon
<1> QED BY <1>2, <1>4, <1>5, <1>6, <1>7, <1>8, <1>9

LEMMA AttemptRequestsFresh ==
    ASSUME PayInv, SerialInv, OneAtATime, NEW h \in Handlers,
           \/ ApplyCallback(h) \/ RefuseSettle(h) \/ Supersede(h)
           \/ \E a \in Attempts :
                \/ VerifyPayment(h, a) \/ CancelCheckout(h, a)
                \/ ExpirePayment(h, a) \/ FailPaymentAdmin(h, a)
    PROVE  SerialInv'
<1>1. Sound(req[h], orders, payments, gateway) /\ PayTypes
  BY DEF PayInv, RequestsSound
<1>2. CASE ApplyCallback(h)
  <2> DEFINE a == req[h].payment
             via == req[h].via
  <2>1. Known(a, payments) /\ UNCHANGED tables
        /\ \/ \E verdict \in {via.said, gateway[a]} : Apply(h, a, verdict, via)
           \/ Done(h, a, via, "RECEIVED")
    BY <1>1, <1>2 DEF ApplyCallback, Sound
  <2> HIDE DEF a, via
  <2> QED BY <1>1, <2>1, ApplyFresh, DoneFresh, SerialQuiet DEF Known
<1>3. CASE RefuseSettle(h)
  BY <1>1, <1>3, DoneFresh, SerialQuiet DEF RefuseSettle
<1>4. CASE Supersede(h)
  <2>1. Known(req[h].payment, payments) /\ UNCHANGED tables
        /\ BeginFail(h, req[h].payment, "CANCELLED", FALSE, OnRequest, req[h].method)
    BY <1>1, <1>4 DEF Supersede, Sound
  <2> QED BY <1>1, <2>1, FailFresh, SerialQuiet DEF Known
<1>5. ASSUME NEW a \in Attempts, VerifyPayment(h, a) PROVE SerialInv'
  BY <1>1, <1>5, OpenedIsKnown, ApplyFresh, SerialQuiet DEF VerifyPayment
<1>6. ASSUME NEW a \in Attempts,
             CancelCheckout(h, a) \/ ExpirePayment(h, a) \/ FailPaymentAdmin(h, a)
      PROVE  SerialInv'
  <2>1. Known(a, payments) /\ UNCHANGED tables
    BY <1>6, OpenedIsKnown DEF CancelCheckout, ExpirePayment, FailPaymentAdmin
  <2>2. \E to \in {"FAILED", "CANCELLED"}, failOrder \in BOOLEAN :
            BeginFail(h, a, to, failOrder, OnRequest, NULL)
    BY <1>6 DEF CancelCheckout, ExpirePayment, FailPaymentAdmin
  <2> QED BY <1>1, <2>1, <2>2, FailFresh, SerialQuiet
<1> QED BY <1>2, <1>3, <1>4, <1>5, <1>6

LEMMA OtherRequestsFresh ==
    ASSUME PayInv, SerialInv, OneAtATime, NEW h \in Handlers,
           \/ FindOpenAttempt(h) \/ BeginTransfer(h) \/ ResolveCallback(h)
           \/ \E o \in Orders : MarkPaymentReceived(h, o)
           \/ \E o \in Orders, m \in PlacedWith : StartCheckout(h, o, m)
           \/ \E a \in Attempts :
                \/ ReceiveCallback(h, a) \/ ReceiveDuplicate(h, a) \/ ReplayCallback(h, a)
                \/ SettleCash(h, a)
    PROVE  SerialInv'
<1>1. Sound(req[h], orders, payments, gateway) /\ PayTypes
  BY DEF PayInv, RequestsSound
<1>2. CASE FindOpenAttempt(h)
  <2> DEFINE a == OpenAttempt(req[h].order)
             r == [req[h] EXCEPT !.step = "create"]
             s == [kind |-> "supersede", payment |-> a, method |-> req[h].method]
  <2>1. req[h] \in CheckoutRequests
    BY <1>1, <1>2 DEF FindOpenAttempt, Is, Sound
  <2>2. r.kind \in Carefree /\ s.kind \in Carefree
    BY <2>1 DEF CheckoutRequests, Carefree
  <2>3. /\ UNCHANGED tables
        /\ Finish(h) \/ req' = [req EXCEPT ![h] = r] \/ req' = [req EXCEPT ![h] = s]
    BY <1>2 DEF FindOpenAttempt, Reading
  <2> HIDE DEF r, s
  <2> QED BY <1>1, <2>2, <2>3, CarefreeFresh, IdleFresh, SerialQuiet
<1>3. CASE BeginTransfer(h)
  <2> DEFINE open == TransferAttempts(req[h].order)
             p == IF open = {} THEN NULL ELSE Max(open)
             r == [req[h] EXCEPT !.step = "reading", !.payment = p]
  <2>1. req[h] \in TransferRequests /\ req[h].order \in Orders
    BY <1>1, <1>3 DEF BeginTransfer, Is, Sound, TransferRequests
  <2>2. p # NULL => payments[p].status \in OPEN_STATUSES
    <3>1. open \in SUBSET Attempts /\ \A b \in open : payments[b].order # NULL
      BY <2>1, NullAssumption DEF TransferAttempts, AttemptsOf
    <3>2. p # NULL => p \in open
      BY <3>1, NewestIsOne DEF PayInv
    <3> QED BY <3>2 DEF TransferAttempts, IsOpen
  <2>3. UNCHANGED tables /\ (Finish(h) \/ req' = [req EXCEPT ![h] = r])
    BY <1>3 DEF BeginTransfer, Reading
  <2> HIDE DEF p
  <2>4. r.kind = "transfer" /\ r.payment = p
    BY <2>1 DEF TransferRequests
  <2> HIDE DEF r
  <2>5. Fresh(r, orders, payments, refunded)
    BY <2>2, <2>4 DEF Fresh
  <2> QED BY <1>1, <2>3, <2>5, IdleFresh, SerialQuiet DEF GoesOnFresh
<1>4. CASE ResolveCallback(h)
  BY <1>1, <1>4, IdleFresh, SerialQuiet DEF ResolveCallback
<1>5. ASSUME NEW o \in Orders, MarkPaymentReceived(h, o) PROVE SerialInv'
  <2> DEFINE r == [kind |-> "transfer", step |-> "validated", order |-> o, payment |-> NULL]
  <2>1. Fresh(r, orders, payments, refunded)
    BY DEF Fresh
  <2>2. req' = [req EXCEPT ![h] = r] /\ UNCHANGED tables
    BY <1>5 DEF MarkPaymentReceived, Reading
  <2> HIDE DEF r
  <2> QED BY <1>1, <2>1, <2>2, SerialQuiet DEF GoesOnFresh
<1>6. ASSUME NEW o \in Orders, NEW m \in PlacedWith, StartCheckout(h, o, m) PROVE SerialInv'
  <2> DEFINE r == [kind |-> "checkout", step |-> "find", order |-> o, method |-> m]
  <2>1. r.kind \in Carefree /\ req' = [req EXCEPT ![h] = r] /\ UNCHANGED tables
    BY <1>6 DEF StartCheckout, Reading, Carefree
  <2> HIDE DEF r
  <2> QED BY <1>1, <2>1, CarefreeFresh, SerialQuiet
<1>7. ASSUME NEW a \in Attempts, ReceiveCallback(h, a) \/ ReplayCallback(h, a) PROVE SerialInv'
  <2> PICK r : r.kind \in Carefree /\ req' = [req EXCEPT ![h] = r]
    <3> DEFINE r(via) == [kind |-> "apply", payment |-> a, via |-> via]
    <3>1. \A via : r(via).kind \in Carefree
      BY DEF Carefree
    <3>2. \E via : req' = [req EXCEPT ![h] = r(via)]
      BY <1>7 DEF ReceiveCallback, ReplayCallback, Reading
    <3> HIDE DEF r
    <3> QED BY <3>1, <3>2
  <2>1. UNCHANGED tables
    BY <1>7 DEF ReceiveCallback, ReplayCallback
  <2> QED BY <1>1, <2>1, CarefreeFresh, SerialQuiet
<1>8. ASSUME NEW a \in Attempts, ReceiveDuplicate(h, a) PROVE SerialInv'
  BY <1>8 DEF ReceiveDuplicate, vars, tables, SerialInv, FreshRequests, EndsOnce
<1>9. ASSUME NEW a \in Attempts, SettleCash(h, a) PROVE SerialInv'
  <2> DEFINE r == [kind |-> "cash", payment |-> a]
  <2>1. Fresh(r, orders, payments, refunded)
    BY <1>9 DEF SettleCash, Fresh
  <2>2. req' = [req EXCEPT ![h] = r] /\ UNCHANGED tables
    BY <1>9 DEF SettleCash, Reading
  <2> HIDE DEF r
  <2> QED BY <1>1, <2>1, <2>2, SerialQuiet DEF GoesOnFresh
<1> QED BY <1>2, <1>3, <1>4, <1>5, <1>6, <1>7, <1>8, <1>9

-----------------------------------------------------------------------------
(* What the writing steps do to attempts and orders, one at a time.        *)

Lived(from, to) ==
    \/ from = to
    \/ from = "ABSENT" /\ to \in {"PENDING", "PAID"}
    \/ PaymentMoves(from, to)

\* Attempts move along their table; money is posted for one that is paid now.
LifeMoves ==
    /\ \A a \in Attempts : Lived(payments[a].status, payments'[a].status)
    /\ \/ \A a \in Attempts : AttemptReference(a) \in references'
                                <=> AttemptReference(a) \in references
       \/ \E a \in Attempts :
            /\ payments[a].status \in OPEN_STATUSES \cup {"ABSENT"}
            /\ payments'[a].status = "PAID"
            /\ references' = references \cup {AttemptReference(a)}

\* The status of order o becomes s, the others keep theirs.
StatusBecomes(o, s) ==
    /\ orders'[o].status = s
    /\ \A q \in Orders : q # o => orders'[q].status = orders[q].status

StatusesStay == \A q \in Orders : orders'[q].status = orders[q].status

PaidStays == \A q \in Orders : receipts'[q] > 0 <=> receipts[q] > 0

PaidBecomes(o) ==
    /\ receipts'[o] > 0
    /\ \A q \in Orders : q # o => receipts'[q] = receipts[q]

\* The actions of the contract, order by order.
ContractMoves ==
    \/ StatusesStay /\ PaidStays /\ UNCHANGED <<returned, refunded>>
    \/ \E o \in Orders :
        \/ /\ ~ Exists(o)
           /\ \E s \in {"PENDING_PAYMENT", "PLACED"} : StatusBecomes(o, s)
           /\ PaidStays /\ UNCHANGED <<returned, refunded>>
        \/ \E to \in OrderStatuses :
           /\ AllowedMove(orders[o].status, to) /\ StatusBecomes(o, to)
           /\ returned' = [returned EXCEPT ![o] =
                             IF Restocks(orders[o].status, to) THEN 1 ELSE 0]
           /\ PaidStays \/ (to = "DELIVERED" /\ PaidBecomes(o))
           /\ UNCHANGED refunded
        \/ /\ Exists(o) /\ ~ receipts[o] > 0 /\ PaidBecomes(o)
           /\ \/ StatusesStay
              \/ orders[o].status = "PENDING_PAYMENT" /\ StatusBecomes(o, "PLACED")
           /\ UNCHANGED <<returned, refunded>>
        \/ /\ receipts[o] > 0
           /\ \E amount \in 1 .. Total - refunded[o] :
                refunded' = [refunded EXCEPT ![o] = @ + amount]
           /\ StatusesStay /\ PaidStays /\ UNCHANGED returned

Orderly == SerialInv' /\ LifeMoves /\ ContractMoves

\* A status that the table leaves is not a last one, and no stock came back.
LEMMA NothingReturnedYet ==
    ASSUME EndsOnce, NEW o \in Orders, NEW to, AllowedMove(orders[o].status, to)
    PROVE  returned[o] = 0
<1>1. orders[o].status \notin TERMINAL_STATUSES
  BY DEF AllowedMove, ORDER_TRANSITIONS, TERMINAL_STATUSES
<1> QED BY <1>1 DEF EndsOnce

LEMMA PlaceOrderly ==
    ASSUME PayInv, SerialInv, OneAtATime, NEW h \in Handlers, NEW o \in Orders,
           CommitPlace(h, o)
    PROVE  Orderly
<1> DEFINE c == req[h].cart
           m == req[h].method
           row == [status |-> InitialStatus(m), paymentStatus |-> "PENDING",
                   method |-> m, cart |-> c]
<1>1. /\ ~ Exists(o) /\ Finish(h) /\ OpenPayment(o, m)
      /\ orders' = [orders EXCEPT ![o] = row]
      /\ UNCHANGED <<receipts, references, refunded, returned>>
  BY DEF CommitPlace
<1>2. row.status \in {"PENDING_PAYMENT", "PLACED"}
  BY DEF InitialStatus
<1> HIDE DEF row
<1>3. StatusBecomes(o, row.status)
  BY <1>1 DEF StatusBecomes, PayInv, PayTypes
<1>4. ContractMoves
  BY <1>1, <1>2, <1>3 DEF ContractMoves, PaidStays
<1>5. LifeMoves
  <2>1. \A a \in Attempts : Lived(payments[a].status, payments'[a].status)
    BY <1>1 DEF OpenPayment, NextAttempt, NoPayment, PendingPayment, Lived, PayInv, PayTypes
  <2> QED BY <1>1, <2>1 DEF LifeMoves
<1>6. EndsOnce'
  <2>1. \A q \in Orders : returned[q] # 0 => orders'[q].status \in TERMINAL_STATUSES
    <3>1. returned[o] = 0
      BY <1>1 DEF SerialInv, EndsOnce, Exists, TERMINAL_STATUSES
    <3> QED BY <3>1, <1>3 DEF StatusBecomes, SerialInv, EndsOnce
  <2> QED BY <1>1, <2>1 DEF SerialInv, EndsOnce
<1>7. GoesOnFresh(h, orders', payments', refunded')
  BY <1>1, IdleFresh
<1> QED BY <1>4, <1>5, <1>6, <1>7, SerialKept DEF Orderly, PayInv

LEMMA MoveOrderly ==
    ASSUME PayInv, RecordInv, SerialInv, OneAtATime, NEW h \in Handlers, CommitMove(h)
    PROVE  Orderly
<1> DEFINE r == req[h]
           o == req[h].order
<1>1. /\ r \in Moving /\ o \in Orders /\ r.to \in OrderStatuses
      /\ r.from = orders[o].status /\ AllowedMove(r.from, r.to)
  BY DEF CommitMove, Is, PayInv, RequestsSound, Sound, Moving, RecordInv,
         RequestsTimely, Timely, SerialInv, FreshRequests, Fresh
<1>2. orders[o] \in OrderRows /\ orders \in [Orders -> OrderRows]
  BY <1>1 DEF PayInv, PayTypes
<1>3. StatusBecomes(o, r.to)
  BY <1>1, <1>2 DEF CommitMove, OrderRows, StatusBecomes
<1>4. returned[o] = 0 /\ returned \in [Orders -> Nat]
  BY <1>1, NothingReturnedYet DEF SerialInv, EndsOnce
<1>5. returned' = [returned EXCEPT ![o] = IF Restocks(orders[o].status, r.to) THEN 1 ELSE 0]
  BY <1>1, <1>4 DEF CommitMove, Restock
<1>6. UNCHANGED refunded /\ Finish(h)
  BY DEF CommitMove
<1>7. /\ LifeMoves
      /\ PaidStays \/ (r.to = "DELIVERED" /\ PaidBecomes(o))
  <2>1. CASE ~ CollectsCash(r)
    <3>1. UNCHANGED <<receipts, references, payments>>
      BY <2>1 DEF CommitMove
    <3> QED BY <3>1 DEF LifeMoves, Lived, PaidStays
  <2>2. CASE CollectsCash(r)
    <3>1. r.to = "DELIVERED" /\ PayPending(o) /\ PostReceipt(o, OrderReference(o))
      BY <2>2 DEF CommitMove, SettleCashAtDoor, CollectsCash
    <3>2. PaidBecomes(o)
      BY <1>1, <3>1 DEF PaidBecomes, PostReceipt, PayInv, PayTypes
    <3>3. \A a \in Attempts : Lived(payments[a].status, payments'[a].status)
      BY <3>1 DEF PayPending, Lived, PaymentMoves, PAYMENT_TRANSITIONS, PayInv, PayTypes,
                  PaymentRows
    <3>4. \A a \in Attempts : AttemptReference(a) # OrderReference(o)
      BY DEF AttemptReference, OrderReference
    <3> QED BY <3>1, <3>2, <3>3, <3>4 DEF LifeMoves, PostReceipt, AttemptReference
  <2> QED BY <2>1, <2>2
<1>8. ContractMoves
  BY <1>1, <1>3, <1>5, <1>6, <1>7 DEF ContractMoves
<1>9. EndsOnce'
  <2>1. Restocks(orders[o].status, r.to) => r.to \in TERMINAL_STATUSES
    BY DEF Restocks, REFUNDABLE_STATUSES, TERMINAL_STATUSES
  <2>2. \A q \in Orders : returned'[q] # 0 => orders'[q].status \in TERMINAL_STATUSES
    BY <1>1, <1>3, <1>4, <1>5, <2>1 DEF StatusBecomes, SerialInv, EndsOnce
  <2>3. returned' \in [Orders -> Nat]
    BY <1>4, <1>5
  <2> QED BY <1>6, <2>2, <2>3 DEF SerialInv, EndsOnce
<1>10. GoesOnFresh(h, orders', payments', refunded')
  BY <1>6, IdleFresh
<1> QED BY <1>7, <1>8, <1>9, <1>10, SerialKept DEF Orderly, PayInv

LEMMA RefundOrderly ==
    ASSUME PayInv, RecordInv, SerialInv, OneAtATime, NEW h \in Handlers, CommitRefund(h)
    PROVE  Orderly
<1> DEFINE r == req[h]
           o == req[h].order
           s == StatusAfterRefund(r.sum + r.amount)
<1>1. /\ r \in Refunding /\ o \in Orders /\ r.amount \in 1 .. Total
      /\ r.amount <= Total - refunded[o] /\ receipts[o] > 0
      /\ r.payment # NULL => payments[r.payment].status = "PAID"
  BY DEF CommitRefund, Is, PayInv, RequestsSound, Sound, Refunding, RecordInv,
         RequestsTimely, Timely, Backed, SerialInv, FreshRequests, Fresh
<1>2. s \in {"REFUNDED", "PARTIALLY_REFUNDED"}
  BY DEF StatusAfterRefund
<1>3. /\ orders' = [orders EXCEPT ![o].paymentStatus = s]
      /\ refunded' = [refunded EXCEPT ![o] = @ + r.amount]
      /\ payments' = [a \in Attempts |-> IF a = r.payment
                                         THEN [payments[a] EXCEPT !.status = s]
                                         ELSE payments[a]]
      /\ UNCHANGED <<receipts, references, returned>> /\ Finish(h)
  BY DEF CommitRefund
<1> HIDE DEF s
<1>4. StatusesStay
  BY <1>1, <1>3 DEF StatusesStay, PayInv, PayTypes, OrderRows
<1>5. refunded \in [Orders -> 0 .. Total] /\ refunded[o] \in 0 .. Total /\ Total \in Nat
      /\ r.amount \in 1 .. Total - refunded[o]
  BY <1>1, TotalAssumption DEF SerialInv, EndsOnce
<1>6. ContractMoves
  BY <1>1, <1>3, <1>4, <1>5 DEF ContractMoves, PaidStays
<1>7. LifeMoves
  <2>1. \A a \in Attempts : Lived(payments[a].status, payments'[a].status)
    <3> SUFFICES ASSUME NEW a \in Attempts
                 PROVE  Lived(payments[a].status, payments'[a].status)
      OBVIOUS
    <3>1. CASE a = r.payment
      <4>1. payments[a].status = "PAID" /\ payments[a] \in PaymentRows
        BY <1>1, <3>1, NullAssumption DEF PayInv, PayTypes
      <4>2. payments'[a].status = s
        BY <1>3, <3>1, <4>1 DEF PaymentRows
      <4> QED BY <1>2, <4>1, <4>2 DEF Lived, PaymentMoves, PAYMENT_TRANSITIONS
    <3>2. CASE a # r.payment
      BY <1>3, <3>2 DEF Lived
    <3> QED BY <3>1, <3>2
  <2> QED BY <1>3, <2>1 DEF LifeMoves
<1>8. EndsOnce'
  <2>1. refunded' \in [Orders -> 0 .. Total]
    <3>1. refunded[o] + r.amount \in 0 .. Total
      BY <1>5
    <3> QED BY <1>3, <1>5, <3>1
  <2> QED BY <1>3, <1>4, <2>1 DEF StatusesStay, SerialInv, EndsOnce
<1>9. GoesOnFresh(h, orders', payments', refunded')
  BY <1>3, IdleFresh
<1> QED BY <1>6, <1>7, <1>8, <1>9, SerialKept DEF Orderly, PayInv

\* The status of one attempt becomes s.
LEMMA AttemptBecomes ==
    ASSUME PayTypes, NEW a \in Attempts, NEW s,
           payments' = [payments EXCEPT ![a].status = s],
           Lived(payments[a].status, s)
    PROVE  /\ \A b \in Attempts : Lived(payments[b].status, payments'[b].status)
           /\ payments'[a].status = s
<1>1. payments[a] \in PaymentRows /\ payments \in [Attempts -> PaymentRows]
  BY DEF PayTypes
<1>2. payments'[a].status = s /\ \A b \in Attempts : b # a => payments'[b] = payments[b]
  BY <1>1 DEF PaymentRows
<1> QED BY <1>2 DEF Lived

LEMMA MayBeSettled ==
    ASSUME NEW s, MaySettle(s)
    PROVE  Lived(s, "PAID") /\ s \in OPEN_STATUSES
BY DEF MaySettle, PaymentMoves, PAYMENT_TRANSITIONS, Lived, OPEN_STATUSES

\* Money arrives for an order that may have been paid already.
LEMMA ReceiptOrderly ==
    ASSUME PayInv, NEW o \in Orders, Exists(o), NEW ref, PostReceipt(o, ref),
           StatusesStay, UNCHANGED <<returned, refunded>>
    PROVE  ContractMoves
<1>1. receipts'[o] > 0 /\ \A q \in Orders : q # o => receipts'[q] = receipts[q]
  BY DEF PostReceipt, PayInv, PayTypes
<1>2. CASE receipts[o] > 0
  BY <1>1, <1>2 DEF ContractMoves, PaidStays
<1>3. CASE ~ receipts[o] > 0
  BY <1>1, <1>3 DEF ContractMoves, PaidBecomes
<1> QED BY <1>2, <1>3

\* The attempt's own receipt is posted with its payment.
LEMMA ReceiptLives ==
    ASSUME PayInv, NEW a \in Attempts, NEW o, PostReceipt(o, AttemptReference(a)),
           payments[a].status \in OPEN_STATUSES \cup {"ABSENT"}, payments'[a].status = "PAID",
           \A b \in Attempts : Lived(payments[b].status, payments'[b].status)
    PROVE  LifeMoves
BY DEF LifeMoves, PostReceipt

LEMMA EndsKept ==
    ASSUME EndsOnce, StatusesStay, UNCHANGED <<returned, refunded>>
    PROVE  EndsOnce'
BY DEF EndsOnce, StatusesStay

LEMMA SettleOrderly ==
    ASSUME PayInv, RecordInv, SerialInv, OneAtATime, NEW h \in Handlers, CommitSettle(h)
    PROVE  Orderly
<1> DEFINE r == req[h]
           a == req[h].payment
           o == payments[a].order
           held == HeldForPayment(r.orderStatus)
<1>1. /\ Known(a, payments) /\ MaySettle(payments[a].status)
      /\ r.orderStatus = orders[o].status
  BY DEF CommitSettle, PayInv, RequestsSound, Sound, SerialInv, FreshRequests, Fresh
<1>2. a \in Attempts /\ o \in Orders /\ Exists(o)
      /\ orders[o] \in OrderRows /\ orders \in [Orders -> OrderRows]
  BY <1>1, KnownRows DEF PayInv, PayTypes, Known, Exists
<1>3. /\ payments' = [payments EXCEPT ![a].status = "PAID"]
      /\ orders' = [orders EXCEPT ![o].paymentStatus = "PAID",
                                  ![o].status = IF held THEN "PLACED" ELSE @]
      /\ PostReceipt(o, AttemptReference(a))
      /\ Done(h, a, r.via, "PROCESSED")
      /\ UNCHANGED <<returned, refunded>>
  BY DEF CommitSettle
<1>4. StatusBecomes(o, IF held THEN "PLACED" ELSE orders[o].status)
  BY <1>2, <1>3 DEF OrderRows, StatusBecomes
<1>5. LifeMoves
  BY <1>1, <1>2, <1>3, AttemptBecomes, MayBeSettled, ReceiptLives DEF PayInv
<1>6. ContractMoves /\ EndsOnce'
  <2>1. CASE ~ held
    <3>1. StatusesStay
      BY <1>2, <1>4, <2>1 DEF StatusBecomes, StatusesStay
    <3> QED BY <1>2, <1>3, <3>1, ReceiptOrderly, EndsKept DEF SerialInv
  <2>2. CASE held
    <3>1. orders[o].status = "PENDING_PAYMENT" /\ StatusBecomes(o, "PLACED")
      BY <1>1, <1>4, <2>2 DEF HeldForPayment
    <3>2. AllowedMove(orders[o].status, "PLACED") /\ "PLACED" \in OrderStatuses
          /\ ~ Restocks(orders[o].status, "PLACED")
      BY <3>1 DEF AllowedMove, ORDER_TRANSITIONS, OrderStatuses, Restocks, REFUNDABLE_STATUSES
    <3> HIDE DEF o
    <3>3. returned[o] = 0 /\ returned \in [Orders -> Nat]
      BY <1>2, <3>2, NothingReturnedYet DEF SerialInv, EndsOnce
    <3>4. receipts'[o] > 0 /\ \A q \in Orders : q # o => receipts'[q] = receipts[q]
      BY <1>2, <1>3 DEF PostReceipt, PayInv, PayTypes
    <3>5. ContractMoves
      <4>1. CASE receipts[o] > 0
        <5>1. returned' = [returned EXCEPT ![o] =
                             IF Restocks(orders[o].status, "PLACED") THEN 1 ELSE 0]
          BY <1>3, <3>2, <3>3
        <5>2. PaidStays
          BY <3>4, <4>1 DEF PaidStays
        <5> QED BY <1>2, <1>3, <3>1, <3>2, <5>1, <5>2 DEF ContractMoves
      <4>2. CASE ~ receipts[o] > 0
        BY <1>2, <1>3, <3>1, <3>4, <4>2 DEF ContractMoves, PaidBecomes
      <4> QED BY <4>1, <4>2
    <3>6. EndsOnce'
      BY <1>3, <3>1, <3>3 DEF SerialInv, EndsOnce, StatusBecomes
    <3> QED BY <3>5, <3>6
  <2> QED BY <2>1, <2>2
<1>7. GoesOnFresh(h, orders', payments', refunded')
  BY <1>3, DoneFresh
<1> QED BY <1>5, <1>6, <1>7, SerialKept DEF Orderly, PayInv

LEMMA FailOrderly ==
    ASSUME PayInv, SerialInv, OneAtATime, NEW h \in Handlers, CommitFail(h)
    PROVE  Orderly
<1> DEFINE r == req[h]
           a == req[h].payment
           o == payments[a].order
           dies == r.failOrder /\ HeldForPayment(r.orderStatus)
<1>1. /\ Known(a, payments) /\ payments[a].status \in OPEN_STATUSES
      /\ r.orderStatus = orders[o].status /\ r.to \in {"FAILED", "CANCELLED"}
  BY DEF CommitFail, PayInv, RequestsSound, Sound, SerialInv, FreshRequests, Fresh
<1>2. a \in Attempts /\ o \in Orders /\ orders[o] \in OrderRows
      /\ orders \in [Orders -> OrderRows]
  BY <1>1, KnownRows DEF PayInv, PayTypes, Known
<1>3. /\ payments' = [payments EXCEPT ![a].status = r.to]
      /\ IF dies
         THEN /\ orders' = [orders EXCEPT ![o].status = "FAILED", ![o].paymentStatus = "FAILED"]
              /\ Restock(o)
         ELSE UNCHANGED <<orders, returned>>
      /\ AfterFail(h, a, r.via, r.then)
      /\ UNCHANGED <<receipts, references, refunded>>
  BY DEF CommitFail
<1>4. LifeMoves
  <2>1. Lived(payments[a].status, r.to)
    BY <1>1 DEF Lived, PaymentMoves, PAYMENT_TRANSITIONS, OPEN_STATUSES
  <2>2. \A b \in Attempts : Lived(payments[b].status, payments'[b].status)
    BY <1>2, <1>3, <2>1, AttemptBecomes DEF PayInv
  <2> QED BY <1>3, <2>2 DEF LifeMoves
<1>5. ContractMoves /\ EndsOnce'
  <2>1. CASE ~ dies
    <3>1. UNCHANGED <<orders, returned>>
      BY <1>3, <2>1
    <3> QED BY <1>3, <3>1 DEF ContractMoves, StatusesStay, PaidStays, SerialInv, EndsOnce
  <2>2. CASE dies
    <3>1. orders[o].status = "PENDING_PAYMENT"
      BY <1>1, <2>2 DEF HeldForPayment
    <3>2. orders' = [orders EXCEPT ![o].status = "FAILED", ![o].paymentStatus = "FAILED"]
          /\ returned' = [returned EXCEPT ![o] = @ + 1]
      BY <1>3, <2>2 DEF Restock
    <3> HIDE DEF o, dies
    <3>3. StatusBecomes(o, "FAILED")
      BY <1>2, <3>2 DEF OrderRows, StatusBecomes
    <3>4. AllowedMove(orders[o].status, "FAILED") /\ "FAILED" \in OrderStatuses
          /\ Restocks(orders[o].status, "FAILED")
      BY <3>1 DEF AllowedMove, ORDER_TRANSITIONS, OrderStatuses, Restocks,
         REFUNDABLE_STATUSES, UNCOMMITTED_STATUSES
    <3>5. returned[o] = 0 /\ returned \in [Orders -> Nat]
      BY <1>2, <3>4, NothingReturnedYet DEF SerialInv, EndsOnce
    <3>6. returned' = [returned EXCEPT ![o] =
                         IF Restocks(orders[o].status, "FAILED") THEN 1 ELSE 0]
      BY <3>2, <3>4, <3>5
    <3>7. PaidStays /\ UNCHANGED refunded
      BY <1>3 DEF PaidStays
    <3>8. ContractMoves
      BY <1>2, <3>3, <3>4, <3>6, <3>7 DEF ContractMoves
    <3>9. EndsOnce'
      <4>1. \A q \in Orders : returned'[q] # 0 => orders'[q].status \in TERMINAL_STATUSES
        BY <3>2, <3>3, <3>5 DEF StatusBecomes, SerialInv, EndsOnce, TERMINAL_STATUSES
      <4>2. returned' = [returned EXCEPT ![o] = 1]
        BY <3>4, <3>6
      <4>3. returned' \in [Orders -> Nat]
        BY <3>5, <4>2
      <4> QED BY <1>3, <4>1, <4>3 DEF SerialInv, EndsOnce
    <3> QED BY <3>8, <3>9
  <2> QED BY <2>1, <2>2
<1>6. GoesOnFresh(h, orders', payments', refunded')
  BY <1>3, AfterFailFresh
<1> QED BY <1>4, <1>5, <1>6, SerialKept DEF Orderly, PayInv

LEMMA CashOrderly ==
    ASSUME PayInv, SerialInv, OneAtATime, NEW h \in Handlers, CommitCash(h)
    PROVE  Orderly
<1> DEFINE a == req[h].payment
           o == payments[a].order
<1>1. Known(a, payments) /\ MaySettle(payments[a].status)
  BY DEF CommitCash, PayInv, RequestsSound, Sound, SerialInv, FreshRequests, Fresh
<1>2. a \in Attempts /\ o \in Orders /\ Exists(o)
  BY <1>1, KnownRows DEF PayInv, Known, Exists
<1>3. /\ payments' = [payments EXCEPT ![a].status = "PAID"]
      /\ orders' = [orders EXCEPT ![o].paymentStatus = "PAID"]
      /\ PostReceipt(o, AttemptReference(a)) /\ Finish(h)
      /\ UNCHANGED <<returned, refunded>>
  BY DEF CommitCash
<1>4. StatusesStay
  BY <1>2, <1>3 DEF StatusesStay, PayInv, PayTypes, OrderRows
<1>5. LifeMoves
  BY <1>1, <1>2, <1>3, AttemptBecomes, MayBeSettled, ReceiptLives DEF PayInv
<1>6. ContractMoves /\ EndsOnce'
  BY <1>2, <1>3, <1>4, ReceiptOrderly, EndsKept DEF SerialInv
<1>7. GoesOnFresh(h, orders', payments', refunded')
  BY <1>3, IdleFresh
<1> QED BY <1>5, <1>6, <1>7, SerialKept DEF Orderly, PayInv

LEMMA CreateOrderly ==
    ASSUME PayInv, SerialInv, OneAtATime, NEW h \in Handlers, CreateAttempt(h)
    PROVE  Orderly
<1>1. UNCHANGED <<orders, receipts, references, returned, refunded>> /\ Finish(h)
  BY DEF CreateAttempt
<1>2. StatusesStay /\ PaidStays
  BY <1>1 DEF StatusesStay, PaidStays
<1>3. ContractMoves /\ EndsOnce'
  BY <1>1, <1>2, EndsKept DEF ContractMoves, SerialInv
<1>4. \A a \in Attempts : Lived(payments[a].status, payments'[a].status)
  BY DEF CreateAttempt, NextAttempt, NoPayment, PendingPayment, Lived, PayInv, PayTypes
<1>5. LifeMoves
  BY <1>1, <1>4 DEF LifeMoves
<1>6. GoesOnFresh(h, orders', payments', refunded')
  BY <1>1, IdleFresh
<1> QED BY <1>3, <1>5, <1>6, SerialKept DEF Orderly, PayInv

LEMMA TransferOrderly ==
    ASSUME PayInv, SerialInv, OneAtATime, NEW h \in Handlers, CommitTransfer(h)
    PROVE  Orderly
<1> DEFINE o == req[h].order
           p == req[h].payment
           paid == [PendingPayment(o, "QR_TRANSFER") EXCEPT !.status = "PAID"]
<1>1. /\ o \in Orders /\ Exists(o)
      /\ p # NULL => payments[p].status \in OPEN_STATUSES
  BY DEF CommitTransfer, Is, PayInv, RequestsSound, Sound, TransferRequests, Exists,
         SerialInv, FreshRequests, Fresh
<1> PICK a \in Attempts :
        /\ IF p = NULL THEN NextAttempt(a) ELSE a = p
        /\ payments' = [b \in Attempts |->
             IF b = a THEN paid
             ELSE IF b \in AttemptsOf(o) /\ IsOpen(b)
                  THEN [payments[b] EXCEPT !.status = "CANCELLED"]
                  ELSE payments[b]]
        /\ PostReceipt(o, AttemptReference(a))
  BY DEF CommitTransfer
<1>2. /\ orders' = [orders EXCEPT ![o].paymentStatus = "PAID", ![o].method = "QR_TRANSFER"]
      /\ Finish(h) /\ UNCHANGED <<returned, refunded>>
  BY DEF CommitTransfer
<1>3. StatusesStay
  BY <1>1, <1>2 DEF StatusesStay, PayInv, PayTypes, OrderRows
<1>4. paid.status = "PAID"
  BY DEF PendingPayment
<1> HIDE DEF paid
<1>5. payments[a].status \in OPEN_STATUSES \cup {"ABSENT"} /\ payments'[a].status = "PAID"
  BY <1>1, <1>4 DEF NextAttempt, NoPayment
<1>6. \A b \in Attempts : Lived(payments[b].status, payments'[b].status)
  <2> TAKE b \in Attempts
  <2>1. payments[b] \in PaymentRows
    BY DEF PayInv, PayTypes
  <2>2. CASE b = a
    BY <1>5, <2>2 DEF Lived, PaymentMoves, PAYMENT_TRANSITIONS, OPEN_STATUSES
  <2>3. CASE b # a /\ IsOpen(b) /\ b \in AttemptsOf(o)
    <3>1. payments'[b].status = "CANCELLED"
      BY <2>1, <2>3 DEF PaymentRows
    <3> QED BY <2>3, <3>1 DEF Lived, PaymentMoves, PAYMENT_TRANSITIONS, OPEN_STATUSES, IsOpen
  <2>4. CASE b # a /\ ~ (IsOpen(b) /\ b \in AttemptsOf(o))
    BY <2>4 DEF Lived
  <2> QED BY <2>2, <2>3, <2>4
<1>7. LifeMoves
  BY <1>5, <1>6, ReceiptLives
<1>8. ContractMoves /\ EndsOnce'
  BY <1>1, <1>2, <1>3, ReceiptOrderly, EndsKept DEF SerialInv
<1>9. GoesOnFresh(h, orders', payments', refunded')
  BY <1>2, IdleFresh
<1> QED BY <1>7, <1>8, <1>9, SerialKept DEF Orderly, PayInv

LEMMA SerialStepKept ==
    ASSUME PayInv, RecordInv, SerialInv, OneAtATime, [PayNext]_payVars
    PROVE  Orderly
<1>0. ASSUME UNCHANGED tables, SerialInv' PROVE Orderly
  <2>1. \A a \in Attempts : payments'[a].status = payments[a].status
    BY <1>0 DEF tables
  <2>2. LifeMoves
    BY <1>0, <2>1 DEF tables, LifeMoves, Lived
  <2>3. ContractMoves
    BY <1>0 DEF tables, ContractMoves, StatusesStay, PaidStays
  <2> QED BY <1>0, <2>2, <2>3 DEF Orderly
<1>1. ASSUME UNCHANGED <<tables, req>> PROVE Orderly
  <2>1. SerialInv'
    BY <1>1 DEF tables, SerialInv, FreshRequests, EndsOnce
  <2> QED BY <1>0, <1>1, <2>1
<1>2. CASE UNCHANGED payVars
  BY <1>1, <1>2 DEF payVars, vars
<1>3. ASSUME NEW a \in Attempts, GatewayStep(a) PROVE Orderly
  <2>1. UNCHANGED <<tables, req>>
    BY <1>3 DEF GatewayStep, CustomerPays, GatewayDeclines, WindowCloses, vars
  <2> QED BY <1>1, <2>1
<1>4. ASSUME NEW h \in Handlers, Step(h) PROVE Orderly
  <2>1. CASE \/ \E o \in Orders : CommitPlace(h, o)
             \/ CommitMove(h) \/ CommitRefund(h)
    BY <2>1, PlaceOrderly, MoveOrderly, RefundOrderly
  <2>2. CASE \/ \E c \in Carts, m \in PlacedWith : PlaceOrder(h, c, m)
             \/ \E o \in Orders, to \in OrderStatuses, as \in CallerTypes : Advance(h, o, to, as)
             \/ \E o \in Orders, as \in CallerTypes : Cancel(h, o, as)
             \/ BeginMove(h)
             \/ \E o \in Orders, amount \in 1 .. Total : Refund(h, o, amount)
             \/ BeginRefund(h) \/ Abandon(h)
    <3>1. UNCHANGED tables
      BY <2>2 DEF PlaceOrder, Advance, Cancel, BeginMove, Refund, BeginRefund, Abandon
    <3>2. SerialInv'
      BY <2>2, OrderRequestsFresh
    <3> QED BY <1>0, <3>1, <3>2
  <2> QED BY <1>4, <2>1, <2>2 DEF Step
<1>5. ASSUME NEW h \in Handlers, PayStep(h) PROVE Orderly
  <2>1. CASE CommitSettle(h) \/ CommitFail(h) \/ CommitCash(h) \/ CreateAttempt(h)
             \/ CommitTransfer(h)
    BY <2>1, SettleOrderly, FailOrderly, CashOrderly, CreateOrderly, TransferOrderly
  <2>2. CASE \/ ApplyCallback(h) \/ RefuseSettle(h) \/ Supersede(h)
             \/ \E a \in Attempts :
                  \/ VerifyPayment(h, a) \/ CancelCheckout(h, a)
                  \/ ExpirePayment(h, a) \/ FailPaymentAdmin(h, a)
    <3>1. UNCHANGED tables
      BY <2>2 DEF ApplyCallback, RefuseSettle, Supersede, VerifyPayment, CancelCheckout,
                  ExpirePayment, FailPaymentAdmin
    <3>2. SerialInv'
      BY <2>2, AttemptRequestsFresh
    <3> QED BY <1>0, <3>1, <3>2
  <2>3. CASE \/ FindOpenAttempt(h) \/ BeginTransfer(h) \/ ResolveCallback(h)
             \/ \E o \in Orders : MarkPaymentReceived(h, o)
             \/ \E o \in Orders, m \in PlacedWith : StartCheckout(h, o, m)
             \/ \E a \in Attempts :
                  \/ ReceiveCallback(h, a) \/ ReceiveDuplicate(h, a) \/ ReplayCallback(h, a)
                  \/ SettleCash(h, a)
    <3>1. UNCHANGED tables
      BY <2>3 DEF FindOpenAttempt, BeginTransfer, ResolveCallback, MarkPaymentReceived,
                  StartCheckout, ReceiveCallback, ReceiveDuplicate, ReplayCallback,
                  SettleCash, vars
    <3>2. SerialInv'
      BY <2>3, OtherRequestsFresh
    <3> QED BY <1>0, <3>1, <3>2
  <2> QED BY <1>5, <2>1, <2>2, <2>3 DEF PayStep
<1> QED BY <1>2, <1>3, <1>4, <1>5 DEF PayNext, HandlerStep

LEMMA SerialInvInitially == PayInit => SerialInv
<1> SUFFICES ASSUME PayInit PROVE SerialInv
  OBVIOUS
<1>1. \A h \in Handlers : req[h] = Idle
  BY DEF PayInit, Init
<1>2. FreshRequests
  BY <1>1 DEF FreshRequests, Fresh, Idle
<1>3. returned = [o \in Orders |-> 0] /\ refunded = [o \in Orders |-> 0]
  BY DEF PayInit, Init
<1>4. 0 \in 0 .. Total
  BY TotalAssumption
<1> QED BY <1>2, <1>3, <1>4 DEF SerialInv, EndsOnce

\* One request at a time, what a request has read is still so when it writes,
\* stock comes back only with the end of an order, and never is more refunded
\* than was paid.
THEOREM SerialInvariant == ASSUME OneAtATime PROVE PaySpec => []SerialInv
<1>1. PayInit => SerialInv
  BY SerialInvInitially
<1>2. PayInv /\ RecordInv /\ SerialInv /\ [PayNext]_payVars => SerialInv'
  BY SerialStepKept DEF Orderly
<1> QED BY <1>1, <1>2, PaymentsInvariant, RecordInvariant, PTL DEF PaySpec

\* One request at a time, the attempts of the payments module live as
\* AttemptLife says: along PAYMENT_TRANSITIONS, and no receipt is posted but
\* for an attempt that is being paid.
THEOREM LifeImplemented == ASSUME OneAtATime PROVE PaySpec => ImplementsLife
<1> DEFINE life == [a \in Attempts |-> payments[a].status]
           receipted == {a \in Attempts : AttemptReference(a) \in references}
<1>1. PayInit => Life!Init
  BY DEF PayInit, Init, Life!Init, NoPayment
<1>2. PayInv /\ RecordInv /\ SerialInv /\ [PayNext]_payVars => [Life!Move]_<<life, receipted>>
  <2> SUFFICES ASSUME PayInv, RecordInv, SerialInv, [PayNext]_payVars
               PROVE  [Life!Move]_<<life, receipted>>
    OBVIOUS
  <2>1. LifeMoves /\ PayTypes'
    BY SerialStepKept, PayInvIsKept DEF Orderly, PayInv
  <2>2. \A a \in Attempts : life[a] = payments[a].status /\ life'[a] = payments'[a].status
    OBVIOUS
  <2>3. life' \in [Attempts -> Life!PaymentStatuses \cup {"ABSENT"}]
    BY <2>1 DEF PayTypes, PaymentRows, PaymentStatuses, Life!PaymentStatuses
  <2>4. \A from, to : Lived(from, to) => Life!Lives(from, to)
    BY DEF Lived, Life!Lives, PaymentMoves, Life!PaymentMoves, PAYMENT_TRANSITIONS,
       Life!PAYMENT_TRANSITIONS
  <2>5. \A a \in Attempts : Life!Lives(life[a], life'[a])
    BY <2>1, <2>2, <2>4 DEF LifeMoves
  <2>6. CASE \A a \in Attempts : AttemptReference(a) \in references'
                                    <=> AttemptReference(a) \in references
    <3>1. receipted' = receipted
      BY <2>6
    <3>2. CASE Attempts = {}
      <4>1. life' = life
        BY <3>2
      <4> QED BY <3>1, <4>1
    <3>3. CASE Attempts # {}
      BY <2>3, <2>5, <3>1, <3>3 DEF Life!Move
    <3> QED BY <3>2, <3>3
  <2>7. ASSUME NEW a \in Attempts,
               payments[a].status \in OPEN_STATUSES \cup {"ABSENT"},
               payments'[a].status = "PAID",
               references' = references \cup {AttemptReference(a)}
        PROVE  Life!Move
    <3>1. receipted' = receipted \cup {a}
      BY <2>7 DEF AttemptReference
    <3>2. life[a] \in Life!OPEN_STATUSES \cup {"ABSENT"} /\ life'[a] = "PAID"
      BY <2>2, <2>7 DEF OPEN_STATUSES, Life!OPEN_STATUSES
    <3> QED BY <2>3, <2>5, <3>1, <3>2 DEF Life!Move
  <2> QED BY <2>1, <2>6, <2>7 DEF LifeMoves
<1> QED BY <1>1, <1>2, PaymentsInvariant, RecordInvariant, SerialInvariant, PTL
     DEF PaySpec, ImplementsLife, Life!Spec

\* One request at a time, orders and payments together keep the contract:
\* an order moves along its table, its stock is put back once and only when
\* it ends badly before the kitchen, and no more is refunded than was paid.
THEOREM ContractImplemented == ASSUME OneAtATime PROVE PaySpec => ImplementsContract
<1> DEFINE status == [o \in Orders |-> orders[o].status]
           paid == [o \in Orders |-> receipts[o] > 0]
<1>1. PayInit => Contract!Init
  <2> SUFFICES ASSUME PayInit PROVE Contract!Init
    OBVIOUS
  <2>1. status = [o \in Orders |-> "ABSENT"]
    BY DEF PayInit, Init, NoOrder
  <2>2. \A o \in Orders : (receipts[o] > 0) = FALSE
    BY DEF PayInit, Init
  <2>3. paid = [o \in Orders |-> FALSE]
    BY <2>2
  <2> QED BY <2>1, <2>3 DEF PayInit, Init, Contract!Init
<1>2. PayInv /\ RecordInv /\ SerialInv /\ [PayNext]_payVars => [Contract!Next]_(Contract!vars)
  <2> SUFFICES ASSUME PayInv, RecordInv, SerialInv, [PayNext]_payVars
               PROVE  [Contract!Next]_(Contract!vars)
    OBVIOUS
  <2>1. ContractMoves
    BY SerialStepKept DEF Orderly
  <2>2. \A o \in Orders : status[o] = orders[o].status /\ status'[o] = orders'[o].status
    OBVIOUS
  <2>3. \A o \in Orders : (paid[o] <=> receipts[o] > 0) /\ (paid'[o] <=> receipts'[o] > 0)
    OBVIOUS
  <2>4. StatusesStay => status' = status
    BY DEF StatusesStay
  <2>5. PaidStays => paid' = paid
    BY DEF PaidStays
  <2>6. ASSUME NEW o \in Orders, NEW s, StatusBecomes(o, s)
        PROVE  status' = [status EXCEPT ![o] = s]
    BY <2>6 DEF StatusBecomes
  <2>7. ASSUME NEW o \in Orders, PaidBecomes(o)
        PROVE  paid' = [paid EXCEPT ![o] = TRUE]
    BY <2>7 DEF PaidBecomes
  <2> HIDE DEF status, paid
  <2>8. CASE StatusesStay /\ PaidStays /\ UNCHANGED <<returned, refunded>>
    BY <2>4, <2>5, <2>8 DEF Contract!vars, status, paid
  <2>9. ASSUME NEW o \in Orders, ~ Exists(o),
               NEW s \in {"PENDING_PAYMENT", "PLACED"}, StatusBecomes(o, s),
               PaidStays, UNCHANGED <<returned, refunded>>
        PROVE  Contract!CheckOut(o)
    BY <2>2, <2>5, <2>6, <2>9 DEF Contract!CheckOut, Exists, status, paid
  <2>10. ASSUME NEW o \in Orders, NEW to \in OrderStatuses,
                AllowedMove(orders[o].status, to), StatusBecomes(o, to),
                returned' = [returned EXCEPT ![o] =
                               IF Restocks(orders[o].status, to) THEN 1 ELSE 0],
                PaidStays \/ (to = "DELIVERED" /\ PaidBecomes(o)),
                UNCHANGED refunded
         PROVE  Contract!Move(o)
    <3>1. to \in Contract!OrderStatuses
      BY DEF OrderStatuses, Contract!OrderStatuses
    <3>2. Contract!AllowedMove(status[o], to)
      BY <2>2, <2>10 DEF AllowedMove, ORDER_TRANSITIONS, Contract!AllowedMove,
         Contract!ORDER_TRANSITIONS
    <3>3. Contract!Restocks(status[o], to) <=> Restocks(orders[o].status, to)
      BY <2>2 DEF Restocks, Contract!Restocks, REFUNDABLE_STATUSES, UNCOMMITTED_STATUSES,
         Contract!REFUNDABLE_STATUSES, Contract!UNCOMMITTED_STATUSES
    <3>4. returned' = [returned EXCEPT ![o] = IF Contract!Restocks(status[o], to) THEN 1 ELSE 0]
      BY <2>10, <3>3
    <3>5. status' = [status EXCEPT ![o] = to]
      BY <2>6, <2>10
    <3>6. paid' = paid \/ (to = "DELIVERED" /\ paid' = [paid EXCEPT ![o] = TRUE])
      BY <2>5, <2>7, <2>10
    <3> QED BY <2>10, <3>1, <3>2, <3>4, <3>5, <3>6 DEF Contract!Move, status, paid
  <2>11. ASSUME NEW o \in Orders, Exists(o), ~ receipts[o] > 0, PaidBecomes(o),
                \/ StatusesStay
                \/ orders[o].status = "PENDING_PAYMENT" /\ StatusBecomes(o, "PLACED"),
                UNCHANGED <<returned, refunded>>
         PROVE  Contract!Receive(o)
    <3>1. ~ paid[o] /\ status[o] # "ABSENT"
      BY <2>2, <2>3, <2>11 DEF Exists
    <3>2. paid' = [paid EXCEPT ![o] = TRUE]
      BY <2>7, <2>11
    <3>3. \/ status' = status
          \/ status[o] = "PENDING_PAYMENT" /\ status' = [status EXCEPT ![o] = "PLACED"]
      BY <2>2, <2>4, <2>6, <2>11
    <3> QED BY <2>11, <3>1, <3>2, <3>3 DEF Contract!Receive, status, paid
  <2>12. ASSUME NEW o \in Orders, receipts[o] > 0,
                NEW amount \in 1 .. Total - refunded[o],
                refunded' = [refunded EXCEPT ![o] = @ + amount],
                StatusesStay, PaidStays, UNCHANGED returned
         PROVE  Contract!GiveBack(o)
    <3>1. paid[o] /\ paid' = paid /\ status' = status
      BY <2>3, <2>4, <2>5, <2>12
    <3> QED BY <2>12, <3>1 DEF Contract!GiveBack, status, paid
  <2> QED BY <2>1, <2>8, <2>9, <2>10, <2>11, <2>12 DEF ContractMoves, Contract!Next
<1> QED BY <1>1, <1>2, PaymentsInvariant, RecordInvariant, SerialInvariant, PTL
     DEF PaySpec, ImplementsContract, Contract!Spec
=============================================================================
