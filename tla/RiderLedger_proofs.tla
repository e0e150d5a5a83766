------------------------- MODULE RiderLedger_proofs -------------------------
(***************************************************************************)
(* Theorems about the end of a delivery and its ledger entry, for any      *)
(* number of orders, riders, restaurants and concurrent requests, and any  *)
(* fees and totals.                                                        *)
(***************************************************************************)
EXTENDS RiderLedger, Sums, TLAPS

(***************************************************************************)
(* The inductive invariant.  The entry is booked two transactions after    *)
(* the delivery, from what was read in between: so the request that will   *)
(* book it must still know of an order that was delivered, and of money    *)
(* that somebody said reached the rider.                                   *)
(***************************************************************************)

Requests ==
    {Idle}
    \cup [kind : {"ride", "move"}, order : Orders, to : OrderStatuses,
          then : {"code", "complete", "done"}]
    \cup [kind : {"wrong", "code", "complete", "record", "release"}, order : Orders]
    \cup [kind : {"book"}, order : Orders, collected : Nat]
    \cup [kind : {"transfer", "landing"}, order : Orders, recipient : RECIPIENTS]
    \cup [kind : {"settle", "settling"}, pair : Pairs, direction : Directions, amount : Int]

TablesTyped ==
    /\ orders \in [Orders -> [status : OrderStatuses, method : Methods,
                              paidTo : RECIPIENTS \cup {"CASH", NULL}]]
    /\ runs \in [Orders -> [status : {"ACCEPTED", "COMPLETED", "CANCELLED"},
                            code : {"none", "live", "stale"}, attempts : Nat]]
    /\ entries \in [Orders -> [collected : Nat, fee : Nat] \cup {NULL}]
    /\ earned \in [Orders -> Nat]
    /\ took \in [Orders -> SUBSET (RECIPIENTS \cup {"CASH"})]
    /\ delivered \subseteq Orders /\ closing \subseteq Orders /\ lost \subseteq Orders

\* What r relies on, of the orders that arrived and of whom money was said to
\* reach; neither is ever taken back.
Grounded(r, arrived, said) ==
    /\ r.kind \in {"ride", "move"} /\ r.then = "complete" => r.to = "DELIVERED"
    /\ r.kind \in {"complete", "record", "book"} => r.order \in arrived
    /\ r.kind = "book" /\ r.collected > 0 => said[r.order] \cap {"CASH", "RIDER"} # {}

RequestsGrounded ==
    /\ req \in [Handlers -> Requests]
    /\ \A h \in Handlers : Grounded(req[h], delivered, took)

\* Money the rider has was once said to have reached him.
PaidWasSaid ==
    \A o \in Orders : RiderCollected(o) => orders[o].paidTo \in took[o]

IInv ==
    /\ TablesTyped
    /\ RequestsGrounded
    /\ PaidWasSaid
    /\ BookedIsBacked
    /\ CompletedIsBooked

-----------------------------------------------------------------------------
(* How steps write.                                                        *)

\* What a handler is in the middle of, by the kind of its request.
LEMMA RequestKinds ==
    ASSUME RequestsGrounded, NEW h \in Handlers
    PROVE  LET r == req[h] IN
           /\ r.kind \in {"ride", "move"} =>
                /\ r.order \in Orders /\ r.to \in OrderStatuses
                /\ r.then \in {"code", "complete", "done"}
                /\ r.then = "complete" => r.to = "DELIVERED"
           /\ r.kind \in {"wrong", "code", "complete", "record", "release", "book", "transfer",
                          "landing"} => r.order \in Orders
           /\ r.kind = "book" => r.collected \in Nat
           /\ r.kind \in {"transfer", "landing"} => r.recipient \in RECIPIENTS
           /\ r.kind \in {"complete", "record", "book"} => r.order \in delivered
           /\ r.kind = "book" /\ r.collected > 0 => took[r.order] \cap {"CASH", "RIDER"} # {}
<1>1. req[h] \in Requests /\ Grounded(req[h], delivered, took)
  BY DEF RequestsGrounded
<1> QED BY <1>1 DEF Requests, Grounded, Idle

\* h goes on with r, and what others rely on only grows.
LEMMA GoesOn ==
    ASSUME IInv, NEW h \in Handlers, NEW r \in Requests, Grounded(r, delivered', took'),
           Continue(h, r),
           delivered \subseteq delivered', \A o \in Orders : took[o] \subseteq took'[o]
    PROVE  RequestsGrounded'
<1>1. req \in [Handlers -> Requests] /\ req' = [req EXCEPT ![h] = r]
  BY DEF IInv, RequestsGrounded, Continue
<1>2. req' \in [Handlers -> Requests]
  BY <1>1
<1>3. ASSUME NEW g \in Handlers PROVE Grounded(req'[g], delivered', took')
  <2>1. CASE g = h
    BY <2>1, <1>1
  <2>2. CASE g # h
    <3>1. req'[g] = req[g] /\ Grounded(req[g], delivered, took)
      BY <2>2, <1>1 DEF IInv, RequestsGrounded
    <3>2. req[g].kind = "book" => req[g].order \in Orders
      BY RequestKinds DEF IInv
    <3> QED BY <3>1, <3>2 DEF Grounded
  <2> QED BY <2>1, <2>2
<1> QED BY <1>2, <1>3 DEF RequestsGrounded

\* A completed run keeps its entry, or the request that is to book it, unless
\* that request is lost.
LEMMA StaysBooked ==
    ASSUME IInv, NEW h \in Handlers, NEW r, Continue(h, r),
           \A o \in Orders : entries[o] # NULL => entries'[o] # NULL,
           \A o \in Orders : runs'[o].status = "COMPLETED" =>
               runs[o].status = "COMPLETED" \/ (r.kind = "record" /\ r.order = o),
           req[h].kind \in {"record", "book"} =>
               \/ r.kind \in {"record", "book"} /\ r.order = req[h].order
               \/ entries'[req[h].order] # NULL
               \/ req[h].order \in lost',
           lost \subseteq lost'
    PROVE  CompletedIsBooked'
<1> SUFFICES ASSUME NEW o \in Orders, runs'[o].status = "COMPLETED", entries'[o] = NULL,
                    o \notin lost'
             PROVE  \E g \in Handlers : req'[g].kind \in {"record", "book"} /\ req'[g].order = o
  BY DEF CompletedIsBooked
<1>1. req' = [req EXCEPT ![h] = r] /\ req'[h] = r
  BY DEF IInv, RequestsGrounded, Continue
<1>2. CASE r.kind = "record" /\ r.order = o
  BY <1>1, <1>2
<1>3. CASE runs[o].status = "COMPLETED"
  <2>1. PICK g \in Handlers : req[g].kind \in {"record", "book"} /\ req[g].order = o
    BY <1>3 DEF IInv, CompletedIsBooked
  <2>2. CASE g = h
    BY <1>1, <2>1, <2>2
  <2>3. CASE g # h
    <3>1. req'[g] = req[g]
      BY <1>1, <2>3 DEF IInv, RequestsGrounded
    <3> QED BY <2>1, <3>1
  <2> QED BY <2>2, <2>3
<1> QED BY <1>2, <1>3

\* Idle rests on nothing.
LEMMA IdleGrounded == Idle \in Requests /\ \A d, s : Grounded(Idle, d, s)
BY DEF Idle, Requests, Grounded

\* A step of h that writes nothing the ledger goes by, other than an end of a
\* run that is no completion.
LEMMA QuietKeeps ==
    ASSUME IInv, NEW h \in Handlers, NEW r \in Requests, Grounded(r, delivered, took),
           Continue(h, r), UNCHANGED <<orders, entries, earned, delivered, took>>,
           closing' \subseteq closing, lost \subseteq lost', lost' \subseteq Orders,
           runs' \in [Orders -> [status : {"ACCEPTED", "COMPLETED", "CANCELLED"},
                                 code : {"none", "live", "stale"}, attempts : Nat]],
           \A o \in Orders : runs'[o].status = "COMPLETED" =>
               runs[o].status = "COMPLETED" \/ (r.kind = "record" /\ r.order = o),
           req[h].kind \in {"record", "book"} =>
               \/ r.kind \in {"record", "book"} /\ r.order = req[h].order
               \/ entries[req[h].order] # NULL
               \/ req[h].order \in lost'
    PROVE  IInv'
<1>1. TablesTyped'
  BY DEF IInv, TablesTyped
<1>2. RequestsGrounded'
  BY GoesOn
<1>3. PaidWasSaid' /\ BookedIsBacked'
  BY DEF IInv, PaidWasSaid, BookedIsBacked, RiderCollected
<1>4. CompletedIsBooked'
  BY StaysBooked
<1> QED BY <1>1, <1>2, <1>3, <1>4 DEF IInv

-----------------------------------------------------------------------------
(* The steps.                                                              *)

LEMMA StartKeeps == Init => IInv
<1> SUFFICES ASSUME Init PROVE IInv
  OBVIOUS
<1>1. TablesTyped
  BY FreeAssumption DEF Init, TablesTyped, Methods, RECIPIENTS, OrderStatuses
<1>2. RequestsGrounded
  BY IdleGrounded DEF Init, RequestsGrounded
<1>3. PaidWasSaid
  BY FreeAssumption DEF Init, PaidWasSaid, RiderCollected
<1>4. BookedIsBacked /\ CompletedIsBooked
  BY DEF Init, BookedIsBacked, CompletedIsBooked
<1> QED BY <1>1, <1>2, <1>3, <1>4 DEF IInv

\* Requests begin, and read.
LEMMA RequestsKeep ==
    ASSUME IInv, NEW h \in Handlers, Request(h)
    PROVE  IInv'
<1>0. /\ req[h] = Idle \/ req[h] # Idle
      /\ runs \in [Orders -> [status : {"ACCEPTED", "COMPLETED", "CANCELLED"},
                              code : {"none", "live", "stale"}, attempts : Nat]]
      /\ lost \subseteq Orders
  BY DEF IInv, TablesTyped
<1>1. ASSUME NEW r \in Requests, Grounded(r, delivered, took), Begin(h, r) PROVE IInv'
  BY <1>0, <1>1, QuietKeeps DEF Begin, tables, Idle
<1>2. ASSUME NEW o \in Orders, PickupOrder(h, o) PROVE IInv'
  <2> DEFINE r == [kind |-> "ride", order |-> o, to |-> "PICKED_UP", then |-> "code"]
  <2>1. r \in Requests /\ Grounded(r, delivered, took)
    BY DEF Requests, Grounded, OrderStatuses
  <2> QED BY <1>1, <1>2, <2>1 DEF PickupOrder
<1>3. ASSUME NEW o \in Orders, StartDelivery(h, o) PROVE IInv'
  <2> DEFINE r == [kind |-> "ride", order |-> o, to |-> "ON_THE_WAY", then |-> "done"]
  <2>1. r \in Requests /\ Grounded(r, delivered, took)
    BY DEF Requests, Grounded, OrderStatuses
  <2> QED BY <1>1, <1>3, <2>1 DEF StartDelivery
<1>4. ASSUME NEW o \in Orders, ConfirmDelivery(h, o) PROVE IInv'
  <2> DEFINE r == [kind |-> "ride", order |-> o, to |-> "DELIVERED", then |-> "complete"]
  <2>1. r \in Requests /\ Grounded(r, delivered, took)
    BY DEF Requests, Grounded, OrderStatuses
  <2> QED BY <1>1, <1>4, <2>1 DEF ConfirmDelivery
<1>5. ASSUME NEW o \in Orders, EnterWrongCode(h, o) PROVE IInv'
  <2> DEFINE r == [kind |-> "wrong", order |-> o]
  <2>1. r \in Requests /\ Grounded(r, delivered, took)
    BY DEF Requests, Grounded, OrderStatuses
  <2> QED BY <1>0, <1>5, <2>1, QuietKeeps DEF EnterWrongCode, Idle
<1>6. ASSUME NEW o \in Orders, OnOrderClosed(h, o) PROVE IInv'
  <2> DEFINE r == IF Carries(o) THEN [kind |-> "release", order |-> o] ELSE Idle
  <2>1. r \in Requests /\ Grounded(r, delivered, took)
    BY IdleGrounded DEF Requests, Grounded
  <2>2. /\ Continue(h, r) /\ req[h] = Idle /\ closing' \subseteq closing
        /\ UNCHANGED <<orders, runs, entries, earned, delivered, took, lost>>
    BY <1>6 DEF OnOrderClosed
  <2> HIDE DEF r
  <2> QED BY <1>0, <2>1, <2>2, QuietKeeps DEF Idle
<1>7. ASSUME NEW o \in Orders, NEW to \in TERMINAL_STATUSES, NEW as, Advance(h, o, to, as)
      PROVE  IInv'
  <2> DEFINE r == [kind |-> "move", order |-> o, to |-> to, then |-> "done"]
  <2>1. r \in Requests /\ Grounded(r, delivered, took)
    BY DEF Requests, Grounded, OrderStatuses, TERMINAL_STATUSES
  <2> QED BY <1>1, <1>7, <2>1 DEF Advance
<1>8. ASSUME NEW o \in Orders, NEW to \in RECIPIENTS, MarkPaymentReceived(h, o, to) PROVE IInv'
  <2> DEFINE r == [kind |-> "transfer", order |-> o, recipient |-> to]
  <2>1. r \in Requests /\ Grounded(r, delivered, took)
    BY DEF Requests, Grounded, OrderStatuses
  <2> QED BY <1>1, <1>8, <2>1 DEF MarkPaymentReceived
<1>9. ASSUME NEW p \in Pairs, NEW d \in Directions, NEW amount \in Amounts,
             RecordSettlement(h, p, d, amount)
      PROVE  IInv'
  <2> DEFINE r == [kind |-> "settle", pair |-> p, direction |-> d, amount |-> amount]
  <2>1. r \in Requests /\ Grounded(r, delivered, took)
    BY DEF Requests, Grounded, Amounts
  <2> QED BY <1>1, <1>9, <2>1 DEF RecordSettlement
<1> QED BY <1>2, <1>3, <1>4, <1>5, <1>6, <1>7, <1>8, <1>9 DEF Request

\* A move that lands: cash is said to have reached the rider as it is written.
LEMMA MovesKeep ==
    ASSUME IInv, NEW h \in Handlers, CommitMove(h)
    PROVE  IInv'
<1> DEFINE o == req[h].order
           to == req[h].to
           then == req[h].then
           next == IF then = "done" THEN Idle ELSE [kind |-> then, order |-> o]
<1>1. /\ req[h].kind = "move" /\ o \in Orders /\ to \in OrderStatuses
      /\ then \in {"code", "complete", "done"}
      /\ then = "complete" => to = "DELIVERED"
  BY RequestKinds DEF CommitMove, IInv
<1>2. next \in Requests
  BY <1>1, IdleGrounded DEF Requests
<1>3. Continue(h, next)
  BY DEF CommitMove, Finish
<1>4. /\ UNCHANGED <<runs, entries, earned, lost>>
      /\ delivered' = IF to = "DELIVERED" THEN delivered \cup {o} ELSE delivered
      /\ closing' \subseteq closing \cup {o}
  BY DEF CommitMove
<1>5. \/ /\ took' = [took EXCEPT ![o] = @ \cup {"CASH"}]
         /\ orders' = [orders EXCEPT ![o].status = to, ![o].paidTo = "CASH"]
      \/ /\ took' = took
         /\ orders' = [orders EXCEPT ![o].status = to, ![o].paidTo = @]
  BY DEF CommitMove
<1>6. \A p \in Orders : took[p] \subseteq took'[p]
  BY <1>1, <1>5 DEF IInv, TablesTyped
<1>7. TablesTyped'
  <2>1. orders' \in [Orders -> [status : OrderStatuses, method : Methods,
                                paidTo : RECIPIENTS \cup {"CASH", NULL}]]
    <3>1. orders \in [Orders -> [status : OrderStatuses, method : Methods,
                                 paidTo : RECIPIENTS \cup {"CASH", NULL}]]
      BY DEF IInv, TablesTyped
    <3> HIDE DEF o, to
    <3> QED BY <1>1, <1>5, <3>1
  <2>2. took' \in [Orders -> SUBSET (RECIPIENTS \cup {"CASH"})]
    <3>1. took \in [Orders -> SUBSET (RECIPIENTS \cup {"CASH"})]
      BY DEF IInv, TablesTyped
    <3> HIDE DEF o, to
    <3> QED BY <1>1, <1>5, <3>1
  <2>3. delivered' \subseteq Orders /\ closing' \subseteq Orders
    BY <1>1, <1>4 DEF IInv, TablesTyped
  <2> QED BY <1>4, <2>1, <2>2, <2>3 DEF IInv, TablesTyped
<1>8. Grounded(next, delivered', took')
  BY <1>1, <1>4, IdleGrounded DEF Grounded
<1>9. RequestsGrounded'
  <2> HIDE DEF next
  <2>1. delivered \subseteq delivered'
    BY <1>4
  <2> QED BY <1>2, <1>3, <1>6, <1>8, <2>1, GoesOn
<1>10. PaidWasSaid'
  BY <1>1, <1>5 DEF IInv, TablesTyped, PaidWasSaid, RiderCollected
<1>11. BookedIsBacked'
  BY <1>4, <1>6 DEF IInv, BookedIsBacked
<1>12. CompletedIsBooked'
  <2> HIDE DEF next
  <2> QED BY <1>1, <1>3, <1>4, StaysBooked
<1> QED BY <1>7, <1>9, <1>10, <1>11, <1>12 DEF IInv

\* The entry: what was read before it, of an order that was delivered.
LEMMA BookKeeps ==
    ASSUME IInv, NEW h \in Handlers, Book(h)
    PROVE  IInv'
<1> DEFINE r == req[h]
           o == req[h].order
<1>1. /\ r.kind = "book" /\ o \in Orders /\ r.collected \in Nat /\ o \in delivered
      /\ r.collected > 0 => took[o] \cap {"CASH", "RIDER"} # {}
  BY RequestKinds DEF Book, IInv
<1>2. /\ Continue(h, Idle)
      /\ UNCHANGED <<orders, runs, delivered, took, closing, lost>>
  BY DEF Book, Finish
<1>3. \/ /\ entries[o] = NULL
         /\ entries' = [entries EXCEPT ![o] = [collected |-> r.collected, fee |-> Fee[o]]]
         /\ earned' = [earned EXCEPT ![o] = @ + Fee[o]]
      \/ entries[o] # NULL /\ UNCHANGED <<entries, earned>>
  BY DEF Book, NoEntry
<1>4. [collected |-> r.collected, fee |-> Fee[o]] \in [collected : Nat, fee : Nat]
  BY <1>1, MoneyAssumption
<1>5. [collected |-> r.collected, fee |-> Fee[o]] # NULL
  BY <1>4, FreeAssumption
<1>6. /\ entries \in [Orders -> [collected : Nat, fee : Nat] \cup {NULL}]
      /\ earned \in [Orders -> Nat] /\ Fee[o] \in Nat
  BY <1>1, MoneyAssumption DEF IInv, TablesTyped
<1>7. TablesTyped'
  <2>1. /\ entries' \in [Orders -> [collected : Nat, fee : Nat] \cup {NULL}]
        /\ earned' \in [Orders -> Nat]
    <3> HIDE DEF o
    <3> QED BY <1>1, <1>3, <1>4, <1>6
  <2> QED BY <1>2, <2>1 DEF IInv, TablesTyped
<1>8. RequestsGrounded'
  BY <1>2, IdleGrounded, GoesOn
<1>9. PaidWasSaid'
  BY <1>2 DEF IInv, PaidWasSaid, RiderCollected
<1>10. BookedIsBacked'
  <2> SUFFICES ASSUME NEW p \in Orders
               PROVE  /\ earned'[p] = IF entries'[p] = NULL THEN 0 ELSE Fee[p]
                      /\ entries'[p] # NULL =>
                           /\ p \in delivered
                           /\ entries'[p].collected > 0 => took[p] \cap {"CASH", "RIDER"} # {}
    BY <1>2 DEF BookedIsBacked
  <2>1. CASE entries[o] = NULL /\ p = o
    BY <1>1, <1>3, <1>5, <1>6, <2>1 DEF IInv, BookedIsBacked
  <2>2. CASE entries[o] # NULL \/ p # o
    BY <1>1, <1>3, <1>6, <2>2 DEF IInv, BookedIsBacked
  <2> QED BY <2>1, <2>2
<1>11. CompletedIsBooked'
  <2>1. /\ \A p \in Orders : entries[p] # NULL => entries'[p] # NULL
        /\ entries'[o] # NULL
    BY <1>1, <1>3, <1>5, <1>6
  <2> QED BY <1>1, <1>2, <2>1, StaysBooked
<1> QED BY <1>7, <1>8, <1>9, <1>10, <1>11 DEF IInv

\* A transfer that lands was said to land.
LEMMA TransfersKeep ==
    ASSUME IInv, NEW h \in Handlers, LandTransfer(h)
    PROVE  IInv'
<1> DEFINE o == req[h].order
           to == req[h].recipient
<1>1. req[h].kind = "landing" /\ o \in Orders /\ to \in RECIPIENTS
  BY RequestKinds DEF LandTransfer, IInv
<1>2. PICK recipient \in {to} \cup ({orders[o].paidTo} \cap RECIPIENTS) :
        orders' = [orders EXCEPT ![o].paidTo = recipient, ![o].method = "QR_TRANSFER"]
  BY DEF LandTransfer
<1>3. /\ took' = [took EXCEPT ![o] = @ \cup {to}]
      /\ Continue(h, Idle)
      /\ UNCHANGED <<runs, entries, earned, delivered, closing, lost>>
  BY DEF LandTransfer, Finish
<1>4. /\ orders \in [Orders -> [status : OrderStatuses, method : Methods,
                                paidTo : RECIPIENTS \cup {"CASH", NULL}]]
      /\ took \in [Orders -> SUBSET (RECIPIENTS \cup {"CASH"})]
  BY DEF IInv, TablesTyped
<1>5. TablesTyped'
  <2>1. orders' \in [Orders -> [status : OrderStatuses, method : Methods,
                                paidTo : RECIPIENTS \cup {"CASH", NULL}]]
    <3>1. recipient \in RECIPIENTS /\ "QR_TRANSFER" \in Methods
      BY <1>1 DEF Methods
    <3> HIDE DEF o, to
    <3> QED BY <1>1, <1>2, <1>4, <3>1
  <2>2. took' \in [Orders -> SUBSET (RECIPIENTS \cup {"CASH"})]
    <3> HIDE DEF o, to
    <3> QED BY <1>1, <1>3, <1>4
  <2> QED BY <1>3, <2>1, <2>2 DEF IInv, TablesTyped
<1>6. \A p \in Orders : took[p] \subseteq took'[p]
  BY <1>1, <1>3, <1>4
<1>7. RequestsGrounded'
  BY <1>3, <1>6, IdleGrounded, GoesOn
<1>8. PaidWasSaid'
  <2> SUFFICES ASSUME NEW p \in Orders, RiderCollected(p)' PROVE orders'[p].paidTo \in took'[p]
    BY DEF PaidWasSaid
  <2>1. CASE p = o
    <3>1. orders'[o].paidTo = recipient /\ took'[o] = took[o] \cup {to}
      BY <1>1, <1>2, <1>3, <1>4
    <3>2. CASE recipient = to
      BY <2>1, <3>1, <3>2
    <3>3. CASE recipient = orders[o].paidTo
      BY <1>1, <2>1, <3>1, <3>3 DEF IInv, PaidWasSaid, RiderCollected
    <3> QED BY <3>2, <3>3
  <2>2. CASE p # o
    BY <1>1, <1>2, <1>3, <1>4, <2>2 DEF IInv, PaidWasSaid, RiderCollected
  <2> QED BY <2>1, <2>2
<1>9. BookedIsBacked'
  BY <1>3, <1>6 DEF IInv, BookedIsBacked
<1>10. CompletedIsBooked'
  BY <1>1, <1>3, StaysBooked
<1> QED BY <1>5, <1>7, <1>8, <1>9, <1>10 DEF IInv

\* The other steps write a code, an end of a run, or nothing of this.
LEMMA OthersKeep ==
    ASSUME IInv, NEW h \in Handlers,
           \/ CountFailure(h) \/ Ride(h) \/ StoreOtp(h) \/ Complete(h) \/ Release(h)
           \/ BeginRecord(h) \/ SettleTransfer(h) \/ ReadTotals(h) \/ CommitSettlement(h)
    PROVE  IInv'
<1> DEFINE r == req[h]
           o == req[h].order
           Runs == [Orders -> [status : {"ACCEPTED", "COMPLETED", "CANCELLED"},
                               code : {"none", "live", "stale"}, attempts : Nat]]
<1>1. /\ RequestsGrounded /\ runs \in Runs
      /\ entries \in [Orders -> [collected : Nat, fee : Nat] \cup {NULL}]
      /\ r \in Requests /\ Grounded(r, delivered, took) /\ lost \subseteq Orders
  BY DEF IInv, TablesTyped, RequestsGrounded
<1>2. ASSUME Continue(h, Idle), r.kind \notin {"record", "book"},
             UNCHANGED <<orders, entries, earned, delivered, took, closing, lost>>,
             runs' \in Runs,
             \A p \in Orders : runs'[p].status = "COMPLETED" => runs[p].status = "COMPLETED"
      PROVE  IInv'
  BY <1>1, <1>2, IdleGrounded, QuietKeeps
<1>3. CASE CountFailure(h)
  <2>1. o \in Orders /\ r.kind = "wrong" /\ runs' = [runs EXCEPT ![o].attempts = @ + 1]
    BY <1>1, <1>3, RequestKinds DEF CountFailure
  <2>2. /\ runs' \in Runs
        /\ \A p \in Orders : runs'[p].status = "COMPLETED" => runs[p].status = "COMPLETED"
    <3> HIDE DEF o
    <3> QED BY <1>1, <2>1
  <2> QED BY <1>2, <1>3, <2>1, <2>2 DEF CountFailure, Finish
<1>4. CASE Ride(h)
  <2> DEFINE next == IF MayMove("DRIVER", orders[o].status, r.to)
                     THEN [r EXCEPT !.kind = "move"] ELSE Idle
  <2>1. r.kind = "ride" /\ Continue(h, next) /\ UNCHANGED tables
    BY <1>4 DEF Ride, Finish
  <2>2. [r EXCEPT !.kind = "move"] \in Requests
    BY <1>1, <2>1 DEF Requests, Idle
  <2>3. Grounded([r EXCEPT !.kind = "move"], delivered, took)
    BY <1>1, <2>1 DEF Grounded, Requests, Idle
  <2>4. next \in Requests /\ Grounded(next, delivered, took)
    BY <2>2, <2>3, IdleGrounded
  <2> HIDE DEF next
  <2> QED BY <1>1, <2>1, <2>4, QuietKeeps DEF tables
<1>5. CASE StoreOtp(h)
  <2>1. /\ o \in Orders /\ r.kind = "code"
        /\ runs' = [runs EXCEPT ![o].code = "live", ![o].attempts = 0]
    BY <1>1, <1>5, RequestKinds DEF StoreOtp
  <2>2. /\ runs' \in Runs
        /\ \A p \in Orders : runs'[p].status = "COMPLETED" => runs[p].status = "COMPLETED"
    <3> HIDE DEF o
    <3> QED BY <1>1, <2>1
  <2> QED BY <1>2, <1>5, <2>1, <2>2 DEF StoreOtp, Finish
<1>6. CASE Complete(h)
  <2> DEFINE next == [kind |-> "record", order |-> o]
  <2>1. /\ o \in Orders /\ r.kind = "complete" /\ o \in delivered
        /\ runs' = [runs EXCEPT ![o].status = "COMPLETED"]
    BY <1>1, <1>6, RequestKinds DEF Complete
  <2>2. /\ runs' \in Runs
        /\ \A p \in Orders : runs'[p].status = "COMPLETED" => runs[p].status = "COMPLETED" \/ p = o
    <3> HIDE DEF o
    <3> QED BY <1>1, <2>1
  <2>3. next \in Requests /\ Grounded(next, delivered, took)
    BY <2>1 DEF Requests, Grounded
  <2> QED BY <1>1, <1>6, <2>1, <2>2, <2>3, QuietKeeps DEF Complete
<1>7. CASE Release(h)
  <2>1. o \in Orders /\ r.kind = "release" /\ runs' = [runs EXCEPT ![o].status = "CANCELLED"]
    BY <1>1, <1>7, RequestKinds DEF Release
  <2>2. /\ runs' \in Runs
        /\ \A p \in Orders : runs'[p].status = "COMPLETED" => runs[p].status = "COMPLETED"
    <3> HIDE DEF o
    <3> QED BY <1>1, <2>1
  <2> QED BY <1>2, <1>7, <2>1, <2>2 DEF Release, Finish
<1>8. CASE BeginRecord(h)
  <2>1. r.kind = "record" /\ o \in Orders /\ o \in delivered /\ UNCHANGED tables
    BY <1>1, <1>8, RequestKinds DEF BeginRecord
  <2>2. CASE entries[o] # NULL
    <3>1. Continue(h, Idle)
      BY <1>8, <2>2 DEF BeginRecord, Finish
    <3> QED BY <1>1, <2>1, <2>2, <3>1, IdleGrounded, QuietKeeps DEF tables
  <2>3. CASE entries[o] = NULL
    <3> DEFINE next == [kind |-> "book", order |-> o, collected |-> CollectedAmount(o)]
    <3>1. Continue(h, next)
      BY <1>8, <2>3 DEF BeginRecord
    <3>2. CollectedAmount(o) \in Nat
      BY <2>1, MoneyAssumption DEF CollectedAmount
    <3>3. CollectedAmount(o) > 0 => took[o] \cap {"CASH", "RIDER"} # {}
      BY <2>1 DEF CollectedAmount, IInv, PaidWasSaid, RiderCollected
    <3>4. next \in Requests /\ Grounded(next, delivered, took)
      BY <2>1, <3>2, <3>3 DEF Requests, Grounded
    <3> QED BY <1>1, <2>1, <3>1, <3>4, QuietKeeps DEF tables
  <2> QED BY <2>2, <2>3
<1>9. CASE SettleTransfer(h)
  <2> DEFINE next == IF orders[o].paidTo # NULL THEN Idle ELSE [r EXCEPT !.kind = "landing"]
  <2>1. r.kind = "transfer" /\ Continue(h, next) /\ UNCHANGED tables
    BY <1>9 DEF SettleTransfer, Finish
  <2>2. [r EXCEPT !.kind = "landing"] \in Requests
    BY <1>1, <2>1 DEF Requests, Idle
  <2>3. Grounded([r EXCEPT !.kind = "landing"], delivered, took)
    BY <1>1, <2>1 DEF Grounded, Requests, Idle
  <2>4. next \in Requests /\ Grounded(next, delivered, took)
    BY <2>2, <2>3, IdleGrounded
  <2> HIDE DEF next
  <2> QED BY <1>1, <2>1, <2>4, QuietKeeps DEF tables
<1>10. CASE ReadTotals(h)
  <2> DEFINE next == IF r.amount <= Owed(r.pair, r.direction)
                     THEN [r EXCEPT !.kind = "settling"] ELSE Idle
  <2>1. /\ r.kind = "settle" /\ Continue(h, next)
        /\ UNCHANGED <<orders, runs, entries, earned, delivered, took, closing, lost>>
    BY <1>10 DEF ReadTotals, Finish
  <2>2. [r EXCEPT !.kind = "settling"] \in Requests
    BY <1>1, <2>1 DEF Requests, Idle
  <2>3. Grounded([r EXCEPT !.kind = "settling"], delivered, took)
    BY <1>1, <2>1 DEF Grounded, Requests, Idle
  <2>4. next \in Requests /\ Grounded(next, delivered, took)
    BY <2>2, <2>3, IdleGrounded
  <2> HIDE DEF next
  <2> QED BY <1>1, <2>1, <2>4, QuietKeeps
<1>11. CASE CommitSettlement(h)
  BY <1>1, <1>2, <1>11 DEF CommitSettlement, Finish
<1> QED BY <1>3, <1>4, <1>5, <1>6, <1>7, <1>8, <1>9, <1>10, <1>11

\* Giving up writes nothing but what is lost by it.
LEMMA AbandonKeeps ==
    ASSUME IInv, NEW h \in Handlers, Abandon(h)
    PROVE  IInv'
<1> DEFINE r == req[h]
<1>1. /\ Continue(h, Idle)
      /\ UNCHANGED <<orders, runs, entries, earned, delivered, took, closing>>
      /\ lost' = IF r.kind \in {"record", "book"} THEN lost \cup {r.order} ELSE lost
  BY DEF Abandon, Finish
<1>2. r.kind \in {"record", "book"} => r.order \in Orders
  BY RequestKinds DEF IInv
<1>3. lost \subseteq lost' /\ lost' \subseteq Orders
  BY <1>1, <1>2 DEF IInv, TablesTyped
<1>4. runs \in [Orders -> [status : {"ACCEPTED", "COMPLETED", "CANCELLED"},
                          code : {"none", "live", "stale"}, attempts : Nat]]
  BY DEF IInv, TablesTyped
<1> QED BY <1>1, <1>3, <1>4, IdleGrounded, QuietKeeps

\* An event that is lost takes nothing with it.
LEMMA ForgetKeeps ==
    ASSUME IInv, NEW o \in Orders, Forget(o)
    PROVE  IInv'
<1>1. /\ closing' \subseteq closing
      /\ UNCHANGED <<orders, runs, entries, earned, delivered, took, lost, req>>
  BY DEF Forget
<1>2. TablesTyped'
  BY <1>1 DEF IInv, TablesTyped
<1>3. RequestsGrounded' /\ PaidWasSaid' /\ BookedIsBacked' /\ CompletedIsBooked'
  BY <1>1 DEF IInv, RequestsGrounded, Grounded, PaidWasSaid, BookedIsBacked, RiderCollected,
              CompletedIsBooked
<1> QED BY <1>2, <1>3 DEF IInv

\* A code lapses without anybody's step.
LEMMA LapsesKeep ==
    ASSUME IInv, NEW o \in Orders, CodeLapses(o)
    PROVE  IInv'
<1> DEFINE Runs == [Orders -> [status : {"ACCEPTED", "COMPLETED", "CANCELLED"},
                               code : {"none", "live", "stale"}, attempts : Nat]]
<1>1. runs \in Runs
  BY DEF IInv, TablesTyped
<1>2. /\ runs' \in Runs
      /\ \A p \in Orders : runs'[p].status = "COMPLETED" => runs[p].status = "COMPLETED"
  BY <1>1 DEF CodeLapses
<1>3. UNCHANGED <<orders, entries, earned, delivered, took, closing, lost, req>>
  BY DEF CodeLapses
<1>4. TablesTyped'
  BY <1>2, <1>3 DEF IInv, TablesTyped
<1>5. RequestsGrounded' /\ PaidWasSaid' /\ BookedIsBacked'
  BY <1>3 DEF IInv, RequestsGrounded, Grounded, PaidWasSaid, BookedIsBacked, RiderCollected
<1>6. CompletedIsBooked'
  BY <1>2, <1>3 DEF IInv, CompletedIsBooked
<1> QED BY <1>4, <1>5, <1>6 DEF IInv

LEMMA StepKeeps == IInv /\ [Next]_vars => IInv'
<1> SUFFICES ASSUME IInv, [Next]_vars PROVE IInv'
  OBVIOUS
<1>1. CASE UNCHANGED vars
  <2>1. TablesTyped' /\ RequestsGrounded' /\ PaidWasSaid'
    BY <1>1 DEF vars, tables, IInv, TablesTyped, RequestsGrounded, Grounded, PaidWasSaid,
                RiderCollected
  <2>2. BookedIsBacked' /\ CompletedIsBooked'
    BY <1>1 DEF vars, tables, IInv, BookedIsBacked, CompletedIsBooked
  <2> QED BY <2>1, <2>2 DEF IInv
<1>2. ASSUME NEW h \in Handlers, Proceed(h) PROVE IInv'
  BY <1>2, MovesKeep, BookKeeps, TransfersKeep, OthersKeep DEF Proceed
<1>3. ASSUME NEW h \in Handlers, Request(h) PROVE IInv'
  BY <1>3, RequestsKeep
<1>4. ASSUME NEW o \in Orders, CodeLapses(o) \/ Forget(o) PROVE IInv'
  BY <1>4, LapsesKeep, ForgetKeeps
<1>5. ASSUME NEW h \in Handlers, Abandon(h) PROVE IInv'
  BY <1>5, AbandonKeeps
<1> QED BY <1>1, <1>2, <1>3, <1>4, <1>5 DEF Next

-----------------------------------------------------------------------------
\* In every state the end of a delivery can reach, the tables hold rows of their
\* type, and what a request still means to write is backed by what was committed.
THEOREM Invariance == Spec => []IInv
BY StartKeeps, StepKeeps, PTL DEF Spec

\* However many requests race through the end of a delivery, its entry and
\* its earnings are booked together and once, only for an order that was
\* delivered, and nothing is charged to a rider that nobody said he got: the
\* request that books keeps what it read, and neither fact is ever taken back.
THEOREM Backed == Spec => []BookedIsBacked
<1>1. IInv => BookedIsBacked
  BY DEF IInv
<1> QED BY <1>1, Invariance, PTL

\* A completed run has its entry, or a request that is about to book it, or
\* the request that was to book it failed after completing it: no race of
\* confirmations, releases, transfers and settlements, only a failure, parts a
\* completed run from its entry.
THEOREM NoneUnbooked == Spec => []CompletedIsBooked
<1>1. IInv => CompletedIsBooked
  BY DEF IInv
<1> QED BY <1>1, Invariance, PTL

-----------------------------------------------------------------------------
(* Guesses of a delivery code.  Each is compared with the code before it   *)
(* is counted, so the counter lags behind by the guesses under way.        *)

Guessing(o) == {h \in Handlers : req[h].kind = "wrong" /\ req[h].order = o}

\* Every guess that was compared is counted, or about to be, or given up on.
GuessesTold ==
    \A o \in Orders :
        compared[o] <= runs[o].attempts + Cardinality(Guessing(o)) + uncounted[o]

GuessInv ==
    /\ compared \in [Orders -> Nat] /\ uncounted \in [Orders -> Nat]
    /\ GuessesTold
    /\ GuessesBounded

\* So many guesses are under way at most, and one fewer while h is at rest.
LEMMA GuessersCounted ==
    ASSUME NEW o \in Orders
    PROVE  /\ IsFiniteSet(Guessing(o)) /\ Cardinality(Guessing(o)) \in Nat
           /\ Cardinality(Handlers) \in Nat
           /\ \A h \in Handlers : h \notin Guessing(o) =>
                Cardinality(Guessing(o)) <= Cardinality(Handlers) - 1
<1>1. IsFiniteSet(Guessing(o)) /\ Cardinality(Guessing(o)) \in Nat
      /\ Cardinality(Handlers) \in Nat
  BY HandlerAssumption, FS_Subset, FS_CardinalityType DEF Guessing
<1>2. ASSUME NEW h \in Handlers, h \notin Guessing(o)
      PROVE  Cardinality(Guessing(o)) <= Cardinality(Handlers) - 1
  <2>1. Guessing(o) \subseteq Handlers \ {h}
    BY <1>2 DEF Guessing
  <2>2. /\ IsFiniteSet(Handlers \ {h})
        /\ Cardinality(Handlers \ {h}) = Cardinality(Handlers) - 1
    BY HandlerAssumption, FS_RemoveElement
  <2> QED BY <2>1, <2>2, FS_Subset
<1> QED BY <1>1, <1>2

\* A step that neither begins nor ends a guess, nor touches the counters.
LEMMA GuessesStay ==
    ASSUME IInv, GuessInv, UNCHANGED <<compared, uncounted>>,
           \A o \in Orders : runs'[o].attempts = runs[o].attempts,
           \/ UNCHANGED req
           \/ \E h \in Handlers : /\ Continue(h, req'[h])
                                  /\ req[h].kind # "wrong" /\ req'[h].kind # "wrong"
    PROVE  GuessInv'
<1>1. \A o \in Orders : Guessing(o)' = Guessing(o)
  BY DEF Guessing, Continue, IInv, RequestsGrounded
<1> QED BY <1>1 DEF GuessInv, GuessesTold, GuessesBounded

\* What a handler goes on with is its request.
LEMMA OneGoesOn ==
    ASSUME IInv, NEW h \in Handlers, NEW r, Continue(h, r)
    PROVE  req'[h] = r /\ Continue(h, req'[h])
BY DEF Continue, IInv, RequestsGrounded

\* A guess goes up against the limit with every guess under way beside it.
LEMMA EnteredStays ==
    ASSUME IInv, GuessInv, NEW h \in Handlers, NEW o \in Orders, EnterWrongCode(h, o)
    PROVE  GuessInv'
<1>1. /\ req[h] = Idle /\ req' = [req EXCEPT ![h] = [kind |-> "wrong", order |-> o]]
      /\ compared' = [compared EXCEPT ![o] = IF GuessAllowed(runs[o]) THEN @ + 1 ELSE @]
      /\ UNCHANGED <<runs, uncounted>>
  BY DEF EnterWrongCode, Continue
<1>2. /\ compared \in [Orders -> Nat] /\ uncounted \in [Orders -> Nat]
      /\ runs[o].attempts \in Nat
      /\ req \in [Handlers -> Requests]
  BY DEF GuessInv, IInv, TablesTyped, RequestsGrounded
<1>3. compared' \in [Orders -> Nat]
  BY <1>1, <1>2
<1>4. /\ h \notin Guessing(o) /\ Guessing(o)' = Guessing(o) \cup {h}
      /\ \A p \in Orders : p # o => Guessing(p)' = Guessing(p)
  BY <1>1, <1>2 DEF Guessing, Idle
<1>5. Cardinality(Guessing(o)') = Cardinality(Guessing(o)) + 1
  BY <1>4, GuessersCounted, FS_AddElement
<1>6. GuessesTold'
  <2> SUFFICES ASSUME NEW p \in Orders
               PROVE  compared'[p] <= runs[p].attempts + Cardinality(Guessing(p)') + uncounted[p]
    BY <1>1 DEF GuessesTold
  <2>1. compared[p] <= runs[p].attempts + Cardinality(Guessing(p)) + uncounted[p]
        /\ compared[p] \in Nat /\ uncounted[p] \in Nat
    BY <1>2 DEF GuessInv, GuessesTold
  <2>2. CASE p = o
    BY <1>1, <1>2, <1>5, <2>1, <2>2, GuessersCounted
  <2>3. CASE p # o
    BY <1>1, <1>2, <1>4, <2>1, <2>3
  <2> QED BY <2>2, <2>3
<1>7. GuessesBounded'
  <2> SUFFICES ASSUME NEW p \in Orders
               PROVE  compared'[p] <= MaxAttempts + Cardinality(Handlers) - 1 + uncounted[p]
    BY <1>1 DEF GuessesBounded
  <2>1. CASE p = o /\ GuessAllowed(runs[o])
    <3>1. runs[o].attempts < MaxAttempts
      BY <2>1 DEF GuessAllowed
    <3>2. compared[o] <= runs[o].attempts + Cardinality(Guessing(o)) + uncounted[o]
      BY DEF GuessInv, GuessesTold
    <3>3. /\ Cardinality(Guessing(o)) \in Nat /\ Cardinality(Handlers) \in Nat
          /\ Cardinality(Guessing(o)) <= Cardinality(Handlers) - 1
      BY <1>4, GuessersCounted
    <3>4. compared'[p] = compared[o] + 1 /\ compared[o] \in Nat
      BY <1>1, <1>2, <2>1
    <3> QED BY <1>2, <2>1, <3>1, <3>2, <3>3, <3>4, TryAssumption
  <2>2. CASE ~ (p = o /\ GuessAllowed(runs[o]))
    <3>1. compared'[p] = compared[p]
      BY <1>1, <1>2, <2>2
    <3> QED BY <3>1 DEF GuessInv, GuessesBounded
  <2> QED BY <2>1, <2>2
<1> QED BY <1>1, <1>2, <1>3, <1>6, <1>7 DEF GuessInv

\* What was under way is counted now.
LEMMA CountedStays ==
    ASSUME IInv, GuessInv, NEW h \in Handlers, NEW o \in Orders, req[h].order = o,
           CountFailure(h)
    PROVE  GuessInv'
<1>1. req[h].kind = "wrong"
  BY DEF CountFailure
<1>2. /\ runs' = [runs EXCEPT ![o].attempts = @ + 1]
      /\ req' = [req EXCEPT ![h] = Idle] /\ UNCHANGED <<compared, uncounted>>
  BY DEF CountFailure, Finish, Continue
<1>3. /\ req \in [Handlers -> Requests] /\ compared \in [Orders -> Nat]
      /\ uncounted \in [Orders -> Nat]
      /\ runs \in [Orders -> [status : {"ACCEPTED", "COMPLETED", "CANCELLED"},
                              code : {"none", "live", "stale"}, attempts : Nat]]
  BY DEF GuessInv, IInv, TablesTyped, RequestsGrounded
<1>4. /\ h \in Guessing(o) /\ Guessing(o)' = Guessing(o) \ {h}
      /\ \A p \in Orders : p # o => Guessing(p)' = Guessing(p)
  BY <1>1, <1>2, <1>3 DEF Guessing, Idle
<1>5. Cardinality(Guessing(o)') = Cardinality(Guessing(o)) - 1
  BY <1>1, <1>4, GuessersCounted, FS_RemoveElement
<1>6. /\ runs'[o].attempts = runs[o].attempts + 1 /\ runs[o].attempts \in Nat
      /\ \A p \in Orders : p # o => runs'[p].attempts = runs[p].attempts
  BY <1>1, <1>2, <1>3
<1>7. GuessesTold'
  <2> SUFFICES ASSUME NEW p \in Orders
               PROVE  compared[p] <= runs'[p].attempts + Cardinality(Guessing(p)') + uncounted[p]
    BY <1>2 DEF GuessesTold
  <2>1. compared[p] <= runs[p].attempts + Cardinality(Guessing(p)) + uncounted[p]
        /\ compared[p] \in Nat /\ uncounted[p] \in Nat
    BY <1>3 DEF GuessInv, GuessesTold
  <2>2. CASE p = o
    <3>1. Cardinality(Guessing(o)) \in Nat
      BY GuessersCounted
    <3>2. /\ runs'[p].attempts = runs[o].attempts + 1
          /\ Cardinality(Guessing(p)') = Cardinality(Guessing(o)) - 1
      BY <1>5, <1>6, <2>2
    <3> HIDE DEF Guessing
    <3> QED BY <1>6, <2>1, <2>2, <3>1, <3>2
  <2>3. CASE p # o
    BY <1>4, <1>6, <2>1, <2>3
  <2> QED BY <2>2, <2>3
<1> QED BY <1>2, <1>7 DEF GuessInv, GuessesBounded

\* What nobody will count is one try more.
LEMMA AbandonedStays ==
    ASSUME IInv, GuessInv, NEW h \in Handlers, NEW o \in Orders, req[h].order = o,
           req[h].kind = "wrong", Abandon(h)
    PROVE  GuessInv'
<1>1. /\ req' = [req EXCEPT ![h] = Idle] /\ UNCHANGED <<runs, compared>>
      /\ uncounted' = [uncounted EXCEPT ![o] = @ + 1]
  BY DEF Abandon, Finish, Continue
<1>2. /\ req \in [Handlers -> Requests] /\ compared \in [Orders -> Nat]
      /\ uncounted \in [Orders -> Nat] /\ \A p \in Orders : runs[p].attempts \in Nat
  BY DEF GuessInv, IInv, TablesTyped, RequestsGrounded
<1>3. /\ h \in Guessing(o) /\ Guessing(o)' = Guessing(o) \ {h}
      /\ \A p \in Orders : p # o => Guessing(p)' = Guessing(p)
  BY <1>1, <1>2 DEF Guessing, Idle
<1>4. Cardinality(Guessing(o)') = Cardinality(Guessing(o)) - 1
  BY <1>3, GuessersCounted, FS_RemoveElement
<1>5. /\ uncounted' \in [Orders -> Nat] /\ uncounted'[o] = uncounted[o] + 1
      /\ \A p \in Orders : p # o => uncounted'[p] = uncounted[p]
  BY <1>1, <1>2
<1>6. GuessesTold'
  <2> SUFFICES ASSUME NEW p \in Orders
               PROVE  compared[p] <= runs[p].attempts + Cardinality(Guessing(p)') + uncounted'[p]
    BY <1>1 DEF GuessesTold
  <2>1. compared[p] <= runs[p].attempts + Cardinality(Guessing(p)) + uncounted[p]
    BY DEF GuessInv, GuessesTold
  <2>2. Cardinality(Guessing(p)) \in Nat
    BY GuessersCounted
  <2>3. /\ compared[p] \in Nat /\ runs[p].attempts \in Nat
        /\ uncounted'[p] \in Nat /\ uncounted[p] \in Nat
    BY <1>2, <1>5
  <2>4. CASE p = o
    <3>1. /\ Cardinality(Guessing(p)') = Cardinality(Guessing(p)) - 1
          /\ uncounted'[p] = uncounted[p] + 1
      BY <1>4, <1>5, <2>4
    <3> HIDE DEF Guessing
    <3> QED BY <2>1, <2>2, <2>3, <3>1
  <2>5. CASE p # o
    <3>1. Cardinality(Guessing(p)') = Cardinality(Guessing(p)) /\ uncounted'[p] = uncounted[p]
      BY <1>3, <1>5, <2>5
    <3> HIDE DEF Guessing
    <3> QED BY <2>1, <3>1
  <2> QED BY <2>4, <2>5
<1>7. GuessesBounded'
  <2> SUFFICES ASSUME NEW p \in Orders
               PROVE  compared[p] <= MaxAttempts + Cardinality(Handlers) - 1 + uncounted'[p]
    BY <1>1 DEF GuessesBounded
  <2>1. compared[p] <= MaxAttempts + Cardinality(Handlers) - 1 + uncounted[p]
    BY DEF GuessInv, GuessesBounded
  <2>2. uncounted[p] <= uncounted'[p] /\ uncounted[p] \in Nat /\ uncounted'[p] \in Nat
    BY <1>2, <1>5
  <2>3. Cardinality(Handlers) \in Nat
    BY HandlerAssumption, FS_CardinalityType
  <2> QED BY <1>2, <2>1, <2>2, <2>3, TryAssumption
<1> QED BY <1>1, <1>2, <1>5, <1>6, <1>7 DEF GuessInv

\* A fresh code starts from nothing.
LEMMA StoredStays ==
    ASSUME IInv, GuessInv, NEW h \in Handlers, StoreOtp(h)
    PROVE  GuessInv'
<1> DEFINE o == req[h].order
<1>1. req[h].kind = "code" /\ o \in Orders
  BY RequestKinds DEF StoreOtp, IInv
<1>2. /\ runs' = [runs EXCEPT ![o].code = "live", ![o].attempts = 0]
      /\ compared' = [compared EXCEPT ![o] = 0]
      /\ uncounted' = [uncounted EXCEPT ![o] = 0]
      /\ req' = [req EXCEPT ![h] = Idle]
  BY DEF StoreOtp, Finish, Continue
<1>3. /\ req \in [Handlers -> Requests] /\ compared \in [Orders -> Nat]
      /\ uncounted \in [Orders -> Nat]
      /\ runs \in [Orders -> [status : {"ACCEPTED", "COMPLETED", "CANCELLED"},
                              code : {"none", "live", "stale"}, attempts : Nat]]
  BY DEF GuessInv, IInv, TablesTyped, RequestsGrounded
<1>4. \A p \in Orders : Guessing(p)' = Guessing(p)
  BY <1>1, <1>2, <1>3 DEF Guessing, Idle
<1> HIDE DEF o
<1>5. /\ compared' \in [Orders -> Nat] /\ compared'[o] = 0 /\ runs'[o].attempts = 0
      /\ uncounted' \in [Orders -> Nat] /\ uncounted'[o] = 0
      /\ \A p \in Orders : p # o => /\ compared'[p] = compared[p]
                                    /\ runs'[p].attempts = runs[p].attempts
                                    /\ uncounted'[p] = uncounted[p]
  BY <1>1, <1>2, <1>3
<1>6. GuessesTold'
  <2> SUFFICES ASSUME NEW p \in Orders
               PROVE  compared'[p] <= runs'[p].attempts + Cardinality(Guessing(p)') + uncounted'[p]
    BY DEF GuessesTold
  <2>1. CASE p = o
    BY <1>4, <1>5, <2>1, GuessersCounted
  <2>2. CASE p # o
    BY <1>4, <1>5, <2>2 DEF GuessInv, GuessesTold
  <2> QED BY <2>1, <2>2
<1>7. GuessesBounded'
  <2> SUFFICES ASSUME NEW p \in Orders
               PROVE  compared'[p] <= MaxAttempts + Cardinality(Handlers) - 1 + uncounted'[p]
    BY DEF GuessesBounded
  <2>1. CASE p = o
    <3>1. Cardinality(Handlers) \in Nat /\ Cardinality(Handlers) # 0
      BY FS_CardinalityType, FS_EmptySet, HandlerAssumption
    <3> QED BY <1>5, <2>1, <3>1, TryAssumption
  <2>2. CASE p # o
    BY <1>5, <2>2 DEF GuessInv, GuessesBounded
  <2> QED BY <2>1, <2>2
<1> QED BY <1>5, <1>6, <1>7 DEF GuessInv

LEMMA GuessStepKeeps ==
    ASSUME IInv, GuessInv, [Next]_vars
    PROVE  GuessInv'
<1>1. CASE UNCHANGED vars
  BY <1>1, GuessesStay DEF vars, tables
<1>2. ASSUME NEW o \in Orders, CodeLapses(o) PROVE GuessInv'
  <2>1. \A p \in Orders : runs'[p].attempts = runs[p].attempts
    BY <1>2 DEF CodeLapses, IInv, TablesTyped
  <2> QED BY <1>2, <2>1, GuessesStay DEF CodeLapses
<1>3. ASSUME NEW h \in Handlers, Request(h) PROVE GuessInv'
  <2>1. CASE \E o \in Orders : EnterWrongCode(h, o)
    BY <2>1, EnteredStays
  <2>2. CASE ~ \E o \in Orders : EnterWrongCode(h, o)
    <3>1. UNCHANGED <<runs, compared, uncounted>> /\ req[h] = Idle
      BY <1>3, <2>2 DEF Request, PickupOrder, StartDelivery, ConfirmDelivery, OnOrderClosed,
         Advance, MarkPaymentReceived, RecordSettlement, Begin, tables
    <3>2. ASSUME NEW r, r.kind # "wrong", Continue(h, r) PROVE GuessInv'
      BY <3>1, <3>2, OneGoesOn, GuessesStay DEF Idle
    <3>3. ASSUME NEW o \in Orders, PickupOrder(h, o) \/ StartDelivery(h, o) \/ ConfirmDelivery(h, o)
          PROVE  GuessInv'
      BY <3>2, <3>3 DEF PickupOrder, StartDelivery, ConfirmDelivery, Begin
    <3>4. ASSUME NEW o \in Orders, OnOrderClosed(h, o) PROVE GuessInv'
      <4>1. \/ Continue(h, [kind |-> "release", order |-> o])
            \/ Continue(h, Idle)
        BY <3>4 DEF OnOrderClosed
      <4> QED BY <3>2, <4>1 DEF Idle
    <3>5. ASSUME NEW o, NEW to, NEW as, Advance(h, o, to, as) PROVE GuessInv'
      BY <3>2, <3>5 DEF Advance, Begin
    <3>6. ASSUME NEW o, NEW recipient, MarkPaymentReceived(h, o, recipient) PROVE GuessInv'
      BY <3>2, <3>6 DEF MarkPaymentReceived, Begin
    <3>7. ASSUME NEW p, NEW d, NEW amount, RecordSettlement(h, p, d, amount) PROVE GuessInv'
      BY <3>2, <3>7 DEF RecordSettlement, Begin
    <3> QED BY <1>3, <2>2, <3>3, <3>4, <3>5, <3>6, <3>7 DEF Request
  <2> QED BY <2>1, <2>2
<1>4. ASSUME NEW h \in Handlers, Proceed(h) PROVE GuessInv'
  <2>1. CASE CountFailure(h) \/ StoreOtp(h)
    <3>1. CountFailure(h) => req[h].order \in Orders
      BY RequestKinds DEF CountFailure, IInv
    <3> QED BY <2>1, <3>1, CountedStays, StoredStays
  <2>2. CASE \/ Ride(h) \/ CommitMove(h) \/ Complete(h) \/ Release(h) \/ BeginRecord(h)
             \/ Book(h) \/ SettleTransfer(h) \/ LandTransfer(h)
             \/ ReadTotals(h) \/ CommitSettlement(h)
    <3>1. UNCHANGED <<compared, uncounted>> /\ req[h].kind # "wrong"
      BY <2>2 DEF Ride, CommitMove, Complete, Release, BeginRecord, Book, SettleTransfer,
         LandTransfer, ReadTotals, CommitSettlement, tables
    <3>2. \A p \in Orders : runs'[p].attempts = runs[p].attempts
      <4>1. ASSUME NEW o, NEW status, runs' = [runs EXCEPT ![o].status = status]
            PROVE  \A p \in Orders : runs'[p].attempts = runs[p].attempts
        BY <4>1 DEF IInv, TablesTyped
      <4>2. CASE Release(h)
        BY <4>1, <4>2 DEF Release
      <4>3. CASE Complete(h)
        BY <4>1, <4>3 DEF Complete
      <4>4. CASE \/ Ride(h) \/ CommitMove(h) \/ BeginRecord(h) \/ Book(h) \/ SettleTransfer(h)
                 \/ LandTransfer(h) \/ ReadTotals(h) \/ CommitSettlement(h)
        BY <4>4 DEF Ride, CommitMove, BeginRecord, Book, SettleTransfer, LandTransfer,
           ReadTotals, CommitSettlement, tables
      <4> QED BY <2>2, <4>2, <4>3, <4>4
    <3>3. ASSUME NEW r, r.kind # "wrong", Continue(h, r) PROVE GuessInv'
      BY <3>1, <3>2, <3>3, OneGoesOn, GuessesStay
    <3>4. req[h] \in Requests
      BY DEF IInv, RequestsGrounded
    <3>5. ASSUME NEW kind, kind # "wrong", req[h].kind \in {"ride", "transfer", "settle"},
                 Continue(h, [req[h] EXCEPT !.kind = kind])
          PROVE  GuessInv'
      <4> DEFINE r == [req[h] EXCEPT !.kind = kind]
      <4>1. r.kind # "wrong"
        BY <3>4, <3>5 DEF Requests, Idle
      <4>2. Continue(h, r)
        BY <3>5
      <4> HIDE DEF r
      <4> QED BY <3>3, <4>1, <4>2
    <3>6. ASSUME Finish(h) PROVE GuessInv'
      BY <3>3, <3>6 DEF Finish, Idle
    <3>7. CASE Ride(h) \/ SettleTransfer(h) \/ ReadTotals(h)
      BY <3>5, <3>6, <3>7 DEF Ride, SettleTransfer, ReadTotals
    <3>8. CASE CommitMove(h)
      <4>1. req[h].then \in {"code", "complete", "done"}
        BY <3>8, RequestKinds DEF CommitMove, IInv
      <4> QED BY <3>3, <3>6, <3>8, <4>1 DEF CommitMove
    <3>9. CASE Complete(h) \/ BeginRecord(h)
      BY <3>3, <3>6, <3>9 DEF Complete, BeginRecord
    <3>10. CASE Release(h) \/ Book(h) \/ LandTransfer(h) \/ CommitSettlement(h)
      BY <3>6, <3>10 DEF Release, Book, LandTransfer, CommitSettlement
    <3> QED BY <2>2, <3>7, <3>8, <3>9, <3>10
  <2> QED BY <1>4, <2>1, <2>2 DEF Proceed
<1>5. ASSUME NEW o \in Orders, Forget(o) PROVE GuessInv'
  BY <1>5, GuessesStay DEF Forget
<1>6. ASSUME NEW h \in Handlers, Abandon(h) PROVE GuessInv'
  <2>1. CASE req[h].kind = "wrong"
    <3>1. req[h].order \in Orders
      BY <2>1, RequestKinds DEF IInv
    <3> QED BY <1>6, <2>1, <3>1, AbandonedStays
  <2>2. CASE req[h].kind # "wrong"
    <3>1. /\ UNCHANGED <<runs, compared, uncounted>> /\ Continue(h, Idle)
      BY <1>6, <2>2 DEF Abandon, Finish
    <3> QED BY <2>2, <3>1, OneGoesOn, GuessesStay DEF Idle
  <2> QED BY <2>1, <2>2
<1> QED BY <1>1, <1>2, <1>3, <1>4, <1>5, <1>6 DEF Next

\* However many guesses of a code are sent at once, each compared before any
\* is counted: a code is tried as often as its limit, once more for each
\* other request that may be under way, and once for each that failed before it
\* counted, and no oftener.
THEOREM FewGuesses == Spec => []GuessesBounded
<1>1. Init => GuessInv
  <2> SUFFICES ASSUME Init PROVE GuessInv
    OBVIOUS
  <2>1. /\ compared \in [Orders -> Nat] /\ uncounted \in [Orders -> Nat]
        /\ \A o \in Orders : compared[o] = 0 /\ uncounted[o] = 0
    BY DEF Init
  <2>2. \A o \in Orders : runs[o].attempts = 0
    BY DEF Init
  <2> QED BY <2>1, <2>2, GuessersCounted, HandlerAssumption, FS_CardinalityType, TryAssumption
       DEF GuessInv, GuessesTold, GuessesBounded
<1>2. IInv /\ GuessInv /\ [Next]_vars => GuessInv'
  BY GuessStepKeeps
<1>3. GuessInv => GuessesBounded
  BY DEF GuessInv
<1> QED BY <1>1, <1>2, <1>3, Invariance, PTL DEF Spec

-----------------------------------------------------------------------------
(* Settlements.  Whoever read the totals holds the lock of the pair until  *)
(* he commits, so what is handed over stays what he read, and the sums of  *)
(* the runs that were booked only grow.                                    *)

Handed(p) == settled[p]["RIDER_TO_RESTAURANT"]
Paid(p) == settled[p]["RESTAURANT_TO_RIDER"]

Positives(p) == MapThenSumSet(PositiveNet, Booked(p))
Negatives(p) == MapThenSumSet(NegativeNet, Booked(p))

\* An amount that is about to be handed over is covered as if it had been.
SettlingCovered ==
    \A h \in Handlers : req[h].kind = "settling" =>
        LET r == req[h]
        IN  /\ lock[r.pair] = h
            /\ r.direction = "RIDER_TO_RESTAURANT" =>
                 Handed(r.pair) + r.amount - Paid(r.pair) <= Positives(r.pair)
            /\ r.direction = "RESTAURANT_TO_RIDER" =>
                 Paid(r.pair) + r.amount - Handed(r.pair) <= Negatives(r.pair)

SettleInv ==
    /\ settled \in [Pairs -> [Directions -> Int]]
    /\ lock \in [Pairs -> Handlers \cup {NULL}]
    /\ \A p \in Pairs : IsFiniteSet(Booked(p))
    /\ \A h \in Handlers : req[h].kind \in {"settle", "settling"} => req[h].amount > 0
    /\ SettlingCovered
    /\ SettlementsCovered

\* The three sums of a pair as sums of what its orders are given.
LEMMA LedgerSums ==
    ASSUME NEW p
    PROVE  /\ IsFiniteSet(Booked(p)) =>
                /\ Positives(p) = Sigma([o \in Booked(p) |-> PositiveNet(o)], Booked(p))
                /\ Negatives(p) = Sigma([o \in Booked(p) |-> NegativeNet(o)], Booked(p))
                /\ MapThenSumSet(NetOf, Booked(p))
                     = Sigma([o \in Booked(p) |-> NetOf(o)], Booked(p))
           /\ IsFiniteSet(Booked(p)') =>
                /\ Positives(p)' = Sigma([o \in Booked(p) |-> PositiveNet(o)]', Booked(p)')
                /\ Negatives(p)' = Sigma([o \in Booked(p) |-> NegativeNet(o)]', Booked(p)')
<1>1. ASSUME IsFiniteSet(Booked(p))
      PROVE  Positives(p) = Sigma([o \in Booked(p) |-> PositiveNet(o)], Booked(p))
  <2> DEFINE w == [o \in Booked(p) |-> PositiveNet(o)]
             Folds(g) == g = [s \in SUBSET Booked(p) |->
                IF s = {} THEN 0
                ELSE PositiveNet(CHOOSE x \in s : TRUE) + g[s \ {CHOOSE x \in s : TRUE}]]
  <2>1. Positives(p) = (CHOOSE g : Folds(g))[Booked(p)]
    BY DEF Positives, Negatives, MapThenSumSet, MapThenFoldSet
  <2>2. \A s \in SUBSET Booked(p) :
           s # {} => w[CHOOSE x \in s : TRUE] = PositiveNet(CHOOSE x \in s : TRUE)
    OBVIOUS
  <2> HIDE DEF w
  <2>3. \A g : Folds(g) <=> Adds(g, w, Booked(p))
    BY <2>2 DEF Adds
  <2>4. \A g : Folds(g) <=> g = Sigmas(w, Booked(p))
    BY <1>1, <2>3, SumsDefined DEF Summed
  <2> HIDE DEF Folds
  <2>5. (CHOOSE g : Folds(g)) = Sigmas(w, Booked(p))
    BY <2>4
  <2> QED BY <2>1, <2>5 DEF Sigmas, w
<1>2. ASSUME IsFiniteSet(Booked(p))
      PROVE  Negatives(p) = Sigma([o \in Booked(p) |-> NegativeNet(o)], Booked(p))
  <2> DEFINE w == [o \in Booked(p) |-> NegativeNet(o)]
             Folds(g) == g = [s \in SUBSET Booked(p) |->
                IF s = {} THEN 0
                ELSE NegativeNet(CHOOSE x \in s : TRUE) + g[s \ {CHOOSE x \in s : TRUE}]]
  <2>1. Negatives(p) = (CHOOSE g : Folds(g))[Booked(p)]
    BY DEF Positives, Negatives, MapThenSumSet, MapThenFoldSet
  <2>2. \A s \in SUBSET Booked(p) :
           s # {} => w[CHOOSE x \in s : TRUE] = NegativeNet(CHOOSE x \in s : TRUE)
    OBVIOUS
  <2> HIDE DEF w
  <2>3. \A g : Folds(g) <=> Adds(g, w, Booked(p))
    BY <2>2 DEF Adds
  <2>4. \A g : Folds(g) <=> g = Sigmas(w, Booked(p))
    BY <1>2, <2>3, SumsDefined DEF Summed
  <2> HIDE DEF Folds
  <2>5. (CHOOSE g : Folds(g)) = Sigmas(w, Booked(p))
    BY <2>4
  <2> QED BY <2>1, <2>5 DEF Sigmas, w
<1>3. ASSUME IsFiniteSet(Booked(p))
      PROVE  MapThenSumSet(NetOf, Booked(p)) = Sigma([o \in Booked(p) |-> NetOf(o)], Booked(p))
  <2> DEFINE w == [o \in Booked(p) |-> NetOf(o)]
             Folds(g) == g = [s \in SUBSET Booked(p) |->
                IF s = {} THEN 0
                ELSE NetOf(CHOOSE x \in s : TRUE) + g[s \ {CHOOSE x \in s : TRUE}]]
  <2>1. MapThenSumSet(NetOf, Booked(p)) = (CHOOSE g : Folds(g))[Booked(p)]
    BY DEF Positives, Negatives, MapThenSumSet, MapThenFoldSet
  <2>2. \A s \in SUBSET Booked(p) :
           s # {} => w[CHOOSE x \in s : TRUE] = NetOf(CHOOSE x \in s : TRUE)
    OBVIOUS
  <2> HIDE DEF w
  <2>3. \A g : Folds(g) <=> Adds(g, w, Booked(p))
    BY <2>2 DEF Adds
  <2>4. \A g : Folds(g) <=> g = Sigmas(w, Booked(p))
    BY <1>3, <2>3, SumsDefined DEF Summed
  <2> HIDE DEF Folds
  <2>5. (CHOOSE g : Folds(g)) = Sigmas(w, Booked(p))
    BY <2>4
  <2> QED BY <2>1, <2>5 DEF Sigmas, w
<1>4. ASSUME IsFiniteSet(Booked(p)')
      PROVE  Positives(p)' = Sigma([o \in Booked(p) |-> PositiveNet(o)]', Booked(p)')
  <2> DEFINE w == [o \in Booked(p) |-> PositiveNet(o)]'
             Folds(g) == g = [s \in SUBSET Booked(p)' |->
                IF s = {} THEN 0
                ELSE PositiveNet(CHOOSE x \in s : TRUE)' + g[s \ {CHOOSE x \in s : TRUE}]]
  <2>1. Positives(p)' = (CHOOSE g : Folds(g))[Booked(p)']
    BY DEF Positives, Negatives, MapThenSumSet, MapThenFoldSet
  <2>2. \A s \in SUBSET Booked(p)' :
           s # {} => w[CHOOSE x \in s : TRUE] = PositiveNet(CHOOSE x \in s : TRUE)'
    OBVIOUS
  <2> HIDE DEF w
  <2>3. \A g : Folds(g) <=> Adds(g, w, Booked(p)')
    BY <2>2 DEF Adds
  <2>4. \A g : Folds(g) <=> g = Sigmas(w, Booked(p)')
    BY <1>4, <2>3, SumsDefined DEF Summed
  <2> HIDE DEF Folds
  <2>5. (CHOOSE g : Folds(g)) = Sigmas(w, Booked(p)')
    BY <2>4
  <2> QED BY <2>1, <2>5 DEF Sigmas, w
<1>5. ASSUME IsFiniteSet(Booked(p)')
      PROVE  Negatives(p)' = Sigma([o \in Booked(p) |-> NegativeNet(o)]', Booked(p)')
  <2> DEFINE w == [o \in Booked(p) |-> NegativeNet(o)]'
             Folds(g) == g = [s \in SUBSET Booked(p)' |->
                IF s = {} THEN 0
                ELSE NegativeNet(CHOOSE x \in s : TRUE)' + g[s \ {CHOOSE x \in s : TRUE}]]
  <2>1. Negatives(p)' = (CHOOSE g : Folds(g))[Booked(p)']
    BY DEF Positives, Negatives, MapThenSumSet, MapThenFoldSet
  <2>2. \A s \in SUBSET Booked(p)' :
           s # {} => w[CHOOSE x \in s : TRUE] = NegativeNet(CHOOSE x \in s : TRUE)'
    OBVIOUS
  <2> HIDE DEF w
  <2>3. \A g : Folds(g) <=> Adds(g, w, Booked(p)')
    BY <2>2 DEF Adds
  <2>4. \A g : Folds(g) <=> g = Sigmas(w, Booked(p)')
    BY <1>5, <2>3, SumsDefined DEF Summed
  <2> HIDE DEF Folds
  <2>5. (CHOOSE g : Folds(g)) = Sigmas(w, Booked(p)')
    BY <2>4
  <2> QED BY <2>1, <2>5 DEF Sigmas, w
<1> QED BY <1>1, <1>2, <1>3, <1>4, <1>5

\* What a run leaves owing, either way, is a number; its net is the difference.
LEMMA NetsAreNumbers ==
    ASSUME IInv, NEW p, NEW o \in Booked(p)
    PROVE  /\ PositiveNet(o) \in Nat /\ NegativeNet(o) \in Nat
           /\ NetOf(o) = PositiveNet(o) - NegativeNet(o)
<1>1. entries[o].collected \in Nat /\ entries[o].fee \in Nat
  BY DEF IInv, TablesTyped, Booked
<1>2. NetOf(o) \in Int
  BY <1>1 DEF NetOf
<1> QED BY <1>2 DEF PositiveNet, NegativeNet

LEMMA SumsAreNumbers ==
    ASSUME IInv, SettleInv, NEW p \in Pairs
    PROVE  /\ Positives(p) \in Nat /\ Negatives(p) \in Nat
           /\ MapThenSumSet(NetOf, Booked(p)) = Positives(p) - Negatives(p)
           /\ Handed(p) \in Int /\ Paid(p) \in Int
<1> PICK u : u = [o \in Booked(p) |-> NetOf(o)]
  OBVIOUS
<1> PICK v : v = [o \in Booked(p) |-> PositiveNet(o)]
  OBVIOUS
<1> PICK w : w = [o \in Booked(p) |-> NegativeNet(o)]
  OBVIOUS
<1>1. IsFiniteSet(Booked(p))
  BY DEF SettleInv
<1>2. \A o \in Booked(p) : v[o] \in Nat /\ w[o] \in Nat /\ u[o] = v[o] - w[o]
  BY NetsAreNumbers
<1>3. /\ Positives(p) = Sigma(v, Booked(p)) /\ Negatives(p) = Sigma(w, Booked(p))
      /\ MapThenSumSet(NetOf, Booked(p)) = Sigma(u, Booked(p))
  BY <1>1, LedgerSums
<1>4. Sigma(v, Booked(p)) \in Nat /\ Sigma(w, Booked(p)) \in Nat
  BY <1>1, <1>2, SumIsNat
<1>5. Sigma(u, Booked(p)) = Sigma(v, Booked(p)) - Sigma(w, Booked(p))
  <2>1. \A o \in Booked(p) : v[o] \in Int /\ w[o] \in Int /\ u[o] = v[o] - w[o]
    BY <1>2
  <2> QED BY <1>1, <2>1, SumOfDifferences
<1>6. Handed(p) \in Int /\ Paid(p) \in Int
  BY DEF SettleInv, Handed, Paid, Directions
<1> QED BY <1>3, <1>4, <1>5, <1>6

\* Who is in the middle of a settlement.
LEMMA SettleRequest ==
    ASSUME IInv, NEW h \in Handlers, req[h].kind \in {"settle", "settling"}
    PROVE  /\ req[h].pair \in Pairs /\ req[h].direction \in Directions /\ req[h].amount \in Int
           /\ req[h] = [kind |-> req[h].kind, pair |-> req[h].pair,
                        direction |-> req[h].direction, amount |-> req[h].amount]
<1>1. req[h] \in Requests
  BY DEF IInv, RequestsGrounded
<1> QED BY <1>1 DEF Requests, Idle

\* What is covered stays so while sums grow, and nobody settles.
LEMMA CoverStays ==
    ASSUME IInv, IInv', SettleInv, UNCHANGED <<settled, lock>>,
           \A p \in Pairs : /\ IsFiniteSet(Booked(p)')
                            /\ Positives(p)' \in Int /\ Positives(p) <= Positives(p)'
                            /\ Negatives(p)' \in Int /\ Negatives(p) <= Negatives(p)',
           NEW h \in Handlers, NEW r, Continue(h, r), r.kind # "settling",
           r.kind = "settle" => r.amount > 0
    PROVE  SettleInv'
<1>1. req' = [req EXCEPT ![h] = r] /\ \A g \in Handlers : req'[g] = IF g = h THEN r ELSE req[g]
  BY DEF Continue, IInv, RequestsGrounded
<1>2. \A p : Handed(p)' = Handed(p) /\ Paid(p)' = Paid(p)
  BY DEF Handed, Paid
<1>3. SettlementsCovered'
  <2> SUFFICES ASSUME NEW p \in Pairs
               PROVE  /\ Handed(p) - Paid(p) <= Positives(p)'
                      /\ Paid(p) - Handed(p) <= Negatives(p)'
    BY DEF SettlementsCovered, Handed, Paid, Positives, Negatives
  <2>1. Handed(p) - Paid(p) <= Positives(p) /\ Paid(p) - Handed(p) <= Negatives(p)
    BY DEF SettleInv, SettlementsCovered, Handed, Paid, Positives, Negatives
  <2>2. /\ Positives(p) \in Int /\ Negatives(p) \in Int /\ Handed(p) \in Int /\ Paid(p) \in Int
        /\ Positives(p)' \in Int /\ Positives(p) <= Positives(p)'
        /\ Negatives(p)' \in Int /\ Negatives(p) <= Negatives(p)'
    BY SumsAreNumbers
  <2> QED BY <2>1, <2>2
<1>4. SettlingCovered'
  <2>1. ASSUME NEW g \in Handlers, req[g].kind = "settling", NEW p \in Pairs, p = req[g].pair
        PROVE  /\ lock[p] = g
               /\ req[g].direction = "RIDER_TO_RESTAURANT" =>
                     Handed(p) + req[g].amount - Paid(p) <= Positives(p)'
               /\ req[g].direction = "RESTAURANT_TO_RIDER" =>
                     Paid(p) + req[g].amount - Handed(p) <= Negatives(p)'
    <3> PICK n \in Int : n = req[g].amount
      BY <2>1, SettleRequest
    <3>1. /\ lock[p] = g
          /\ req[g].direction = "RIDER_TO_RESTAURANT" => Handed(p) + n - Paid(p) <= Positives(p)
          /\ req[g].direction = "RESTAURANT_TO_RIDER" => Paid(p) + n - Handed(p) <= Negatives(p)
      BY <2>1 DEF SettleInv, SettlingCovered
    <3>2. /\ Positives(p) \in Int /\ Negatives(p) \in Int /\ Handed(p) \in Int /\ Paid(p) \in Int
          /\ Positives(p)' \in Int /\ Positives(p) <= Positives(p)'
          /\ Negatives(p)' \in Int /\ Negatives(p) <= Negatives(p)'
      BY SumsAreNumbers
    <3>3. req[g].direction = "RIDER_TO_RESTAURANT" => Handed(p) + n - Paid(p) <= Positives(p)'
      BY <3>1, <3>2
    <3>4. req[g].direction = "RESTAURANT_TO_RIDER" => Paid(p) + n - Handed(p) <= Negatives(p)'
      BY <3>1, <3>2
    <3> QED BY <3>1, <3>3, <3>4
  <2>2. \A g \in Handlers : req'[g].kind = "settling" => req'[g] = req[g]
    BY <1>1
  <2>3. \A g \in Handlers : req[g].kind = "settling" => req[g].pair \in Pairs
    BY SettleRequest
  <2> QED BY <1>2, <2>1, <2>2, <2>3 DEF SettlingCovered
<1>5. \A g \in Handlers : req'[g].kind \in {"settle", "settling"} => req'[g].amount > 0
  BY <1>1 DEF SettleInv
<1> QED BY <1>3, <1>4, <1>5 DEF SettleInv

\* With the entries as they are, so are the sums.
LEMMA SumsStay ==
    ASSUME IInv, SettleInv, UNCHANGED entries, NEW p \in Pairs
    PROVE  /\ IsFiniteSet(Booked(p)')
           /\ Positives(p)' = Positives(p) /\ Negatives(p)' = Negatives(p)
           /\ Positives(p) \in Nat /\ Negatives(p) \in Nat
<1>1. Booked(p)' = Booked(p) /\ IsFiniteSet(Booked(p))
  BY DEF Booked, SettleInv
<1>2. /\ [o \in Booked(p) |-> PositiveNet(o)]' = [o \in Booked(p) |-> PositiveNet(o)]
      /\ [o \in Booked(p) |-> NegativeNet(o)]' = [o \in Booked(p) |-> NegativeNet(o)]
  BY <1>1 DEF PositiveNet, NegativeNet, NetOf
<1> QED BY <1>1, <1>2, LedgerSums, SumsAreNumbers

\* An entry that is booked adds what it leaves owing.
LEMMA BookCovers ==
    ASSUME IInv, IInv', SettleInv, NEW h \in Handlers, Book(h)
    PROVE  SettleInv'
<1> PICK o \in Orders : o = req[h].order
  BY RequestKinds DEF IInv, Book
<1>1. o \in Orders /\ Continue(h, Idle) /\ UNCHANGED <<settled, lock>>
  BY RequestKinds DEF IInv, Book, Finish
<1>2. ASSUME NEW p \in Pairs
      PROVE  /\ IsFiniteSet(Booked(p)')
             /\ Positives(p)' \in Int /\ Positives(p) <= Positives(p)'
             /\ Negatives(p)' \in Int /\ Negatives(p) <= Negatives(p)'
  <2>1. CASE UNCHANGED entries
    BY <2>1, SumsStay
  <2>2. CASE entries[o] = NULL /\ ~ UNCHANGED entries
    <3>1. entries' = [entries EXCEPT ![o] = [collected |-> req[h].collected, fee |-> Fee[o]]]
      BY <2>2 DEF Book
    <3>2. /\ \A q \in Orders : q # o => entries'[q] = entries[q]
          /\ entries'[o] # NULL
      <4>1. entries \in [Orders -> [collected : Nat, fee : Nat] \cup {NULL}]
        BY DEF IInv, TablesTyped
      <4>2. [collected |-> req[h].collected, fee |-> Fee[o]] \in [collected : Nat, fee : Nat]
        BY <1>1, MoneyAssumption, RequestKinds DEF IInv, Book
      <4>3. [collected |-> req[h].collected, fee |-> Fee[o]] # NULL
        BY <4>2, FreeAssumption
      <4> QED BY <1>1, <3>1, <4>1, <4>3
    <3>3. CASE PairOf[o] # p
      <4>1. Booked(p)' = Booked(p) /\ IsFiniteSet(Booked(p))
        BY <3>2, <3>3 DEF Booked, SettleInv
      <4>2. \A q \in Booked(p) : NetOf(q)' = NetOf(q)
        BY <3>2, <3>3 DEF Booked, NetOf
      <4>3. /\ [q \in Booked(p) |-> PositiveNet(q)]' = [q \in Booked(p) |-> PositiveNet(q)]
            /\ [q \in Booked(p) |-> NegativeNet(q)]' = [q \in Booked(p) |-> NegativeNet(q)]
        BY <4>1, <4>2 DEF PositiveNet, NegativeNet
      <4>4. Positives(p)' = Positives(p) /\ Negatives(p)' = Negatives(p)
        BY <4>1, <4>3, LedgerSums
      <4>5. Positives(p) \in Int /\ Negatives(p) \in Int
        BY SumsAreNumbers
      <4> QED BY <4>1, <4>4, <4>5
    <3>4. CASE PairOf[o] = p
      <4>1. /\ o \notin Booked(p) /\ Booked(p)' = Booked(p) \cup {o} /\ IsFiniteSet(Booked(p))
        BY <1>1, <2>2, <3>2, <3>4 DEF Booked, SettleInv
      <4>2. IsFiniteSet(Booked(p)')
        BY <4>1, FS_AddElement
      <4>3. \A q \in Booked(p) : NetOf(q)' = NetOf(q)
        BY <2>2, <3>2 DEF Booked, NetOf
      <4>4. PositiveNet(o)' \in Nat /\ NegativeNet(o)' \in Nat
        <5>1. entries'[o].collected \in Nat /\ entries'[o].fee \in Nat
          BY <1>1, <3>2 DEF IInv, TablesTyped
        <5>2. NetOf(o)' \in Int
          BY <5>1 DEF NetOf
        <5> QED BY <5>2 DEF PositiveNet, NegativeNet
      <4>5. Positives(p)' \in Int /\ Positives(p) <= Positives(p)'
        <5> PICK v : v = [q \in Booked(p) |-> PositiveNet(q)]
          OBVIOUS
        <5> PICK w : w = [q \in Booked(p) |-> PositiveNet(q)]'
          OBVIOUS
        <5>1. \A q \in Booked(p) : v[q] \in Nat /\ v[q] = w[q]
          BY <4>1, <4>3, NetsAreNumbers DEF PositiveNet
        <5>2. w[o] = PositiveNet(o)'
          BY <4>1
        <5>3. Sigma(w, Booked(p) \cup {o}) = Sigma(v, Booked(p)) + w[o]
          <6>1. \A q \in Booked(p) : v[q] \in Int
            BY <5>1
          <6>2. w[o] \in Int
            BY <4>4, <5>2
          <6> QED BY <4>1, <5>1, <6>1, <6>2, SumWithOneMore
        <5>4. Positives(p)' = Positives(p) + PositiveNet(o)'
          BY <4>1, <4>2, <5>2, <5>3, LedgerSums
        <5> QED BY <4>4, <5>4, SumsAreNumbers
      <4>6. Negatives(p)' \in Int /\ Negatives(p) <= Negatives(p)'
        <5> PICK v : v = [q \in Booked(p) |-> NegativeNet(q)]
          OBVIOUS
        <5> PICK w : w = [q \in Booked(p) |-> NegativeNet(q)]'
          OBVIOUS
        <5>1. \A q \in Booked(p) : v[q] \in Nat /\ v[q] = w[q]
          BY <4>1, <4>3, NetsAreNumbers DEF NegativeNet
        <5>2. w[o] = NegativeNet(o)'
          BY <4>1
        <5>3. Sigma(w, Booked(p) \cup {o}) = Sigma(v, Booked(p)) + w[o]
          <6>1. \A q \in Booked(p) : v[q] \in Int
            BY <5>1
          <6>2. w[o] \in Int
            BY <4>4, <5>2
          <6> QED BY <4>1, <5>1, <6>1, <6>2, SumWithOneMore
        <5>4. Negatives(p)' = Negatives(p) + NegativeNet(o)'
          BY <4>1, <4>2, <5>2, <5>3, LedgerSums
        <5> QED BY <4>4, <5>4, SumsAreNumbers
      <4> QED BY <4>2, <4>5, <4>6
    <3> QED BY <3>3, <3>4
  <2> QED BY <2>1, <2>2 DEF Book, NoEntry
<1> QED BY <1>1, <1>2, CoverStays DEF Idle

\* What is let in under the lock is covered, and whoever waits goes on waiting.
LEMMA ReadCovers ==
    ASSUME IInv, IInv', SettleInv, NEW h \in Handlers, ReadTotals(h)
    PROVE  SettleInv'
<1> PICK r : r = req[h]
  OBVIOUS
<1> PICK p \in Pairs : p = r.pair
  BY SettleRequest DEF ReadTotals
<1> PICK n \in Int : n = r.amount
  BY SettleRequest DEF ReadTotals
<1>1. /\ r.kind = "settle" /\ lock[p] = NULL /\ n > 0 /\ UNCHANGED <<settled, entries>>
      /\ r.direction \in Directions
  BY SettleRequest DEF ReadTotals, LockFree, SettleInv
<1>2. /\ SettlementsCovered'
      /\ \A q \in Pairs : /\ IsFiniteSet(Booked(q)')
                          /\ Positives(q)' = Positives(q) /\ Negatives(q)' = Negatives(q)
                          /\ Positives(q) \in Nat /\ Negatives(q) \in Nat
                          /\ Handed(q)' = Handed(q) /\ Paid(q)' = Paid(q)
  <2>1. \A q \in Pairs : /\ IsFiniteSet(Booked(q)')
                          /\ Positives(q)' = Positives(q) /\ Negatives(q)' = Negatives(q)
                          /\ Positives(q) \in Nat /\ Negatives(q) \in Nat
    BY <1>1, SumsStay
  <2>2. \A q : Handed(q)' = Handed(q) /\ Paid(q)' = Paid(q)
    BY <1>1 DEF Handed, Paid
  <2>3. \A q \in Pairs : /\ Handed(q) - Paid(q) <= Positives(q)
                         /\ Paid(q) - Handed(q) <= Negatives(q)
    BY DEF SettleInv, SettlementsCovered, Handed, Paid, Positives, Negatives
  <2>4. SettlementsCovered'
    BY <2>1, <2>2, <2>3 DEF SettlementsCovered, Handed, Paid, Positives, Negatives
  <2> QED BY <2>1, <2>2, <2>4
<1>3. CASE r.amount > Owed(r.pair, r.direction) \/ ~ (r.amount <= Owed(r.pair, r.direction))
  <2>1. ~ (r.amount <= Owed(r.pair, r.direction))
    <3>1. Owed(p, r.direction) \in Int
      BY <1>1, SumsAreNumbers DEF Owed, Balance, Handed, Paid
    <3> QED BY <1>3, <3>1
  <2>2. Continue(h, Idle) /\ UNCHANGED lock
    BY <2>1 DEF ReadTotals, Finish
  <2>3. \A q \in Pairs : /\ IsFiniteSet(Booked(q)')
                         /\ Positives(q)' \in Int /\ Positives(q) <= Positives(q)'
                         /\ Negatives(q)' \in Int /\ Negatives(q) <= Negatives(q)'
    BY <1>2
  <2> QED BY <1>1, <2>2, <2>3, CoverStays DEF Idle
<1>4. CASE r.amount <= Owed(r.pair, r.direction)
  <2>1. lock' = [lock EXCEPT ![p] = h] /\ Continue(h, [r EXCEPT !.kind = "settling"])
    BY <1>4 DEF ReadTotals
  <2>2. [r EXCEPT !.kind = "settling"] =
            [kind |-> "settling", pair |-> p, direction |-> r.direction, amount |-> n]
    <3>1. r = [kind |-> "settle", pair |-> p, direction |-> r.direction, amount |-> n]
      BY <1>1, SettleRequest
    <3> QED BY <3>1
  <2>3. \A g \in Handlers : req'[g] = IF g = h
            THEN [kind |-> "settling", pair |-> p, direction |-> r.direction, amount |-> n]
            ELSE req[g]
    BY <2>1, <2>2 DEF Continue, IInv, RequestsGrounded
  <2>4. /\ lock' \in [Pairs -> Handlers \cup {NULL}] /\ lock'[p] = h
        /\ \A q \in Pairs : q # p => lock'[q] = lock[q]
    BY <2>1 DEF SettleInv
  <2>5. /\ r.direction = "RIDER_TO_RESTAURANT" => Handed(p) + n - Paid(p) <= Positives(p)
        /\ r.direction = "RESTAURANT_TO_RIDER" => Paid(p) + n - Handed(p) <= Negatives(p)
    <3>1. /\ Positives(p) \in Nat /\ Negatives(p) \in Nat
          /\ MapThenSumSet(NetOf, Booked(p)) = Positives(p) - Negatives(p)
          /\ Handed(p) \in Int /\ Paid(p) \in Int
      BY SumsAreNumbers
    <3>2. Balance(p) = Positives(p) - Negatives(p) - Handed(p) + Paid(p)
      BY <3>1 DEF Balance, Handed, Paid
    <3>3. n <= Owed(p, r.direction)
      BY <1>4
    <3>4. CASE r.direction = "RIDER_TO_RESTAURANT"
      <4>1. n <= Balance(p)
        BY <1>1, <3>3, <3>4 DEF Owed
      <4> QED BY <3>1, <3>2, <3>4, <4>1
    <3>5. CASE r.direction = "RESTAURANT_TO_RIDER"
      <4>1. n <= - Balance(p)
        BY <1>1, <3>3, <3>5 DEF Owed
      <4> QED BY <3>1, <3>2, <3>5, <4>1
    <3> QED BY <1>1, <3>4, <3>5 DEF Directions
  <2>6. ASSUME NEW g \in Handlers, g # h, req[g].kind = "settling"
        PROVE  /\ req[g].pair \in Pairs /\ req[g].pair # p /\ lock[req[g].pair] = g
               /\ req[g].direction = "RIDER_TO_RESTAURANT" =>
                    Handed(req[g].pair) + req[g].amount - Paid(req[g].pair)
                        <= Positives(req[g].pair)
               /\ req[g].direction = "RESTAURANT_TO_RIDER" =>
                    Paid(req[g].pair) + req[g].amount - Handed(req[g].pair)
                        <= Negatives(req[g].pair)
    BY <1>1, <2>6, SettleRequest, FreeAssumption DEF SettleInv, SettlingCovered
  <2>7. SettlingCovered'
    <3> SUFFICES ASSUME NEW g \in Handlers, req'[g].kind = "settling", NEW q, q = req'[g].pair
                 PROVE  /\ lock'[q] = g
                        /\ req'[g].direction = "RIDER_TO_RESTAURANT" =>
                             Handed(q)' + req'[g].amount - Paid(q)' <= Positives(q)'
                        /\ req'[g].direction = "RESTAURANT_TO_RIDER" =>
                             Paid(q)' + req'[g].amount - Handed(q)' <= Negatives(q)'
      BY DEF SettlingCovered
    <3>1. CASE g = h
      <4>1. q = p /\ req'[g].direction = r.direction /\ req'[g].amount = n
        BY <2>3, <3>1
      <4> QED BY <1>2, <2>4, <2>5, <3>1, <4>1
    <3>2. CASE g # h
      <4>1. req'[g] = req[g]
        BY <2>3, <3>2
      <4> QED BY <1>2, <2>4, <2>6, <3>2, <4>1
    <3> QED BY <3>1, <3>2
  <2>8. \A g \in Handlers : req'[g].kind \in {"settle", "settling"} => req'[g].amount > 0
    BY <1>1, <2>3 DEF SettleInv
  <2> QED BY <1>1, <1>2, <2>4, <2>7, <2>8 DEF SettleInv
<1> QED BY <1>3, <1>4

\* What was covered is handed over, and others hold locks of other pairs.
LEMMA CommitCovers ==
    ASSUME IInv, IInv', SettleInv, NEW h \in Handlers, CommitSettlement(h)
    PROVE  SettleInv'
<1> PICK r : r = req[h]
  OBVIOUS
<1> PICK p \in Pairs : p = r.pair
  BY SettleRequest DEF CommitSettlement
<1> PICK n \in Int : n = r.amount
  BY SettleRequest DEF CommitSettlement
<1> PICK d \in Directions : d = r.direction
  BY SettleRequest DEF CommitSettlement
<1>1. /\ r.kind = "settling" /\ n > 0 /\ UNCHANGED entries /\ Continue(h, Idle)
      /\ settled' = [settled EXCEPT ![p][d] = @ + n] /\ lock' = [lock EXCEPT ![p] = NULL]
  BY DEF CommitSettlement, SettleInv, Finish
<1>2. \A q \in Pairs : /\ IsFiniteSet(Booked(q)')
                       /\ Positives(q)' = Positives(q) /\ Negatives(q)' = Negatives(q)
                       /\ Positives(q) \in Nat /\ Negatives(q) \in Nat
                       /\ Handed(q) \in Int /\ Paid(q) \in Int
  BY <1>1, SumsStay, SumsAreNumbers
<1>3. settled \in [Pairs -> [Directions -> Int]] /\ lock \in [Pairs -> Handlers \cup {NULL}]
  BY DEF SettleInv
<1>4. /\ settled' \in [Pairs -> [Directions -> Int]]
      /\ lock' \in [Pairs -> Handlers \cup {NULL}]
      /\ \A q \in Pairs : q # p => lock'[q] = lock[q]
  BY <1>1, <1>3
<1>5. /\ \A q \in Pairs : q # p => Handed(q)' = Handed(q) /\ Paid(q)' = Paid(q)
      /\ d = "RIDER_TO_RESTAURANT" => Handed(p)' = Handed(p) + n /\ Paid(p)' = Paid(p)
      /\ d = "RESTAURANT_TO_RIDER" => Handed(p)' = Handed(p) /\ Paid(p)' = Paid(p) + n
  BY <1>1, <1>3 DEF Handed, Paid, Directions
<1>6. /\ lock[p] = h
      /\ d = "RIDER_TO_RESTAURANT" => Handed(p) + n - Paid(p) <= Positives(p)
      /\ d = "RESTAURANT_TO_RIDER" => Paid(p) + n - Handed(p) <= Negatives(p)
  BY <1>1 DEF SettleInv, SettlingCovered
<1>7. SettlementsCovered'
  <2>1. \A q \in Pairs : /\ Handed(q) - Paid(q) <= Positives(q)
                         /\ Paid(q) - Handed(q) <= Negatives(q)
    BY DEF SettleInv, SettlementsCovered, Handed, Paid, Positives, Negatives
  <2>2. ASSUME NEW q \in Pairs
        PROVE  /\ Handed(q)' - Paid(q)' <= Positives(q)'
               /\ Paid(q)' - Handed(q)' <= Negatives(q)'
    <3>1. CASE q # p
      BY <1>2, <1>5, <2>1, <3>1
    <3>2. CASE q = p /\ d = "RIDER_TO_RESTAURANT"
      BY <1>1, <1>2, <1>5, <1>6, <2>1, <3>2
    <3>3. CASE q = p /\ d = "RESTAURANT_TO_RIDER"
      BY <1>1, <1>2, <1>5, <1>6, <2>1, <3>3
    <3> QED BY <3>1, <3>2, <3>3 DEF Directions
  <2> QED BY <2>2 DEF SettlementsCovered, Handed, Paid, Positives, Negatives
<1>8. \A g \in Handlers : req'[g] = IF g = h THEN Idle ELSE req[g]
  BY <1>1 DEF Continue, IInv, RequestsGrounded
<1>9. SettlingCovered'
  <2> SUFFICES ASSUME NEW g \in Handlers, req'[g].kind = "settling", NEW q, q = req'[g].pair
               PROVE  /\ lock'[q] = g
                      /\ req'[g].direction = "RIDER_TO_RESTAURANT" =>
                           Handed(q)' + req'[g].amount - Paid(q)' <= Positives(q)'
                      /\ req'[g].direction = "RESTAURANT_TO_RIDER" =>
                           Paid(q)' + req'[g].amount - Handed(q)' <= Negatives(q)'
    BY DEF SettlingCovered
  <2>1. g # h /\ req'[g] = req[g] /\ req[g].kind = "settling" /\ q = req[g].pair
    BY <1>8 DEF Idle
  <2>2. /\ q \in Pairs /\ lock[q] = g
        /\ req[g].direction = "RIDER_TO_RESTAURANT" =>
             Handed(q) + req[g].amount - Paid(q) <= Positives(q)
        /\ req[g].direction = "RESTAURANT_TO_RIDER" =>
             Paid(q) + req[g].amount - Handed(q) <= Negatives(q)
    BY <2>1, SettleRequest DEF SettleInv, SettlingCovered
  <2>3. q # p
    BY <1>6, <2>1, <2>2
  <2> QED BY <1>2, <1>4, <1>5, <2>1, <2>2, <2>3
<1>10. \A g \in Handlers : req'[g].kind \in {"settle", "settling"} => req'[g].amount > 0
  BY <1>8 DEF SettleInv, Idle
<1> QED BY <1>2, <1>4, <1>7, <1>9, <1>10 DEF SettleInv

\* A step that books nothing and settles nothing.
LEMMA QuietCovers ==
    ASSUME IInv, IInv', SettleInv, UNCHANGED <<entries, settled, lock>>,
           NEW h \in Handlers, NEW r, Continue(h, r), r.kind # "settling",
           r.kind = "settle" => r.amount > 0
    PROVE  SettleInv'
<1>1. \A p \in Pairs : /\ IsFiniteSet(Booked(p)')
                       /\ Positives(p)' \in Int /\ Positives(p) <= Positives(p)'
                       /\ Negatives(p)' \in Int /\ Negatives(p) <= Negatives(p)'
  BY SumsStay
<1> QED BY <1>1, CoverStays

\* A settlement that is given up lets its own pair's lock go, and no other.
LEMMA AbandonCovers ==
    ASSUME IInv, IInv', SettleInv, NEW h \in Handlers, Abandon(h)
    PROVE  SettleInv'
<1>1. /\ Continue(h, Idle) /\ UNCHANGED <<entries, settled>>
      /\ lock' = [p \in Pairs |-> IF lock[p] = h THEN NULL ELSE lock[p]]
  BY DEF Abandon, Finish
<1>2. \A p \in Pairs : /\ IsFiniteSet(Booked(p)')
                       /\ Positives(p)' = Positives(p) /\ Negatives(p)' = Negatives(p)
  BY <1>1, SumsStay
<1>3. SettlementsCovered'
  BY <1>1, <1>2 DEF SettleInv, SettlementsCovered, Positives, Negatives
<1>4. \A g \in Handlers : req'[g] = IF g = h THEN Idle ELSE req[g]
  BY <1>1 DEF Continue, IInv, RequestsGrounded
<1>5. SettlingCovered'
  <2> SUFFICES ASSUME NEW g \in Handlers, req'[g].kind = "settling", NEW q, q = req'[g].pair
               PROVE  /\ lock'[q] = g
                      /\ req'[g].direction = "RIDER_TO_RESTAURANT" =>
                           Handed(q)' + req'[g].amount - Paid(q)' <= Positives(q)'
                      /\ req'[g].direction = "RESTAURANT_TO_RIDER" =>
                           Paid(q)' + req'[g].amount - Handed(q)' <= Negatives(q)'
    BY DEF SettlingCovered
  <2>1. g # h /\ req'[g] = req[g] /\ req[g].kind = "settling" /\ q = req[g].pair
    BY <1>4 DEF Idle
  <2>2. /\ q \in Pairs /\ lock[q] = g
        /\ req[g].direction = "RIDER_TO_RESTAURANT" =>
             Handed(q) + req[g].amount - Paid(q) <= Positives(q)
        /\ req[g].direction = "RESTAURANT_TO_RIDER" =>
             Paid(q) + req[g].amount - Handed(q) <= Negatives(q)
    BY <2>1, SettleRequest DEF SettleInv, SettlingCovered
  <2>3. lock'[q] = g
    BY <1>1, <2>1, <2>2
  <2>4. Handed(q)' = Handed(q) /\ Paid(q)' = Paid(q)
    BY <1>1 DEF Handed, Paid
  <2> QED BY <1>2, <2>1, <2>2, <2>3, <2>4
<1>6. lock' \in [Pairs -> Handlers \cup {NULL}]
  BY <1>1 DEF SettleInv
<1>7. \A g \in Handlers : req'[g].kind \in {"settle", "settling"} => req'[g].amount > 0
  BY <1>4 DEF SettleInv, Idle
<1> QED BY <1>1, <1>2, <1>3, <1>5, <1>6, <1>7 DEF SettleInv

LEMMA RequestsCover ==
    ASSUME IInv, IInv', SettleInv, NEW h \in Handlers, Request(h)
    PROVE  SettleInv'
<1>1. ASSUME NEW r, r.kind \notin {"settle", "settling"}, Begin(h, r) PROVE SettleInv'
  BY <1>1, QuietCovers DEF Begin, tables
<1>2. ASSUME NEW o \in Orders, PickupOrder(h, o) \/ StartDelivery(h, o) \/ ConfirmDelivery(h, o)
      PROVE  SettleInv'
  BY <1>1, <1>2 DEF PickupOrder, StartDelivery, ConfirmDelivery
<1>3. ASSUME NEW o \in Orders, EnterWrongCode(h, o) PROVE SettleInv'
  BY <1>3, QuietCovers DEF EnterWrongCode
<1>4. ASSUME NEW o \in Orders, OnOrderClosed(h, o) PROVE SettleInv'
  <2>1. /\ UNCHANGED <<entries, settled, lock>>
        /\ Continue(h, [kind |-> "release", order |-> o]) \/ Continue(h, Idle)
    BY <1>4 DEF OnOrderClosed
  <2> QED BY <2>1, QuietCovers DEF Idle
<1>5. ASSUME NEW o, NEW to, NEW as, Advance(h, o, to, as) PROVE SettleInv'
  BY <1>1, <1>5 DEF Advance
<1>6. ASSUME NEW o, NEW recipient, MarkPaymentReceived(h, o, recipient) PROVE SettleInv'
  BY <1>1, <1>6 DEF MarkPaymentReceived
<1>7. ASSUME NEW p \in Pairs, NEW d \in Directions, NEW amount \in Amounts,
             RecordSettlement(h, p, d, amount)
      PROVE  SettleInv'
  <2> DEFINE r == [kind |-> "settle", pair |-> p, direction |-> d, amount |-> amount]
  <2>1. amount > 0
    BY DEF Amounts
  <2> QED BY <1>7, <2>1, QuietCovers DEF RecordSettlement, Begin, tables
<1> QED BY <1>2, <1>3, <1>4, <1>5, <1>6, <1>7 DEF Request

LEMMA ProceedCovers ==
    ASSUME IInv, IInv', SettleInv, NEW h \in Handlers, Proceed(h)
    PROVE  SettleInv'
<1>1. ASSUME UNCHANGED <<entries, settled, lock>>, Finish(h) PROVE SettleInv'
  BY <1>1, QuietCovers DEF Finish, Idle
<1>2. CASE Book(h)
  BY <1>2, BookCovers
<1>3. CASE ReadTotals(h)
  BY <1>3, ReadCovers
<1>4. CASE CommitSettlement(h)
  BY <1>4, CommitCovers
<1>5. CASE CountFailure(h) \/ StoreOtp(h) \/ Release(h) \/ LandTransfer(h)
  BY <1>1, <1>5 DEF CountFailure, StoreOtp, Release, LandTransfer
<1>6. req[h] \in Requests
  BY DEF IInv, RequestsGrounded
<1>7. CASE Ride(h) \/ SettleTransfer(h)
  <2>1. ASSUME NEW kind \in {"move", "landing"}, req[h].kind \in {"ride", "transfer"},
               Continue(h, [req[h] EXCEPT !.kind = kind]), UNCHANGED tables
        PROVE  SettleInv'
    <3> DEFINE r == [req[h] EXCEPT !.kind = kind]
    <3>1. r.kind = kind
      BY <1>6, <2>1 DEF Requests, Idle
    <3>2. Continue(h, r)
      BY <2>1
    <3> HIDE DEF r
    <3> QED BY <2>1, <3>1, <3>2, QuietCovers DEF tables
  <2> QED BY <1>1, <1>7, <2>1 DEF Ride, SettleTransfer, tables
<1>8. CASE CommitMove(h)
  <2>1. req[h].then \in {"code", "complete", "done"}
    BY <1>8, RequestKinds DEF CommitMove, IInv
  <2>2. UNCHANGED <<entries, settled, lock>>
    BY <1>8 DEF CommitMove
  <2>3. Finish(h) \/ Continue(h, [kind |-> req[h].then, order |-> req[h].order])
    BY <1>8 DEF CommitMove
  <2> QED BY <1>1, <2>1, <2>2, <2>3, QuietCovers
<1>9. CASE Complete(h) \/ BeginRecord(h)
  <2>1. UNCHANGED <<entries, settled, lock>>
    BY <1>9 DEF Complete, BeginRecord, tables
  <2>2. \/ Finish(h)
        \/ Continue(h, [kind |-> "record", order |-> req[h].order])
        \/ Continue(h, [kind |-> "book", order |-> req[h].order,
                        collected |-> CollectedAmount(req[h].order)])
    BY <1>9 DEF Complete, BeginRecord
  <2> QED BY <1>1, <2>1, <2>2, QuietCovers
<1> QED BY <1>2, <1>3, <1>4, <1>5, <1>7, <1>8, <1>9 DEF Proceed

LEMMA NobodySettles ==
    ASSUME IInv, IInv', SettleInv, UNCHANGED <<entries, settled, lock, req>>
    PROVE  SettleInv'
<1>1. \A p \in Pairs : /\ IsFiniteSet(Booked(p)')
                       /\ Positives(p)' = Positives(p) /\ Negatives(p)' = Negatives(p)
  BY SumsStay
<1>2. SettlementsCovered'
  BY <1>1 DEF SettleInv, SettlementsCovered, Positives, Negatives
<1>3. SettlingCovered'
  <2>1. \A h \in Handlers : req[h].kind = "settling" => req[h].pair \in Pairs
    BY SettleRequest
  <2>2. \A p : Handed(p)' = Handed(p) /\ Paid(p)' = Paid(p)
    BY DEF Handed, Paid
  <2> QED BY <1>1, <2>1, <2>2 DEF SettleInv, SettlingCovered
<1> QED BY <1>1, <1>2, <1>3 DEF SettleInv

LEMMA CoverStarts == Init => SettleInv
<1> SUFFICES ASSUME Init PROVE SettleInv
  OBVIOUS
<1>1. \A p \in Pairs : Booked(p) = {} /\ IsFiniteSet(Booked(p))
  BY FS_EmptySet DEF Init, Booked
<1>2. \A p \in Pairs : Positives(p) = 0 /\ Negatives(p) = 0
  BY <1>1, LedgerSums, SumOfNone
<1>3. settled \in [Pairs -> [Directions -> Int]] /\ \A p \in Pairs : Handed(p) = 0 /\ Paid(p) = 0
  BY DEF Init, Handed, Paid, Directions
<1>4. lock \in [Pairs -> Handlers \cup {NULL}] /\ \A h \in Handlers : req[h].kind = "idle"
  BY DEF Init, Idle
<1>5. SettlementsCovered
  BY <1>2, <1>3 DEF SettlementsCovered, Handed, Paid, Positives, Negatives
<1>6. SettlingCovered
  BY <1>4 DEF SettlingCovered
<1> QED BY <1>1, <1>3, <1>4, <1>5, <1>6 DEF SettleInv

\* However many settlements race while deliveries go on being booked, what a
\* side handed over is covered by what runs left it owing and by what it got
\* back: nobody pays more than he was ever shown to owe.
THEOREM HandedOverIsCovered == Spec => []SettlementsCovered
<1>1. IInv /\ IInv' /\ SettleInv /\ [Next]_vars => SettleInv'
  <2> SUFFICES ASSUME IInv, IInv', SettleInv, [Next]_vars PROVE SettleInv'
    OBVIOUS
  <2>1. ASSUME NEW o \in Orders, CodeLapses(o) \/ Forget(o) PROVE SettleInv'
    BY <2>1, NobodySettles DEF CodeLapses, Forget
  <2>2. CASE UNCHANGED vars
    BY <2>2, NobodySettles DEF vars, tables
  <2> QED BY <2>1, <2>2, RequestsCover, ProceedCovers, AbandonCovers DEF Next
<1>2. SettleInv => SettlementsCovered
  BY DEF SettleInv
<1> QED BY <1>1, <1>2, CoverStarts, Invariance, PTL DEF Spec
=============================================================================
