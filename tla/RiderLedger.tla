---------------------------- MODULE RiderLedger ----------------------------
(***************************************************************************)
(* The end of a delivery and the money it leaves a rider and a restaurant  *)
(* owing each other.  An order begins here with an accepted run; module    *)
(* Dispatch is about how it came to have one.                              *)
(*                                                                         *)
(* The rider collects the order and the customer is given a code, guesses  *)
(* of which are counted; the right one delivers the order, completes the   *)
(* run and books a ledger entry, each in a transaction of its own.         *)
(* Meanwhile the order may be paid by a transfer, or closed by staff, and  *)
(* the rider and the restaurant settle what they owe.                      *)
(***************************************************************************)
EXTENDS Integers, FiniteSets, FiniteSetsExt, OrderStatus

CONSTANTS
    Orders,
    Pairs,          \* a rider and a restaurant that share a balance
    PairOf,         \* the pair an order belongs to
    Fee,            \* what the rider keeps of an order: delivery fee and tip
    Total,          \* what the customer pays for an order
    MaxAttempts,    \* wrong codes after which a code is burned
    TryLimit,       \* bound: tries the instance counts
    Handlers,
    NULL

ASSUME PairAssumption == PairOf \in [Orders -> Pairs]
ASSUME MoneyAssumption == Fee \in [Orders -> Nat] /\ Total \in [Orders -> Nat]
ASSUME TryAssumption == MaxAttempts \in Nat \ {0} /\ TryLimit \in Nat
ASSUME HandlerAssumption == IsFiniteSet(Handlers)
ASSUME FreeAssumption ==
    /\ NULL \notin Handlers \cup {"CASH", "RIDER", "RESTAURANT", "PLATFORM"}
    /\ NULL \notin [collected : Nat, fee : Nat]

VARIABLES
    orders,         \* status, method, and with whom a settled payment landed
    runs,           \* the accepted assignment of an order and its code
    compared,       \* history: wrong guesses compared with the present code
    entries,        \* rider_ledger_entries, one per order
    earned,         \* sum of the driver_earnings rows of an order
    settled,        \* sums of rider_settlements, per pair and direction
    lock,           \* the holder of a pair's advisory lock
    delivered,      \* history: orders that were ever DELIVERED
    took,           \* history: whom the money of an order was said to reach
    closing,        \* orders whose closing event is still to be listened to
    lost,           \* history: orders whose request failed with the entry to write
    uncounted,      \* history: wrong tries of a code that nobody came to count
    req

tables == <<orders, runs, compared, entries, earned, settled, lock, delivered, took, closing,
            lost, uncounted>>
vars == <<tables, req>>

-----------------------------------------------------------------------------
Methods == {"CASH_ON_DELIVERY", "QR_TRANSFER", "JAZZCASH"}
RECIPIENTS == {"RIDER", "RESTAURANT", "PLATFORM"}
Directions == {"RIDER_TO_RESTAURANT", "RESTAURANT_TO_RIDER"}

Idle == [kind |-> "idle"]

\* A gateway has collected its money before an order gets this far.
Init ==
    /\ \E method \in [Orders -> Methods] :
        orders = [o \in Orders |->
            [status |-> "READY_FOR_PICKUP", method |-> method[o],
             paidTo |-> IF method[o] = "JAZZCASH" THEN "RESTAURANT" ELSE NULL]]
    /\ runs = [o \in Orders |-> [status |-> "ACCEPTED", code |-> "none", attempts |-> 0]]
    /\ compared = [o \in Orders |-> 0]
    /\ entries = [o \in Orders |-> NULL]
    /\ earned = [o \in Orders |-> 0]
    /\ settled = [p \in Pairs |-> [d \in Directions |-> 0]]
    /\ lock = [p \in Pairs |-> NULL]
    /\ delivered = {} /\ closing = {} /\ lost = {}
    /\ uncounted = [o \in Orders |-> 0]
    /\ took = [o \in Orders |-> {orders[o].paidTo} \ {NULL}]
    /\ req = [h \in Handlers |-> Idle]

Continue(h, r) == req' = [req EXCEPT ![h] = r]
Finish(h) == Continue(h, Idle)

Begin(h, r) ==
    /\ req[h] = Idle
    /\ Continue(h, r)
    /\ UNCHANGED tables

-----------------------------------------------------------------------------
(* The rider's run.                                                        *)

Carries(o) == runs[o].status = "ACCEPTED"

PickupOrder(h, o) ==
    Carries(o) /\ Begin(h, [kind |-> "ride", order |-> o, to |-> "PICKED_UP", then |-> "code"])

StartDelivery(h, o) ==
    Carries(o) /\ Begin(h, [kind |-> "ride", order |-> o, to |-> "ON_THE_WAY", then |-> "done"])

\* Faulty variant: the code is burned one wrong try late.
GuessAllowedLate(run) == run.code = "live" /\ run.attempts <= MaxAttempts

\* The guess is compared with the code: one was issued, it is not burned,
\* and its two hours are not over.
GuessAllowed(run) == run.code = "live" /\ run.attempts < MaxAttempts

\* The rider enters the right code.
ConfirmDelivery(h, o) ==
    /\ Carries(o) /\ GuessAllowed(runs[o])
    /\ Begin(h, [kind |-> "ride", order |-> o, to |-> "DELIVERED", then |-> "complete"])

\* Or one that is refused, which is still to be counted.
EnterWrongCode(h, o) ==
    /\ req[h] = Idle
    /\ Carries(o) /\ runs[o].attempts + uncounted[o] < TryLimit
    /\ compared' = [compared EXCEPT ![o] = IF GuessAllowed(runs[o]) THEN @ + 1 ELSE @]
    /\ Continue(h, [kind |-> "wrong", order |-> o])
    /\ UNCHANGED <<orders, runs, entries, earned, settled, lock, delivered, took, closing, lost,
                   uncounted>>

\* recordOtpFailure, whatever the run has become.
CountFailure(h) ==
    /\ req[h].kind = "wrong"
    /\ runs' = [runs EXCEPT ![req[h].order].attempts = @ + 1]
    /\ Finish(h)
    /\ UNCHANGED <<orders, compared, entries, earned, settled, lock, delivered, took, closing,
                   lost, uncounted>>

CodeLapses(o) ==
    /\ runs[o].code = "live"
    /\ runs' = [runs EXCEPT ![o].code = "stale"]
    /\ UNCHANGED <<orders, compared, entries, earned, settled, lock, delivered, took, closing,
                   lost, uncounted, req>>

\* AdvanceOrder validates the move against the order as it is now.
Ride(h) ==
    /\ req[h].kind = "ride"
    /\ LET r == req[h]
       IN  IF MayMove("DRIVER", orders[r.order].status, r.to)
           THEN Continue(h, [r EXCEPT !.kind = "move"])
           ELSE Finish(h)
    /\ UNCHANGED tables

\* Staff and the restaurant close or move an order through the general
\* endpoints.
Advance(h, o, to, as) ==
    /\ MayMove(as, orders[o].status, to)
    /\ Begin(h, [kind |-> "move", order |-> o, to |-> to, then |-> "done"])

\* Cash is settled with the status; a move that closed the order without its
\* rider is announced.
CommitMove(h) ==
    /\ req[h].kind = "move"
    /\ LET r == req[h]
           cash == r.to = "DELIVERED" /\ orders[r.order].method = "CASH_ON_DELIVERY"
       IN  /\ orders' = [orders EXCEPT ![r.order].status = r.to,
                                       ![r.order].paidTo = IF cash THEN "CASH" ELSE @]
           /\ took' = IF cash THEN [took EXCEPT ![r.order] = @ \cup {"CASH"}] ELSE took
           /\ delivered' = IF r.to = "DELIVERED" THEN delivered \cup {r.order} ELSE delivered
           /\ closing' = IF r.to \in TERMINAL_STATUSES /\ r.then # "complete"
                         THEN closing \cup {r.order} ELSE closing
           /\ IF r.then = "done" THEN Finish(h)
              ELSE Continue(h, [kind |-> r.then, order |-> r.order])
    /\ UNCHANGED <<runs, compared, entries, earned, settled, lock, lost, uncounted>>

\* storeOtp: a fresh code, with no guesses against it.
StoreOtp(h) ==
    /\ req[h].kind = "code"
    /\ LET o == req[h].order
       IN  /\ runs' = [runs EXCEPT ![o].code = "live", ![o].attempts = 0]
           /\ compared' = [compared EXCEPT ![o] = 0]
           /\ uncounted' = [uncounted EXCEPT ![o] = 0]
    /\ Finish(h)
    /\ UNCHANGED <<orders, entries, earned, settled, lock, delivered, took, closing, lost>>

\* Faulty variant: the run is over once it is completed.
CompleteOnly(h) ==
    /\ req[h].kind = "complete"
    /\ runs' = [runs EXCEPT ![req[h].order].status = "COMPLETED"]
    /\ Finish(h)
    /\ UNCHANGED <<orders, compared, entries, earned, settled, lock, delivered, took, closing,
                   lost, uncounted>>

Complete(h) ==
    /\ req[h].kind = "complete"
    /\ runs' = [runs EXCEPT ![req[h].order].status = "COMPLETED"]
    /\ Continue(h, [kind |-> "record", order |-> req[h].order])
    /\ UNCHANGED <<orders, compared, entries, earned, settled, lock, delivered, took, closing,
                   lost, uncounted>>

\* The listener of a closed order reads the live run, and then ends it.
OnOrderClosed(h, o) ==
    /\ req[h] = Idle /\ o \in closing
    /\ closing' = closing \ {o}
    /\ Continue(h, IF Carries(o) THEN [kind |-> "release", order |-> o] ELSE Idle)
    /\ UNCHANGED <<orders, runs, compared, entries, earned, settled, lock, delivered, took,
                   lost, uncounted>>

Release(h) ==
    /\ req[h].kind = "release"
    /\ runs' = [runs EXCEPT ![req[h].order].status = "CANCELLED"]
    /\ Finish(h)
    /\ UNCHANGED <<orders, compared, entries, earned, settled, lock, delivered, took, closing,
                   lost, uncounted>>

-----------------------------------------------------------------------------
(* The ledger entry.                                                       *)

\* Faulty variant: whoever was paid.
AnyoneCollected(o) == orders[o].paidTo # NULL

\* Cash always ends up with the rider; a transfer when it went to his own QR.
RiderCollected(o) == orders[o].paidTo \in {"CASH", "RIDER"}

\* Faulty variant: the fee is taken off before it is netted.
CollectedLessFee(o) == IF RiderCollected(o) THEN Total[o] - Fee[o] ELSE 0

CollectedAmount(o) == IF RiderCollected(o) THEN Total[o] ELSE 0

\* recordDelivery reads: an entry that exists is the answer.
BeginRecord(h) ==
    /\ req[h].kind = "record"
    /\ LET o == req[h].order
       IN  IF entries[o] # NULL THEN Finish(h)
           ELSE Continue(h, [kind |-> "book", order |-> o,
                             collected |-> CollectedAmount(o)])
    /\ UNCHANGED tables

\* Faulty variant: nothing makes the order of an entry unique.
AnyEntry(o) == TRUE

\* rider_ledger_entries_order_id_key
NoEntry(o) == entries[o] = NULL

\* The earnings and the entry, or neither.
Book(h) ==
    /\ req[h].kind = "book"
    /\ LET r == req[h]
           o == r.order
       IN  IF NoEntry(o)
           THEN /\ entries' = [entries EXCEPT ![o] =
                      [collected |-> r.collected, fee |-> Fee[o]]]
                /\ earned' = [earned EXCEPT ![o] = @ + Fee[o]]
           ELSE UNCHANGED <<entries, earned>>
    /\ Finish(h)
    /\ UNCHANGED <<orders, runs, compared, settled, lock, delivered, took, closing, lost,
                   uncounted>>

-----------------------------------------------------------------------------
(* A transfer that landed is confirmed by whom it reached.                 *)

DEAD_STATUSES == {"CANCELLED", "REJECTED", "FAILED"}

MarkPaymentReceived(h, o, recipient) ==
    /\ orders[o].paidTo = NULL
    /\ orders[o].status \notin DEAD_STATUSES
    /\ orders[o].method \in {"CASH_ON_DELIVERY", "QR_TRANSFER"}
    /\ Begin(h, [kind |-> "transfer", order |-> o, recipient |-> recipient])

\* settleManualTransfer reads: a payment that is settled is left alone.
SettleTransfer(h) ==
    /\ req[h].kind = "transfer"
    /\ IF orders[req[h].order].paidTo # NULL THEN Finish(h)
       ELSE Continue(h, [req[h] EXCEPT !.kind = "landing"])
    /\ UNCHANGED tables

\* And settles.  Of two transfers that were confirmed at once, either is the
\* one that riderCollected will find: both have a row, or both wrote one.
LandTransfer(h) ==
    /\ req[h].kind = "landing"
    /\ LET r == req[h]
       IN  /\ \E recipient \in {r.recipient} \cup ({orders[r.order].paidTo} \cap RECIPIENTS) :
                orders' = [orders EXCEPT ![r.order].paidTo = recipient,
                                         ![r.order].method = "QR_TRANSFER"]
           /\ took' = [took EXCEPT ![r.order] = @ \cup {r.recipient}]
    /\ Finish(h)
    /\ UNCHANGED <<runs, compared, entries, earned, settled, lock, delivered, closing, lost,
                   uncounted>>

-----------------------------------------------------------------------------
(* Settlements.                                                            *)

Booked(p) == {o \in Orders : PairOf[o] = p /\ entries[o] # NULL}

NetOf(o) == entries[o].collected - entries[o].fee

\* totals: positive when the rider owes the restaurant.
Balance(p) ==
    MapThenSumSet(NetOf, Booked(p))
        - settled[p]["RIDER_TO_RESTAURANT"] + settled[p]["RESTAURANT_TO_RIDER"]

Owed(p, d) ==
    LET owes == IF d = "RIDER_TO_RESTAURANT" THEN Balance(p) ELSE - Balance(p)
    IN  IF owes > 0 THEN owes ELSE 0

\* Whoever received money says so: the restaurant cash, the rider fees.
RecordSettlement(h, p, d, amount) ==
    Begin(h, [kind |-> "settle", pair |-> p, direction |-> d, amount |-> amount])

\* Faulty variant: nobody waits for the lock.
LockIgnored(p) == TRUE

LockFree(p) == lock[p] = NULL

\* pg_advisory_xact_lock, and the totals read under it; a refusal ends the
\* transaction and the lock with it.
ReadTotals(h) ==
    /\ req[h].kind = "settle"
    /\ LET r == req[h]
       IN  /\ LockFree(r.pair)
           /\ IF r.amount <= Owed(r.pair, r.direction)
              THEN /\ lock' = [lock EXCEPT ![r.pair] = h]
                   /\ Continue(h, [r EXCEPT !.kind = "settling"])
              ELSE Finish(h) /\ UNCHANGED lock
    /\ UNCHANGED <<orders, runs, compared, entries, earned, settled, delivered, took, closing,
                   lost, uncounted>>

CommitSettlement(h) ==
    /\ req[h].kind = "settling"
    /\ LET r == req[h]
       IN  /\ settled' = [settled EXCEPT ![r.pair][r.direction] = @ + r.amount]
           /\ lock' = [lock EXCEPT ![r.pair] = NULL]
    /\ Finish(h)
    /\ UNCHANGED <<orders, runs, compared, entries, earned, delivered, took, closing, lost,
                   uncounted>>

-----------------------------------------------------------------------------
(* A request may fail at any of its steps, or its process die: what it had *)
(* committed stays, its locks are let go, and nobody retries the rest.     *)

Abandon(h) ==
    /\ req[h] # Idle
    /\ LET r == req[h]
       IN  /\ lost' = IF r.kind \in {"record", "book"} THEN lost \cup {r.order} ELSE lost
           /\ uncounted' = IF r.kind = "wrong" THEN [uncounted EXCEPT ![r.order] = @ + 1]
                           ELSE uncounted
    /\ lock' = [p \in Pairs |-> IF lock[p] = h THEN NULL ELSE lock[p]]
    /\ Finish(h)
    /\ UNCHANGED <<orders, runs, compared, entries, earned, settled, delivered, took, closing>>

\* An event that was raised in a process that died is listened to by nobody.
Forget(o) ==
    /\ o \in closing
    /\ closing' = closing \ {o}
    /\ UNCHANGED <<orders, runs, compared, entries, earned, settled, lock, delivered, took,
                   lost, uncounted, req>>

-----------------------------------------------------------------------------
Amounts == 1 .. Max({Total[o] : o \in Orders})

Proceed(h) ==
    \/ CountFailure(h) \/ Ride(h) \/ CommitMove(h) \/ StoreOtp(h) \/ Complete(h)
    \/ Release(h) \/ BeginRecord(h) \/ Book(h)
    \/ SettleTransfer(h) \/ LandTransfer(h)
    \/ ReadTotals(h) \/ CommitSettlement(h)

Request(h) ==
    \/ \E o \in Orders :
        \/ PickupOrder(h, o) \/ StartDelivery(h, o) \/ ConfirmDelivery(h, o)
        \/ EnterWrongCode(h, o) \/ OnOrderClosed(h, o)
        \/ \E to \in TERMINAL_STATUSES, as \in {"ADMIN", "RESTAURANT"} : Advance(h, o, to, as)
        \/ \E recipient \in RECIPIENTS : MarkPaymentReceived(h, o, recipient)
    \/ \E p \in Pairs, d \in Directions, amount \in Amounts :
        RecordSettlement(h, p, d, amount)

Next ==
    \/ \E h \in Handlers : Proceed(h) \/ Request(h) \/ Abandon(h)
    \/ \E o \in Orders : CodeLapses(o) \/ Forget(o)

Spec == Init /\ [][Next]_vars

-----------------------------------------------------------------------------
(* What the end of a delivery and its money are checked against.           *)

\* Every table holds rows of its type; an entry names what the rider
\* collected, all of the order or nothing, and what he keeps of it.
LedgerTypeOK ==
    /\ orders \in [Orders -> [status : OrderStatuses, method : Methods,
                              paidTo : RECIPIENTS \cup {"CASH", NULL}]]
    /\ runs \in [Orders -> [status : {"ACCEPTED", "COMPLETED", "CANCELLED"},
                            code : {"none", "live", "stale"}, attempts : Nat]]
    /\ compared \in [Orders -> Nat]
    /\ \A o \in Orders : entries[o] # NULL =>
        entries[o].collected \in {0, Total[o]} /\ entries[o].fee = Fee[o]
    /\ earned \in [Orders -> Nat]
    /\ settled \in [Pairs -> [Directions -> Nat]]
    /\ lock \in [Pairs -> Handlers \cup {NULL}]
    /\ took \in [Orders -> SUBSET (RECIPIENTS \cup {"CASH"})]
    /\ delivered \subseteq Orders /\ closing \subseteq Orders /\ lost \subseteq Orders
    /\ uncounted \in [Orders -> Nat]

\* Nobody owes anything for a run that did not arrive, and a rider is never
\* charged for money nobody said reached him, although the entry is booked
\* two transactions after the delivery and while transfers are confirmed; and
\* "a retried confirmation must not count the same delivery again": its
\* earnings are there once, with its entry, or not at all.
BookedIsBacked ==
    \A o \in Orders :
        /\ earned[o] = IF entries[o] = NULL THEN 0 ELSE Fee[o]
        /\ entries[o] # NULL =>
            /\ o \in delivered
            /\ entries[o].collected > 0 => took[o] \cap {"CASH", "RIDER"} # {}

PositiveNet(o) == IF NetOf(o) > 0 THEN NetOf(o) ELSE 0
NegativeNet(o) == IF NetOf(o) < 0 THEN - NetOf(o) ELSE 0

\* However many settlements race, each with the balance it read, and while
\* deliveries go on being booked: what a side has handed over is covered by
\* what runs left it owing and by what it got back.
SettlementsCovered ==
    \A p \in Pairs :
        LET handed == settled[p]["RIDER_TO_RESTAURANT"]
            paid == settled[p]["RESTAURANT_TO_RIDER"]
        IN  /\ handed - paid <= MapThenSumSet(PositiveNet, Booked(p))
            /\ paid - handed <= MapThenSumSet(NegativeNet, Booked(p))

\* "An uncounted wrong guess is an unlimited one, which is the whole attack":
\* guesses in flight together are each compared before any is counted, so a
\* code is tried as often as its limit and the requests beside it allow, once
\* more for each request that failed before it could count, and no oftener.
GuessesBounded ==
    \A o \in Orders :
        compared[o] <= MaxAttempts + Cardinality(Handlers) - 1 + uncounted[o]

\* "If the ledger write fails the delivery is still recorded, and a missing
\* entry is a support ticket": a completed run that has none is in the hands of
\* the request that completed it, or that request failed in between (nothing
\* writes the entry after it), whatever else was released, settled or
\* confirmed meanwhile.
CompletedIsBooked ==
    \A o \in Orders : runs[o].status = "COMPLETED" =>
        \/ entries[o] # NULL
        \/ \E h \in Handlers : req[h].kind \in {"record", "book"} /\ req[h].order = o
        \/ o \in lost

-----------------------------------------------------------------------------
(* Claims that do not hold; README tells how to reproduce them.            *)

\* "When the rider collected the payment (cash, or a transfer to their own
\* QR), they owe the restaurant the rest."
CollectedIsOwed ==
    \A o \in Orders :
        entries[o] # NULL /\ RiderCollected(o) => entries[o].collected = Total[o]

\* The balance a settlement was allowed on "must not change underneath us".
BalanceStands ==
    [][\A p \in Pairs : lock[p] # NULL /\ lock'[p] # NULL => Balance(p)' = Balance(p)]_vars
=============================================================================
