------------------------- MODULE PaymentProperties -------------------------
(***************************************************************************)
(* What the payments module is checked against: what holds however the     *)
(* callbacks, polls, sweeps and customers race, and the claims of its      *)
(* comments that a race or a missing step breaks.                          *)
(***************************************************************************)
EXTENDS Payments

History == INSTANCE OrderHistory WITH
    reached <- timeline

Life == INSTANCE AttemptLife WITH
    life <- [a \in Attempts |-> payments[a].status],
    receipted <- {a \in Attempts : AttemptReference(a) \in references}

Contract == INSTANCE OrderContract WITH
    status <- [o \in Orders |-> orders[o].status],
    paid <- [o \in Orders |-> receipts[o] > 0]

\* Payments that release or fail an order keep to the order's lifecycle too.
ImplementsHistory == History!Spec

\* One request at a time, an attempt lives as payment-state.ts says.
ImplementsLife == Life!Spec

\* One request at a time, orders and payments together do exactly what the
\* order table says: stock goes back once, and no more is refunded than was
\* paid.
ImplementsContract == Contract!Spec

IsSettled(a) == payments[a].status \in SETTLED_STATUSES

OrderOf(a) == payments[a].order

-----------------------------------------------------------------------------
(* Invariants.                                                             *)

\* An order whose money a gateway has collected is not still waiting for it,
\* whatever else was writing the order when the settlement landed.
PaidOrderReleased ==
    \A a \in Attempts : Online(a) /\ IsSettled(a) =>
        orders[OrderOf(a)].status # "PENDING_PAYMENT"

\* Every receipt in the ledger has a reference of its own: callbacks,
\* polls and replays of one success post it once.
ReceiptsMatchReferences ==
    \A o \in Orders : receipts[o] =
        Cardinality({r \in references :
            r = OrderReference(o) \/ \E a \in AttemptsOf(o) : r = AttemptReference(a)})

\* The ledger never shows money a gateway did not collect.
NoMoneyFromNothing ==
    \A a \in Attempts : Online(a) /\ AttemptReference(a) \in references =>
        gateway[a] = "PAID"

\* A callback that reported how a payment ended, once it is recorded as
\* processed, has really closed its attempt, so an operator can trust the
\* log: although the gateway may have been asked in its place, other callbacks
\* and replays of the attempt are under way, and what it said before may be
\* applied after it.  (A callback that reported a payment in progress is
\* recorded as processed too, and closes nothing.)
ProcessedIsApplied ==
    \A a \in Attempts :
        (\E said \in CONCLUSIONS : inbox[a][said] = "PROCESSED") => ~ IsOpen(a)

-----------------------------------------------------------------------------
(* Claims that do not hold.  ExpiryAsksFirst and HeldOrderIsReleased have  *)
(* a run; README tells how to reproduce the others.                        *)

\* "A collected payment cannot be failed; refund it instead, so the money
\* leaves a trail."
PaidNeverFailed ==
    [][\A a \in Attempts : IsSettled(a) => IsSettled(a)']_payVars

\* "A payment that is PAID against an order still sitting in
\* PENDING_PAYMENT is the single worst state this module could produce."
NeverPaidAndHeld ==
    \A a \in Attempts : IsSettled(a) => orders[OrderOf(a)].status # "PENDING_PAYMENT"

\* "A previous attempt that is still open is reused rather than stacked on:
\* two live attempts against one order is how a customer ends up paying
\* twice."
OneLiveAttempt ==
    \A o \in Orders :
        Cardinality({a \in AttemptsOf(o) : Online(a) /\ IsOpen(a) /\ a \notin lapsed}) <= 1

\* "The rider at the door and the owner checking their phone may both
\* confirm the same transfer. That is one payment, not two."
TransferIsOnePayment ==
    \A o \in Orders :
        Cardinality({a \in AttemptsOf(o) :
            payments[a].method = "QR_TRANSFER" /\ IsSettled(a)}) <= 1

\* "A customer who paid in the last minute of the window has paid,
\* whatever our clock says, and expiring that payment would take a paid-for
\* order away from them."
ExpiryAsksFirst ==
    \A a \in lapsed : gateway[a] = "PAID" /\ payments[a].status = "CANCELLED" =>
        orders[OrderOf(a)].status # "FAILED"

\* "Already applied. Answering cheerfully is what stops the gateway
\* escalating a delivery it has, in fact, made successfully."  At the latest
\* once the request that took the first delivery is over.
DuplicateWasApplied ==
    \A a \in answered : (\A h \in Handlers : req[h] = Idle) => ~ IsOpen(a)

\* "The order stays open so the customer can try another method. It is
\* released only when the checkout window itself expires."
HeldOrderIsReleased ==
    \A a \in Attempts, o \in Orders :
        a \in lapsed /\ a \in AttemptsOf(o) ~> orders[o].status # "PENDING_PAYMENT"

\* Requests end, attempts lapse, and the sweep runs again and again.
FairSweep ==
    /\ PaySpec
    /\ \A a \in Attempts : WF_payVars(WindowCloses(a))
    /\ \A h \in Handlers :
        /\ WF_payVars(req[h] # Idle /\ HandlerStep(h))
        /\ \A a \in Attempts : SF_payVars(ExpirePayment(h, a))
        /\ SF_payVars(CommitFail(h))
=============================================================================
