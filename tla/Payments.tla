------------------------------ MODULE Payments ------------------------------
(***************************************************************************)
(* The payments module over the same tables as the orders module: checkout *)
(* attempts, the gateways' callbacks, and the ways an attempt ends.        *)
(*                                                                         *)
(* The repository's settle, fail, settleCash and settleManualTransfer each *)
(* read and then write inside one READ COMMITTED transaction; a request    *)
(* that only loads the attempt to hand it to one of them is joined with    *)
(* that read, which repeats every test the load made.                      *)
(*                                                                         *)
(* A gateway is external: it settles an attempt once, for good, and says   *)
(* how an attempt stands whenever it likes, any number of times or never,  *)
(* so that a callback may arrive long after it was true.  It answers PAID, *)
(* FAILED or PENDING; no adapter returns AUTHORIZED or CANCELLED.          *)
(***************************************************************************)
EXTENDS Orders, FiniteSetsExt

VARIABLES
    gateway,    \* what the gateway knows of an attempt
    lapsed,     \* attempts whose expiresAt has passed
    inbox,      \* webhook_events: the status of each thing said of an attempt
    answered    \* history: attempts whose conclusion was answered as a duplicate

outside == <<gateway, lapsed, inbox, answered>>
payVars == <<vars, outside>>

\* What a gateway answers, and which answers are final.
Verdicts == {"PENDING", "PAID", "FAILED"}
CONCLUSIONS == {"PAID", "FAILED"}

\* Nothing was heard of an attempt.
Unheard == [said \in Verdicts |-> "NONE"]

PayInit ==
    /\ Init
    /\ gateway = [a \in Attempts |-> "NONE"]
    /\ lapsed = {}
    /\ inbox = [a \in Attempts |-> Unheard]
    /\ answered = {}

AttemptsOf(o) == {a \in Attempts : payments[a].order = o}

Online(a) == payments[a].method \in ONLINE_METHODS

IsOpen(a) == payments[a].status \in OPEN_STATUSES

\* findOpenForOrder: the newest attempt that may still be paid, or NULL.
OpenAttempt(o) ==
    LET open == {a \in AttemptsOf(o) : IsOpen(a)}
    IN  IF open = {} THEN NULL ELSE Max(open)

AttemptReference(a) == <<"ATTEMPT", a>>

\* The row was read, and what the transaction found decides the write.
Reading(h, r) == req' = [req EXCEPT ![h] = r]

\* On whose behalf an attempt is settled or failed, and what the gateway
\* was heard to say.
OnRequest == [by |-> "request", said |-> "NONE"]

\* A request is over; one that serves a callback has its outcome to record,
\* except that a replay lets an exception through.
Done(h, a, via, result) ==
    req' = [req EXCEPT ![h] =
        IF via.by = "callback" \/ (via.by = "replay" /\ result # "FAILED")
        THEN [kind |-> "resolve", payment |-> a, said |-> via.said, result |-> result]
        ELSE Idle]

-----------------------------------------------------------------------------
(* The customer at the gateway, and time.                                  *)

CustomerPays(a) ==
    /\ gateway[a] = "PENDING" /\ a \notin lapsed
    /\ gateway' = [gateway EXCEPT ![a] = "PAID"]
    /\ UNCHANGED <<vars, lapsed, inbox, answered>>

GatewayDeclines(a) ==
    /\ gateway[a] = "PENDING"
    /\ gateway' = [gateway EXCEPT ![a] = "FAILED"]
    /\ UNCHANGED <<vars, lapsed, inbox, answered>>

WindowCloses(a) ==
    /\ gateway[a] # "NONE" /\ a \notin lapsed
    /\ lapsed' = lapsed \cup {a}
    /\ UNCHANGED <<vars, gateway, inbox, answered>>

-----------------------------------------------------------------------------
(* Settling an attempt a gateway reports paid.                             *)

\* Faulty variant: the transition is not asserted.
SettleFromAnywhere(status) == status \notin SETTLED_STATUSES

\* The transition to PAID does not throw.
MaySettle(status) == status \notin SETTLED_STATUSES /\ PaymentMoves(status, "PAID")

\* settle reads: a settled attempt is left alone, a closed one throws.
BeginSettle(h, a, via) ==
    \/ /\ payments[a].status \in SETTLED_STATUSES
       /\ Done(h, a, via, "PROCESSED")
    \/ /\ payments[a].status \notin SETTLED_STATUSES
       /\ ~ MaySettle(payments[a].status)
       /\ Done(h, a, via, "FAILED")
    \/ /\ MaySettle(payments[a].status)
       /\ Reading(h, [kind |-> "settle", payment |-> a, via |-> via,
                      orderStatus |-> orders[payments[a].order].status])

\* Faulty variant: the commission stays pending.
LeaveCommission(o) == UNCHANGED commission

\* Commission is confirmed by the first money to arrive.
ConfirmCommission(o) ==
    commission' = [commission EXCEPT ![o] = IF @ = "PENDING" THEN "SUCCESS" ELSE @]

\* Faulty variants: the order is never released, or moved whatever it is in.
ReleaseForgotten(status) == FALSE
HeldWhatever(status) == TRUE

\* The order is still waiting for its money.
HeldForPayment(status) == status = "PENDING_PAYMENT"

\* settle writes: the attempt, the order it unblocks, ledger and commission.
CommitSettle(h) ==
    /\ req[h].kind = "settle"
    /\ LET a == req[h].payment
           o == payments[a].order
           held == HeldForPayment(req[h].orderStatus)
       IN  /\ payments' = [payments EXCEPT ![a].status = "PAID"]
           /\ orders' = [orders EXCEPT
                ![o].paymentStatus = "PAID",
                ![o].status = IF held THEN "PLACED" ELSE @]
           /\ timeline' = [timeline EXCEPT ![o] = IF held THEN @ \cup {"PLACED"} ELSE @]
           /\ PostReceipt(o, AttemptReference(a))
           /\ ConfirmCommission(o)
           /\ Done(h, a, req[h].via, "PROCESSED")
    /\ UNCHANGED <<refunded, stock, returned, carts, outside>>

\* The receipt was posted by another transaction meanwhile: all rolls back.
RefuseSettle(h) ==
    /\ req[h].kind = "settle"
    /\ AttemptReference(req[h].payment) \in references
    /\ Done(h, req[h].payment, req[h].via, "FAILED")
    /\ UNCHANGED <<tables, outside>>

-----------------------------------------------------------------------------
(* Failing an attempt.                                                     *)

\* Collected money is refunded, never failed.
MayFail(status) == status \notin SETTLED_STATUSES

\* Where the request goes once the attempt is closed: a checkout that
\* superseded it opens its own (then is the method), the others are over.
AfterFail(h, a, via, then) ==
    IF then = NULL
    THEN Done(h, a, via, "PROCESSED")
    ELSE Reading(h, [kind |-> "checkout", step |-> "create",
                     order |-> payments[a].order, method |-> then])

\* fail reads: a settled attempt throws, a closed one is left alone.
BeginFail(h, a, to, failOrder, via, then) ==
    \/ /\ ~ MayFail(payments[a].status)
       /\ Done(h, a, via, "FAILED")
    \/ /\ MayFail(payments[a].status)
       /\ IsTerminalPayment(payments[a].status)
       /\ AfterFail(h, a, via, then)
    \/ /\ MayFail(payments[a].status)
       /\ ~ IsTerminalPayment(payments[a].status)
       /\ Reading(h, [kind |-> "fail", payment |-> a, to |-> to,
                      failOrder |-> failOrder, via |-> via, then |-> then,
                      orderStatus |-> orders[payments[a].order].status])

\* fail writes.  An order that dies with the attempt gives its stock back.
CommitFail(h) ==
    /\ req[h].kind = "fail"
    /\ LET r == req[h]
           a == r.payment
           o == payments[a].order
       IN  /\ payments' = [payments EXCEPT ![a].status = r.to]
           /\ IF r.failOrder /\ HeldForPayment(r.orderStatus)
              THEN /\ orders' = [orders EXCEPT ![o].status = "FAILED",
                                               ![o].paymentStatus = "FAILED"]
                   /\ timeline' = [timeline EXCEPT ![o] = @ \cup {"FAILED"}]
                   /\ Restock(o)
              ELSE UNCHANGED <<orders, timeline, stock, returned>>
           /\ AfterFail(h, a, r.via, r.then)
    /\ UNCHANGED <<receipts, references, commission, refunded, carts, outside>>

-----------------------------------------------------------------------------
(* Callbacks.  The payload is stored before anything is done with it; the  *)
(* unique event id is the attempt with the outcome that is reported.       *)

\* Faulty variant: the event is taken as done when it is stored.
ReceiveAsProcessed(h, a) ==
    /\ req[h] = Idle
    /\ gateway[a] \in Verdicts
    /\ inbox[a][gateway[a]] = "NONE"
    /\ inbox' = [inbox EXCEPT ![a][gateway[a]] = "PROCESSED"]
    /\ Reading(h, [kind |-> "apply", payment |-> a,
                   via |-> [by |-> "callback", said |-> gateway[a]]])
    /\ UNCHANGED <<tables, gateway, lapsed, answered>>

\* The gateway reports how the attempt stands.
ReceiveCallback(h, a) ==
    /\ req[h] = Idle
    /\ gateway[a] \in Verdicts
    /\ inbox[a][gateway[a]] = "NONE"
    /\ inbox' = [inbox EXCEPT ![a][gateway[a]] = "RECEIVED"]
    /\ Reading(h, [kind |-> "apply", payment |-> a,
                   via |-> [by |-> "callback", said |-> gateway[a]]])
    /\ UNCHANGED <<tables, gateway, lapsed, answered>>

\* A redelivery is answered as processed on the strength of its row alone.
ReceiveDuplicate(h, a) ==
    /\ req[h] = Idle
    /\ \E said \in CONCLUSIONS : inbox[a][said] # "NONE"
    /\ answered' = answered \cup {a}
    /\ UNCHANGED <<vars, gateway, lapsed, inbox>>

\* Faulty variant: whatever the gateway answers is taken for a success.
ApplyOnTrust(h, a, verdict, via) == BeginSettle(h, a, via)

\* SettlementService.apply.  It takes a settled attempt as done, unless it
\* loaded it before that, and records nothing of a payment in progress.
Apply(h, a, verdict, via) ==
    \/ /\ verdict = "PAID"
       /\ BeginSettle(h, a, via)
    \/ /\ verdict = "FAILED"
       /\ \/ /\ payments[a].status \in SETTLED_STATUSES
             /\ Done(h, a, via, "PROCESSED")
          \/ BeginFail(h, a, "FAILED", FALSE, via, NULL)
    \/ /\ verdict = "PENDING"
       /\ Done(h, a, via, "PROCESSED")

\* A signed callback is taken at its word; for an unsigned one the gateway
\* is asked, and the callback stays RECEIVED when it cannot be reached.
ApplyCallback(h) ==
    /\ req[h].kind = "apply"
    /\ LET a == req[h].payment
           via == req[h].via
       IN  \/ \E verdict \in {via.said, gateway[a]} : Apply(h, a, verdict, via)
           \/ Done(h, a, via, "RECEIVED")
    /\ UNCHANGED <<tables, outside>>

ResolveCallback(h) ==
    /\ req[h].kind = "resolve"
    /\ inbox' = [inbox EXCEPT ![req[h].payment][req[h].said] = req[h].result]
    /\ Finish(h)
    /\ UNCHANGED <<tables, gateway, lapsed, answered>>

\* An operator replays a stored callback, whatever became of it.
ReplayCallback(h, a) ==
    /\ req[h] = Idle
    /\ \E said \in Verdicts :
        /\ inbox[a][said] # "NONE"
        /\ Reading(h, [kind |-> "apply", payment |-> a,
                       via |-> [by |-> "replay", said |-> said]])
    /\ UNCHANGED <<tables, outside>>

\* A poll of an open attempt asks the gateway and applies the answer.
VerifyPayment(h, a) ==
    /\ req[h] = Idle
    /\ Online(a) /\ IsOpen(a)
    /\ Apply(h, a, gateway[a], [by |-> "poll", said |-> gateway[a]])
    /\ UNCHANGED <<tables, outside>>

-----------------------------------------------------------------------------
(* Checkout.                                                               *)

StartCheckout(h, o, m) ==
    /\ req[h] = Idle
    /\ orders[o].status \in {"PENDING_PAYMENT", "PLACED"}
    /\ orders[o].paymentStatus # "PAID"
    /\ m = "QR_TRANSFER" => orders[o].method = "QR_TRANSFER"
    /\ Reading(h, [kind |-> "checkout", step |-> "find", order |-> o, method |-> m])
    /\ UNCHANGED <<tables, outside>>

\* An open attempt that will do is reused.  A gateway's page must still have
\* time on it; cash leaves an attempt of another method open beside its own.
Reusable(a, m) ==
    /\ payments[a].method = m
    /\ m \in ONLINE_METHODS => a \notin lapsed

FindOpenAttempt(h) ==
    /\ Is(h, "checkout", "find")
    /\ LET m == req[h].method
           a == OpenAttempt(req[h].order)
           create == Reading(h, [req[h] EXCEPT !.step = "create"])
       IN  \/ a = NULL /\ create
           \/ a # NULL /\ Reusable(a, m) /\ Finish(h)
           \/ /\ a # NULL /\ ~ Reusable(a, m)
              /\ IF m = CASH \/ payments[a].method = m
                 THEN create
                 ELSE Reading(h, [kind |-> "supersede", payment |-> a, method |-> m])
    /\ UNCHANGED <<tables, outside>>

Supersede(h) ==
    /\ req[h].kind = "supersede"
    /\ BeginFail(h, req[h].payment, "CANCELLED", FALSE, OnRequest, req[h].method)
    /\ UNCHANGED <<tables, outside>>

CreateAttempt(h) ==
    /\ Is(h, "checkout", "create")
    /\ \E a \in Attempts :
        /\ NextAttempt(a)
        /\ payments' = [payments EXCEPT ![a] = PendingPayment(req[h].order, req[h].method)]
        /\ gateway' = [gateway EXCEPT ![a] =
                IF req[h].method \in ONLINE_METHODS THEN "PENDING" ELSE @]
    /\ Finish(h)
    /\ UNCHANGED <<orders, timeline, receipts, references, commission, refunded,
                   stock, returned, carts, lapsed, inbox, answered>>

CancelCheckout(h, a) ==
    /\ req[h] = Idle
    /\ payments[a] # NoPayment
    /\ payments[a].status \notin SETTLED_STATUSES
    /\ BeginFail(h, a, "CANCELLED", FALSE, OnRequest, NULL)
    /\ UNCHANGED <<tables, outside>>

\* One attempt of the sweep.  The gateway is not asked.
ExpirePayment(h, a) ==
    /\ req[h] = Idle
    /\ Online(a) /\ IsOpen(a) /\ a \in lapsed
    /\ BeginFail(h, a, "CANCELLED", TRUE, OnRequest, NULL)
    /\ UNCHANGED <<tables, outside>>

FailPaymentAdmin(h, a) ==
    /\ req[h] = Idle
    /\ payments[a] # NoPayment
    /\ BeginFail(h, a, "FAILED", TRUE, OnRequest, NULL)
    /\ UNCHANGED <<tables, outside>>

-----------------------------------------------------------------------------
(* Money that reaches a person.                                            *)

\* Staff record cash.  The order's status is not looked at.
SettleCash(h, a) ==
    /\ req[h] = Idle
    /\ payments[a].method = CASH
    /\ MaySettle(payments[a].status)
    /\ Reading(h, [kind |-> "cash", payment |-> a])
    /\ UNCHANGED <<tables, outside>>

CommitCash(h) ==
    /\ req[h].kind = "cash"
    /\ LET a == req[h].payment
           o == payments[a].order
       IN  /\ payments' = [payments EXCEPT ![a].status = "PAID"]
           /\ orders' = [orders EXCEPT ![o].paymentStatus = "PAID"]
           /\ PostReceipt(o, AttemptReference(a))
           /\ ConfirmCommission(o)
    /\ Finish(h)
    /\ UNCHANGED <<timeline, refunded, stock, returned, carts, outside>>

HAND_CONFIRMED_METHODS == {"QR_TRANSFER", CASH}
DEAD_STATUSES == {"CANCELLED", "REJECTED", "FAILED"}

\* The restaurant, the rider or staff confirm a transfer to a QR code.
MarkPaymentReceived(h, o) ==
    /\ req[h] = Idle
    /\ Exists(o)
    /\ orders[o].paymentStatus \notin SETTLED_STATUSES
    /\ orders[o].status \notin DEAD_STATUSES \cup {"PENDING_PAYMENT"}
    /\ orders[o].method \in HAND_CONFIRMED_METHODS
    /\ Reading(h, [kind |-> "transfer", step |-> "validated", order |-> o, payment |-> NULL])
    /\ UNCHANGED <<tables, outside>>

TransferAttempts(o) ==
    {a \in AttemptsOf(o) : payments[a].method = "QR_TRANSFER" /\ IsOpen(a)}

\* settleManualTransfer reads: a settled order is left alone.
BeginTransfer(h) ==
    /\ Is(h, "transfer", "validated")
    /\ LET o == req[h].order
           open == TransferAttempts(o)
       IN  IF \E a \in AttemptsOf(o) : payments[a].status \in SETTLED_STATUSES
           THEN Finish(h)
           ELSE Reading(h, [req[h] EXCEPT !.step = "reading",
                    !.payment = IF open = {} THEN NULL ELSE Max(open)])
    /\ UNCHANGED <<tables, outside>>

\* settleManualTransfer writes: every other open attempt is superseded, and
\* the order is no longer owed in cash.
CommitTransfer(h) ==
    /\ Is(h, "transfer", "reading")
    /\ LET o == req[h].order
       IN  /\ \E a \in Attempts :
                /\ IF req[h].payment = NULL THEN NextAttempt(a) ELSE a = req[h].payment
                /\ payments' = [b \in Attempts |->
                     IF b = a
                     THEN [PendingPayment(o, "QR_TRANSFER") EXCEPT !.status = "PAID"]
                     ELSE IF b \in AttemptsOf(o) /\ IsOpen(b)
                          THEN [payments[b] EXCEPT !.status = "CANCELLED"]
                          ELSE payments[b]]
                /\ PostReceipt(o, AttemptReference(a))
           /\ orders' = [orders EXCEPT ![o].paymentStatus = "PAID",
                                       ![o].method = "QR_TRANSFER"]
           /\ ConfirmCommission(o)
    /\ Finish(h)
    /\ UNCHANGED <<timeline, refunded, stock, returned, carts, outside>>

-----------------------------------------------------------------------------
GatewayStep(a) == CustomerPays(a) \/ GatewayDeclines(a) \/ WindowCloses(a)

PayStep(h) ==
    \/ \E a \in Attempts :
        \/ ReceiveCallback(h, a) \/ ReceiveDuplicate(h, a) \/ ReplayCallback(h, a)
        \/ VerifyPayment(h, a)
        \/ CancelCheckout(h, a) \/ ExpirePayment(h, a) \/ FailPaymentAdmin(h, a)
        \/ SettleCash(h, a)
    \/ \E o \in Orders :
        \/ MarkPaymentReceived(h, o)
        \/ \E m \in PlacedWith : StartCheckout(h, o, m)
    \/ FindOpenAttempt(h) \/ Supersede(h) \/ CreateAttempt(h)
    \/ ApplyCallback(h) \/ ResolveCallback(h)
    \/ CommitSettle(h) \/ RefuseSettle(h) \/ CommitFail(h)
    \/ CommitCash(h) \/ BeginTransfer(h) \/ CommitTransfer(h)

HandlerStep(h) == (Step(h) /\ UNCHANGED outside) \/ PayStep(h)

PayNext ==
    \/ \E a \in Attempts : GatewayStep(a)
    \/ \E h \in Handlers : HandlerStep(h)

PaySpec == PayInit /\ [][PayNext]_payVars
=============================================================================
