-------------------------- MODULE OrderProperties --------------------------
(***************************************************************************)
(* What the orders module is checked against beyond the invariants it      *)
(* states itself: the history it implements, the stock account, and the    *)
(* claims of its comments that concurrent requests break.  Module          *)
(* PaymentProperties is about OrderContract, which needs the payments too. *)
(***************************************************************************)
EXTENDS Orders, FiniteSetsExt

History == INSTANCE OrderHistory WITH
    reached <- timeline

\* For any number of concurrent requests the statuses an order has been in
\* grow along the transition table.
ImplementsHistory == History!Spec

\* Units of dish i that orders took and did not give back.
HeldBy(o, i) == Basket[orders[o].cart][i] * (1 - returned[o])

Held(i) == MapThenSumSet(LAMBDA o : HeldBy(o, i), {o \in Orders : Exists(o)})

\* The shelf and the orders together account for every unit: a placement
\* claims and a bad ending returns in the transaction that records it.
StockAccounted ==
    \A i \in Items : stock[i] + Held(i) = InitialStock[i]

-----------------------------------------------------------------------------
(* Claims that do not hold; README tells how to reproduce them.            *)

\* "An order that has been delivered, cancelled, rejected or failed never
\* moves again."
TerminalForever ==
    [][\A o \in Orders : orders[o].status \in TERMINAL_STATUSES =>
            orders'[o].status = orders[o].status]_vars

\* Stock is returned only when the kitchen never committed it, so it is
\* never put back twice ("restocking would overstate what is available").
StockReturnedOnce == \A o \in Orders : returned[o] <= 1

\* "Refunding more than was paid would create money; the ledger must
\* balance."
RefundsWithinTotal == \A o \in Orders : refunded[o] <= Total

\* "Once the kitchen has started cooking ... free cancellation stops at
\* PREPARING": before that, within the window, a customer may cancel.
CustomerCancelsUntilPreparing ==
    \A o \in Orders :
        Exists(o) /\ CustomerMayCancel(orders[o].status, TRUE) =>
            MayMove("CUSTOMER", orders[o].status, "CANCELLED")
=============================================================================
