-------------------------- MODULE VendorProperties --------------------------
(***************************************************************************)
(* What a listing and its billing are checked against.  Some of it holds   *)
(* however requests and the sweep interleave; the rest only as long as no  *)
(* two of them were ever under way at once.                                *)
(***************************************************************************)
EXTENDS Vendors

\* Every table holds rows of its type, and invoices are raised in order.
VendorTypeOK ==
    /\ listing \in [status : RestaurantStatuses, accepting : BOOLEAN]
    /\ subscription # NULL =>
        /\ subscription.status \in SubscriptionStatuses
        /\ subscription.byBilling <=> subscription.before \in SUSPENDABLE
    /\ Raised = 1 .. Cardinality(Raised)
    /\ \A i \in Raised :
        /\ invoices[i].status \in InvoiceStatuses
        /\ invoices[i].due <= invoices[i].block
        /\ invoices[i].trial => invoices[i].amount = 0
    /\ announced \subseteq 0 .. LastDay
    /\ closedBy # NULL => listing.status = "SUSPENDED"

\* "A re-approval must not restart the trial and hand the vendor another free
\* month", although the listener and the sweep's backfill both look first and
\* open a subscription later.
TrialOnce == trials <= 1

\* A month is in the platform's ledger once if its invoice counts as paid,
\* however many administrators clear the same queue: "two administrators
\* clearing the same queue are one payment".
PaidIsInLedger ==
    \A i \in Raised :
        /\ Len(receipts[i]) <= 1
        /\ invoices[i].status = "PAID" /\ ~ invoices[i].trial => Len(receipts[i]) = 1

\* "A sweep that runs every day -- or twice in one day after a restart --
\* sends three warnings over a cycle rather than thirty", and it "keeps exactly
\* one unpaid invoice ahead of every vendor": never two, night after night and
\* with late and early payers alike; and no warning is sent twice, unless the
\* process died between sending and marking it.
SweptOnce ==
    ~ overlapped =>
        /\ Cardinality({i \in Raised : invoices[i].status \in ACTIONABLE}) <= 1
        /\ crashes = 0 =>
            \A i \in Raised : \A bucket \in DOMAIN warned[i] : warned[i][bucket] <= 1

\* "A vendor always gets a full cycle for the fee": what is paid for only ever
\* changes by a settlement, which leaves at least a whole cycle beyond what was
\* paid for before ("the days already paid for are not lost") and beyond the
\* day it was asked for ("days spent overdue or closed are never charged for").
FullCycle ==
    [][~ overlapped' /\ subscription # NULL =>
        \/ subscription'.paidTo = subscription.paidTo
        \/ \E h \in Handlers :
            /\ req[h].kind = "settling"
            /\ subscription'.paidTo >= subscription.paidTo + BILLING_CYCLE_DAYS
            /\ subscription'.paidTo >= req[h].day + BILLING_CYCLE_DAYS]_vars

\* As long as nobody overlaps, a listing that billing took down is down, and
\* billing's mark stands, only over an invoice still to be settled: paying it
\* takes the mark away and puts the listing back, both or neither.
ClosedOwes ==
    ~ overlapped =>
        (closedBy = "billing" \/ (subscription # NULL /\ subscription.byBilling) =>
            \E i \in Raised : invoices[i].status \in ACTIONABLE)

\* A vendor whose subscription is suspended does not trade, unless staff put
\* the listing up by hand afterwards: closing takes it down, whatever it was,
\* and no payment, sweep or switch of the owner's brings it back up while the
\* subscription stays suspended, however they overlap.
SuspendedIsDown ==
    [][/\ subscription' # NULL /\ subscription'.status = "SUSPENDED"
       /\ listing'.status \in SUSPENDABLE
       => \/ /\ subscription.status = "SUSPENDED" /\ listing.status \in SUSPENDABLE
          \/ /\ UNCHANGED subscription
             /\ \E h \in Handlers : req[h].kind = "status" /\ req[h].to = listing'.status]_vars


-----------------------------------------------------------------------------
(* Claims that do not hold.                                                *)

\* "An administrator who suspended a restaurant over a hygiene complaint must
\* not have that reversed by the owner settling an unrelated invoice."
PaymentKeepsClosure ==
    [][receipts' # receipts /\ closedBy = "staff" => listing' = listing]_vars

\* SUSPENDED: "Grace ran out and the listing has been taken down until the
\* invoice is paid."
DownUntilPaid ==
    ~ overlapped /\ subscription # NULL /\ subscription.status = "SUSPENDED" =>
        (subscription.byBilling => listing.status # "ACTIVE")

\* "A vendor marked paid who is still suspended is the one outcome worth a
\* transaction": whatever overlaps, a listing billing took down owes.
PaidIsNotSuspended ==
    closedBy = "billing" => \E i \in Raised : invoices[i].status \in ACTIONABLE
=============================================================================
