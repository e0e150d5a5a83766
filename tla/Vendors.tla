------------------------------ MODULE Vendors ------------------------------
(***************************************************************************)
(* One listing on the platform: its review, the subscription that its      *)
(* approval opens, the invoices the nightly sweep raises, and the ways a   *)
(* listing is taken down and put back up: by staff, and by billing.        *)
(*                                                                         *)
(* A request checks what it loads and commits later, the sweep works       *)
(* through lists it read before, and the approval is announced in memory;  *)
(* the process may die between any two steps.                              *)
(***************************************************************************)
EXTENDS BillingSchedule, Sequences

CONSTANTS
    MaxInvoices,    \* bound: invoices an instance raises
    Fees,           \* monthly fees a vendor may be put on
    Handlers,
    LastDay,        \* bound: days an instance runs
    CrashLimit,     \* bound: times the process dies
    NULL

ASSUME VendorAssumption ==
    /\ MaxInvoices \in Nat /\ IsFiniteSet(Fees)
    /\ Fees \subseteq Nat \ {0} /\ Fees # {}
    /\ NULL \notin Nat /\ NULL # "billing"
    /\ NULL \notin [status : SubscriptionStatuses, paidTo : Nat, trialEnds : Nat \cup {NULL},
                    byBilling : BOOLEAN, before : SUSPENDABLE \cup {NULL}]
    /\ LastDay \in Nat /\ CrashLimit \in Nat

VARIABLES
    today,
    listing,        \* status, and whether it is accepting orders
    subscription,   \* the vendor_subscriptions row, or NULL
    invoices,       \* subscription_invoices
    fee,            \* the vendor's monthly fee
    receipts,       \* FEE transactions per invoice number
    announced,      \* days of approvals still to be listened to
    sweep,          \* the stage of the sweep and the invoices left on its list
    req,
    closedBy,       \* history: who took a suspended listing down
    trials,         \* history: free months the listing was given
    warned,         \* history: warnings sent about an invoice, by lead
    overlapped,     \* history: two actors were once under way together
    crashes

vars == <<today, listing, subscription, invoices, fee, receipts, announced, sweep, req,
          closedBy, trials, warned, overlapped, crashes>>

-----------------------------------------------------------------------------
\* In the order they are raised.
Invoices == 1 .. MaxInvoices

NoInvoice == [status |-> "none"]
Idle == [kind |-> "idle"]
Resting == [stage |-> "resting", list |-> {}]

Init ==
    /\ today = 0
    /\ listing = [status |-> "PENDING_APPROVAL", accepting |-> FALSE]
    /\ subscription = NULL
    /\ invoices = [i \in Invoices |-> NoInvoice]
    /\ fee = Min(Fees)
    /\ receipts = [i \in Invoices |-> <<>>]
    /\ announced = {}
    /\ sweep = Resting
    /\ req = [h \in Handlers |-> Idle]
    /\ closedBy = NULL /\ trials = 0
    /\ warned = [i \in Invoices |-> [b \in REMINDER_LEAD_DAYS \cup {PAST_DUE_MARKER} |-> 0]]
    /\ overlapped = FALSE /\ crashes = 0

Raised == {i \in Invoices : invoices[i] # NoInvoice}
Open == {i \in Raised : invoices[i].status = "OPEN"}

\* Each group of tables that an action leaves alone.
billing == <<subscription, invoices, receipts, trials, warned>>
place == <<listing, closedBy>>
clock == <<today, crashes>>

NobodyElse(h) == sweep = Resting /\ \A g \in Handlers \ {h} : req[g] = Idle
Nobody == sweep = Resting /\ \A g \in Handlers : req[g] = Idle

Continue(h, r) == req' = [req EXCEPT ![h] = r]

\* A request begins with what it loads and checks.
Begin(h, r) ==
    /\ req[h] = Idle
    /\ Continue(h, r)
    /\ overlapped' = (overlapped \/ ~ NobodyElse(h))
    /\ UNCHANGED <<clock, place, billing, fee, announced, sweep>>

Finish(h) == Continue(h, Idle) /\ UNCHANGED overlapped

-----------------------------------------------------------------------------
(* The listing.                                                            *)

\* Approve, reject, resubmit and the staff override: the table allows it.
\* Only an approval is announced.
Review(h, to, announce) ==
    /\ <<listing.status, to>> \in ALLOWED_TRANSITIONS
    /\ announce => to = "ACTIVE"
    /\ Begin(h, [kind |-> "status", to |-> to, announce |-> announce])

SetAcceptingOrders(h, accepting) ==
    /\ accepting => listing.status = "ACTIVE"
    /\ Begin(h, [kind |-> "accept", accepting |-> accepting])

\* setStatus
CommitStatus(h) ==
    /\ req[h].kind = "status"
    /\ LET to == req[h].to
       IN  /\ listing' = [status |-> to, accepting |-> to = "ACTIVE"]
           /\ closedBy' = IF to = "SUSPENDED" THEN "staff" ELSE NULL
    /\ announced' = IF req[h].announce THEN announced \cup {today} ELSE announced
    /\ Finish(h)
    /\ UNCHANGED <<clock, billing, fee, sweep>>

CommitAccepting(h) ==
    /\ req[h].kind = "accept"
    /\ listing' = [listing EXCEPT !.accepting = req[h].accepting]
    /\ Finish(h)
    /\ UNCHANGED <<clock, billing, fee, announced, sweep, closedBy>>

-----------------------------------------------------------------------------
(* The subscription.                                                       *)

\* Faulty variant: nothing makes the restaurant of a subscription unique.
AnySubscription == TRUE

\* vendor_subscriptions_restaurant_id_key
NoSubscription == subscription = NULL

CreateSubscription(start) ==
    /\ subscription' =
        [status |-> "TRIALING", paidTo |-> start + TrialDays, trialEnds |-> start + TrialDays,
         byBilling |-> FALSE, before |-> NULL]
    /\ trials' = trials + 1

RoomFor == Cardinality(Raised) < Cardinality(Invoices)
NextInvoice == Cardinality(Raised) + 1

CreateInvoice(row) == invoices' = [invoices EXCEPT ![NextInvoice] = row]

\* The free month is settled the moment it is raised.
TrialInvoice(start) ==
    [status |-> "PAID", trial |-> TRUE, start |-> start, due |-> start,
     block |-> start + BILLING_GRACE_DAYS, amount |-> 0, last |-> {}]

\* Raised for the period that follows the one paid for.
FeeInvoice ==
    LET period == periodFrom(subscription.paidTo)
    IN  [status |-> "OPEN", trial |-> FALSE, start |-> period.start, due |-> period.due,
         block |-> period.block, amount |-> fee, last |-> {}]

\* The listener of an approval finds no subscription.
OnApproved(h, day) ==
    /\ req[h] = Idle /\ day \in announced
    /\ announced' = announced \ {day}
    /\ Continue(h, IF subscription # NULL THEN Idle ELSE [kind |-> "open", start |-> day])
    /\ overlapped' = (overlapped \/ ~ NobodyElse(h))
    /\ UNCHANGED <<clock, place, billing, fee, sweep>>

\* It opens one, unless somebody did so first.
OpenSubscription(h) ==
    /\ req[h].kind = "open"
    /\ IF NoSubscription
       THEN /\ CreateSubscription(req[h].start)
            /\ Continue(h, [req[h] EXCEPT !.kind = "trial"])
       ELSE /\ Continue(h, Idle)
            /\ UNCHANGED <<subscription, trials>>
    /\ UNCHANGED <<clock, place, fee, announced, sweep, invoices, receipts, warned, overlapped>>

OpenTrial(h) ==
    /\ req[h].kind = "trial" /\ RoomFor
    /\ CreateInvoice(TrialInvoice(req[h].start))
    /\ Finish(h)
    /\ UNCHANGED <<clock, place, fee, announced, sweep, subscription, receipts, trials, warned>>

-----------------------------------------------------------------------------
(* Paying.                                                                 *)

SubmitTransfer(h, i) ==
    i \in Open /\ Begin(h, [kind |-> "submit", invoice |-> i])

RejectTransfer(h, i) ==
    /\ i \in Raised /\ invoices[i].status = "PENDING_REVIEW"
    /\ Begin(h, [kind |-> "reject", invoice |-> i])

\* Confirming a transfer, recording a payment by hand, writing a month off:
\* the cover is dated from the day of the request.
Settle(h, i, as) ==
    /\ i \in Raised /\ invoices[i].status \in ACTIONABLE
    /\ Begin(h, [kind |-> "settle", invoice |-> i, as |-> as, day |-> today,
                 start |-> renewalPeriod(invoices[i].start, today)])

\* submitTransfer and rejectTransfer write whatever the invoice has become.
CommitReview(h) ==
    /\ req[h].kind \in {"submit", "reject"}
    /\ invoices' = [invoices EXCEPT ![req[h].invoice].status =
                        IF req[h].kind = "submit" THEN "PENDING_REVIEW" ELSE "OPEN"]
    /\ Finish(h)
    /\ UNCHANGED <<clock, place, fee, announced, sweep, subscription, receipts, trials, warned>>

\* The transaction reads the invoice and with it the subscription as it is
\* then; an invoice already paid is left alone by a confirmation.
ReadToSettle(h) ==
    /\ req[h].kind = "settle"
    /\ IF req[h].as = "PAID" /\ invoices[req[h].invoice].status = "PAID" THEN Finish(h)
       ELSE /\ Continue(h, [kind |-> "settling", invoice |-> req[h].invoice, as |-> req[h].as,
                            day |-> req[h].day, start |-> req[h].start,
                            byBilling |-> subscription.byBilling,
                            before |-> subscription.before])
            /\ UNCHANGED overlapped
    /\ UNCHANGED <<clock, place, billing, fee, announced, sweep>>

\* Faulty variant: nothing makes the reference of a transaction unique.
AnyReference(i) == TRUE

\* transactions_reference_key: the reference is the invoice's number.
FreshReference(i) == receipts[i] = <<>>

\* Faulty variant: the mark is cleared and the listing forgotten.
ReinstateNothing(r) == UNCHANGED <<listing, closedBy>>

\* reinstate, with what the transaction read: a payment puts a listing back up
\* only if billing took it down, and one the owner had paused stays paused.
Reinstate(r) ==
    IF r.byBilling /\ listing.status = "SUSPENDED"
    THEN LET restore == IF r.before = NULL THEN "ACTIVE" ELSE r.before
         IN  /\ listing' = [status |-> restore, accepting |-> restore = "ACTIVE"]
             /\ closedBy' = NULL
    ELSE UNCHANGED <<listing, closedBy>>

PaidUp(start, trialEnds) ==
    [status |-> "ACTIVE", paidTo |-> start + BILLING_CYCLE_DAYS, trialEnds |-> trialEnds,
     byBilling |-> FALSE, before |-> NULL]

\* The invoice, the period it buys, the ledger entry and the listing land
\* together, or not at all when the entry is already there.
CommitSettle(h) ==
    /\ req[h].kind = "settling"
    /\ LET r == req[h]
           i == r.invoice
       IN  IF r.as = "PAID" /\ ~ FreshReference(i)
           THEN UNCHANGED <<invoices, subscription, receipts, listing, closedBy>>
           ELSE /\ invoices' = [invoices EXCEPT ![i].status = r.as, ![i].start = r.start]
                /\ subscription' =
                    PaidUp(r.start, IF r.as = "PAID" THEN NULL ELSE subscription.trialEnds)
                /\ receipts' = IF r.as = "PAID"
                               THEN [receipts EXCEPT ![i] = Append(@, invoices[i].amount)]
                               ELSE receipts
                /\ Reinstate(r)
    /\ Finish(h)
    /\ UNCHANGED <<clock, fee, announced, sweep, trials, warned>>

\* The invoice a new fee is written to: the open one due first, never the
\* free month.
ToReprice ==
    LET priced == {i \in Open : ~ invoices[i].trial}
    IN  IF priced = {} THEN NULL
        ELSE CHOOSE i \in priced : \A j \in priced : invoices[i].due <= invoices[j].due

\* The vendor's own rate or, for one without, the platform's: both are saved
\* before the open invoice is looked for.
SetMonthlyFee(h, amount) ==
    /\ req[h] = Idle /\ subscription # NULL
    /\ fee' = amount
    /\ Continue(h, IF ToReprice = NULL THEN Idle
                   ELSE [kind |-> "reprice", invoice |-> ToReprice, amount |-> amount])
    /\ overlapped' = (overlapped \/ ~ NobodyElse(h))
    /\ UNCHANGED <<clock, place, billing, announced, sweep>>

RepriceOpenInvoice(h) ==
    /\ req[h].kind = "reprice"
    /\ invoices' = [invoices EXCEPT ![req[h].invoice].amount = req[h].amount]
    /\ Finish(h)
    /\ UNCHANGED <<clock, place, fee, announced, sweep, subscription, receipts, trials, warned>>

-----------------------------------------------------------------------------
(* Closing and reopening by hand: one transaction each.                    *)

SuspendByAdmin ==
    /\ subscription # NULL
    /\ subscription' = [subscription EXCEPT !.status = "SUSPENDED", !.byBilling = FALSE,
                                            !.before = NULL]
    /\ listing' = IF listing.status \in SUSPENDABLE
                  THEN [status |-> "SUSPENDED", accepting |-> FALSE] ELSE listing
    /\ closedBy' = IF listing'.status = "SUSPENDED" THEN "staff" ELSE closedBy
    /\ UNCHANGED <<clock, fee, announced, sweep, invoices, receipts, trials, warned, req>>
    /\ overlapped' = (overlapped \/ ~ Nobody)

\* "Lengthened, never shortened", and a vendor is warned again before it.
Extended(i) ==
    LET fresh == today + Max({BILLING_GRACE_DAYS, 1})
    IN  IF invoices[i].block < fresh
        THEN /\ invoices' = [invoices EXCEPT ![i].block = fresh, ![i].last = {}]
             /\ warned' = [warned EXCEPT ![i] = [b \in DOMAIN @ |-> 0]]
        ELSE UNCHANGED <<invoices, warned>>

ReinstateByAdmin ==
    /\ subscription # NULL
    /\ IF listing.status = "SUSPENDED"
       THEN listing' = [status |-> "ACTIVE", accepting |-> TRUE] /\ closedBy' = NULL
       ELSE UNCHANGED place
    /\ IF Open = {} THEN UNCHANGED <<invoices, warned>>
       ELSE Extended(CHOOSE i \in Open : \A j \in Open : invoices[i].due <= invoices[j].due)
    /\ LET overdue == \E i \in Open : invoices[i].due <= today
           trialing == subscription.trialEnds # NULL /\ subscription.trialEnds > today
       IN  subscription' = [subscription EXCEPT
              !.status = IF overdue THEN "PAST_DUE" ELSE IF trialing THEN "TRIALING" ELSE "ACTIVE",
              !.byBilling = FALSE, !.before = NULL]
    /\ overlapped' = (overlapped \/ ~ Nobody)
    /\ UNCHANGED <<clock, fee, announced, sweep, receipts, trials, req>>

-----------------------------------------------------------------------------
(* The nightly sweep: five stages, each working through a list it reads    *)
(* first.  One sweep runs at a time.                                       *)

SweepTo(stage, list) == sweep' = [stage |-> stage, list |-> list]

BeginSweep ==
    /\ sweep = Resting
    /\ SweepTo("backfill", {})
    /\ overlapped' = (overlapped \/ \E h \in Handlers : req[h] # Idle)
    /\ UNCHANGED <<clock, place, billing, fee, announced, req>>

\* Stage one looks for a live listing without a subscription.
Backfill ==
    /\ sweep.stage = "backfill"
    /\ IF listing.status = "ACTIVE" /\ NoSubscription
       THEN SweepTo("opening", {today}) ELSE SweepTo("issue", {})
    /\ UNCHANGED <<clock, place, billing, fee, announced, req, overlapped>>

\* If there is one by now, the stage fails and the sweep goes on.
BackfillSubscription ==
    /\ sweep.stage = "opening"
    /\ IF NoSubscription
       THEN CreateSubscription(Min(sweep.list)) /\ SweepTo("trial", sweep.list)
       ELSE UNCHANGED <<subscription, trials>> /\ SweepTo("issue", {})
    /\ UNCHANGED <<clock, place, fee, announced, req, invoices, receipts, warned, overlapped>>

BackfillTrial ==
    /\ sweep.stage = "trial" /\ RoomFor
    /\ CreateInvoice(TrialInvoice(Min(sweep.list)))
    /\ SweepTo("issue", {})
    /\ UNCHANGED <<clock, place, fee, announced, req, subscription, receipts, trials, warned,
                   overlapped>>

\* Faulty variant: an invoice a night.
NeedsInvoiceAlways == subscription # NULL

\* Nothing is raised yet for the period after the one paid for.
NeedsInvoice ==
    /\ subscription # NULL
    /\ \A i \in Raised : invoices[i].start < subscription.paidTo

Issue ==
    /\ sweep.stage = "issue"
    /\ IF NeedsInvoice /\ RoomFor THEN SweepTo("issuing", {FeeInvoice}) ELSE SweepTo("remind", {})
    /\ UNCHANGED <<clock, place, billing, fee, announced, req, overlapped>>

IssueInvoice ==
    /\ sweep.stage = "issuing" /\ RoomFor
    /\ \E row \in sweep.list : CreateInvoice(row)
    /\ SweepTo("remind", {})
    /\ UNCHANGED <<clock, place, fee, announced, req, subscription, receipts, trials, warned,
                   overlapped>>

\* The rows a stage read, as they were then.
Listed(ids) == {[invoice |-> i, due |-> invoices[i].due, last |-> invoices[i].last] : i \in ids}

ReadList ==
    /\ \/ /\ sweep.stage = "remind"
          /\ SweepTo("reminding", Listed({i \in Open :
                today <= invoices[i].due /\ invoices[i].due - today <= Max(REMINDER_LEAD_DAYS)}))
       \/ /\ sweep.stage = "past-due"
          /\ SweepTo("overdue", Listed({i \in Open :
                invoices[i].due <= today /\ today < invoices[i].block}))
       \/ /\ sweep.stage = "suspend"
          /\ SweepTo("closing", Listed({i \in Open :
                invoices[i].block <= today /\ subscription.status # "SUSPENDED"}))
    /\ UNCHANGED <<clock, place, billing, fee, announced, req, overlapped>>

ListDone ==
    /\ sweep.list = {}
    /\ \/ sweep.stage = "reminding" /\ SweepTo("past-due", {})
       \/ sweep.stage = "overdue" /\ SweepTo("suspend", {})
       \/ sweep.stage = "closing" /\ sweep' = Resting
    /\ UNCHANGED <<clock, place, billing, fee, announced, req, overlapped>>

\* A warning that is due is sent, and then marked as sent.
Warn(row, bucket) ==
    /\ warned' = [warned EXCEPT ![row.invoice][bucket] = @ + 1]
    /\ sweep' = [stage |-> sweep.stage, list |-> sweep.list, row |-> row, bucket |-> bucket]

Marking == "bucket" \in DOMAIN sweep

Remind(row) ==
    /\ sweep.stage = "reminding" /\ ~ Marking /\ row \in sweep.list
    /\ LET bucket == shouldRemind(row.due, today, row.last)
       IN  IF bucket = {} THEN SweepTo("reminding", sweep.list \ {row}) /\ UNCHANGED warned
           ELSE Warn(row, Min(bucket))
    /\ UNCHANGED <<clock, place, fee, announced, req, subscription, invoices, receipts, trials,
                   overlapped>>

MarkPastDue(row) ==
    /\ sweep.stage = "overdue" /\ ~ Marking /\ row \in sweep.list
    /\ subscription' = IF subscription.status \in {"TRIALING", "ACTIVE"}
                       THEN [subscription EXCEPT !.status = "PAST_DUE"] ELSE subscription
    /\ IF row.last = {PAST_DUE_MARKER} THEN SweepTo("overdue", sweep.list \ {row}) /\ UNCHANGED warned
       ELSE Warn(row, PAST_DUE_MARKER)
    /\ UNCHANGED <<clock, place, fee, announced, req, invoices, receipts, trials, overlapped>>

MarkReminderSent ==
    /\ Marking
    /\ invoices' = [invoices EXCEPT ![sweep.row.invoice].last = {sweep.bucket}]
    /\ SweepTo(sweep.stage, sweep.list \ {sweep.row})
    /\ UNCHANGED <<clock, place, fee, announced, req, subscription, receipts, trials, warned,
                   overlapped>>


\* Only a trading listing can be taken down, and remembers what it was.
SuspendForNonPayment(row) ==
    /\ sweep.stage = "closing" /\ row \in sweep.list
    /\ LET trading == listing.status \in SUSPENDABLE
       IN  /\ subscription' = [subscription EXCEPT !.status = "SUSPENDED", !.byBilling = trading,
                                !.before = IF trading THEN listing.status ELSE NULL]
           /\ IF trading
              THEN listing' = [status |-> "SUSPENDED", accepting |-> FALSE] /\ closedBy' = "billing"
              ELSE UNCHANGED place
    /\ SweepTo("closing", sweep.list \ {row})
    /\ UNCHANGED <<clock, fee, announced, req, invoices, receipts, trials, warned, overlapped>>

SweepNext ==
    \/ BeginSweep \/ Backfill \/ BackfillSubscription \/ BackfillTrial
    \/ Issue \/ IssueInvoice \/ ReadList \/ ListDone \/ MarkReminderSent
    \/ \E row \in sweep.list : Remind(row) \/ MarkPastDue(row) \/ SuspendForNonPayment(row)

-----------------------------------------------------------------------------
Tick ==
    /\ today < LastDay
    /\ today' = today + 1
    /\ UNCHANGED <<place, billing, fee, announced, sweep, req, overlapped, crashes>>

\* Requests, the sweep and events that nobody listened to yet are in memory.
Crash ==
    /\ crashes < CrashLimit
    /\ crashes' = crashes + 1
    /\ req' = [h \in Handlers |-> Idle] /\ sweep' = Resting /\ announced' = {}
    /\ UNCHANGED <<today, place, billing, fee, overlapped>>

Commit(h) ==
    \/ CommitStatus(h) \/ CommitAccepting(h) \/ OpenSubscription(h) \/ OpenTrial(h)
    \/ CommitReview(h) \/ ReadToSettle(h) \/ CommitSettle(h) \/ RepriceOpenInvoice(h)

Request(h) ==
    \/ \E to \in RestaurantStatuses, announce \in BOOLEAN : Review(h, to, announce)
    \/ \E accepting \in BOOLEAN : SetAcceptingOrders(h, accepting)
    \/ \E day \in announced : OnApproved(h, day)
    \/ \E i \in Invoices :
        SubmitTransfer(h, i) \/ RejectTransfer(h, i) \/ \E as \in {"PAID", "VOID"} : Settle(h, i, as)
    \/ \E amount \in Fees : SetMonthlyFee(h, amount)

Next ==
    \/ \E h \in Handlers : Commit(h) \/ Request(h)
    \/ SuspendByAdmin \/ ReinstateByAdmin
    \/ SweepNext \/ Tick \/ Crash

Spec == Init /\ [][Next]_vars

\* The sweep is run night after night, and goes on once begun.
FairSpec == Spec /\ WF_vars(SweepNext)
=============================================================================
