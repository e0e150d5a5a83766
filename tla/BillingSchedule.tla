-------------------------- MODULE BillingSchedule --------------------------
(***************************************************************************)
(* The calendar of vendor billing and the tables it goes by.  Constant     *)
(* level only; time is counted in days.                                    *)
(***************************************************************************)
EXTENDS Integers, FiniteSets, FiniteSetsExt

CONSTANTS
    BILLING_CYCLE_DAYS,
    BILLING_GRACE_DAYS,
    TrialDays,
    REMINDER_LEAD_DAYS  \* how many days ahead a vendor is warned

ASSUME DaysAssumption ==
    /\ BILLING_CYCLE_DAYS \in Nat \ {0} /\ TrialDays \in Nat \ {0}
    /\ BILLING_GRACE_DAYS \in Nat
    /\ REMINDER_LEAD_DAYS \subseteq Nat \ {0} /\ IsFiniteSet(REMINDER_LEAD_DAYS)

RestaurantStatuses ==
    {"PENDING_APPROVAL", "ACTIVE", "SUSPENDED", "TEMPORARILY_CLOSED", "REJECTED"}

SubscriptionStatuses == {"TRIALING", "ACTIVE", "PAST_DUE", "SUSPENDED"}

InvoiceStatuses == {"OPEN", "PENDING_REVIEW", "PAID", "VOID"}

\* <<from, to>>
ALLOWED_TRANSITIONS ==
    { <<"PENDING_APPROVAL", "ACTIVE">>, <<"PENDING_APPROVAL", "REJECTED">>,
      <<"ACTIVE", "SUSPENDED">>, <<"ACTIVE", "TEMPORARILY_CLOSED">>,
      <<"TEMPORARILY_CLOSED", "ACTIVE">>, <<"TEMPORARILY_CLOSED", "SUSPENDED">>,
      <<"SUSPENDED", "ACTIVE">>, <<"SUSPENDED", "REJECTED">>,
      <<"REJECTED", "PENDING_APPROVAL">> }

SUSPENDABLE == {"ACTIVE", "TEMPORARILY_CLOSED"}

\* Invoices an administrator can still settle.
ACTIONABLE == {"OPEN", "PENDING_REVIEW"}

-----------------------------------------------------------------------------
\* Payment is due as the period starts; an unpaid one closes the listing
\* when the days of grace are over.
periodFrom(start) == [start |-> start, due |-> start, block |-> start + BILLING_GRACE_DAYS]

\* Faulty variant: a vendor who pays late pays for the days he was closed.
renewalFromLapsed(invoiceStart, renewedAt) == invoiceStart

\* The first day of the full cycle an invoice buys when it is settled.
renewalPeriod(invoiceStart, renewedAt) ==
    IF renewedAt > invoiceStart THEN renewedAt ELSE invoiceStart

\* The tightest warning whose window the day is in.
reminderBucket(due, now) ==
    LET windows == {lead \in REMINDER_LEAD_DAYS : due - now <= lead}
    IN  IF due < now \/ windows = {} THEN {} ELSE {Min(windows)}

\* Marks an invoice whose overdue warning was sent.
PAST_DUE_MARKER == 0

\* Faulty variant: the warning already sent is sent again.
shouldRemindAgain(due, now, last) ==
    {b \in reminderBucket(due, now) : last = {} \/ b <= Min(last)}

\* A warning goes out when it is tighter than the last; none, or one.
shouldRemind(due, now, last) ==
    {b \in reminderBucket(due, now) : last = {} \/ b < Min(last)}
=============================================================================
