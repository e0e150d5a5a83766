--------------------------- MODULE Vendors_proofs ---------------------------
(***************************************************************************)
(* Theorems about a listing and its billing, for any calendar, any fees,   *)
(* and any number of invoices, requests, days and crashes.                 *)
(***************************************************************************)
EXTENDS VendorProperties, FiniteSetTheorems, WellFoundedInduction, TLAPS

(***************************************************************************)
(* The inductive invariant.  What a request or the sweep is about to write *)
(* rests on rows that were there when it looked: so rows, once made, have  *)
(* to stay, and where there is an invoice, a list of invoices or a request *)
(* about one, there is a subscription.                                     *)
(***************************************************************************)

InvoiceRows ==
    [status : InvoiceStatuses, trial : BOOLEAN, start : Nat, due : Nat, block : Nat,
     amount : Nat, last : SUBSET Nat]

Subscriptions ==
    [status : SubscriptionStatuses, paidTo : Nat, trialEnds : Nat \cup {NULL},
     byBilling : BOOLEAN, before : SUSPENDABLE \cup {NULL}]

TablesTyped ==
    /\ today \in Nat /\ announced \subseteq Nat /\ fee \in Nat
    /\ invoices \in [Invoices -> InvoiceRows \cup {NoInvoice}]
    /\ subscription \in Subscriptions \cup {NULL}
    /\ receipts = [i \in Invoices |-> receipts[i]]

\* What the request r says of the invoices raised and the subscription sub:
\* which it names, and the months it dates.
RequestTyped(r, raised, sub) ==
    /\ r.kind \in {"open", "trial"} => r \in [kind : {"open", "trial"}, start : Nat]
    /\ r.kind \in {"submit", "reject", "settle", "settling", "reprice"} => r.invoice \in raised
    /\ r.kind \in {"settle", "settling"} =>
        r.as \in {"PAID", "VOID"} /\ r.start \in Nat /\ r.day \in Nat
    /\ r.kind = "reprice" => r.amount \in Nat
    /\ r.kind = "trial" => sub # NULL

RequestsGrounded ==
    /\ req = [h \in Handlers |-> req[h]]
    /\ \A h \in Handlers : RequestTyped(req[h], Raised, subscription)

WarningLists == {"reminding", "overdue", "closing"}
Rows == [invoice : Invoices, due : Nat, last : SUBSET Nat]
OpenRows == {row \in InvoiceRows : row.status = "OPEN"}

\* What the sweep s read for the stage it is in.
SweepTyped(s, raised, sub) ==
    /\ s.stage \in {"opening", "trial"} => \E d \in Nat : s.list = {d}
    /\ s.stage = "issuing" => s.list \subseteq OpenRows
    /\ s.stage \in WarningLists => s.list \subseteq {row \in Rows : row.invoice \in raised}
    /\ s.stage \in {"trial", "issuing"} => sub # NULL
    /\ "bucket" \in DOMAIN s =>
        s.stage \in WarningLists /\ s.row.invoice \in raised /\ s.bucket \in Nat

SweepGrounded == SweepTyped(sweep, Raised, subscription)

\* Invoices are those of a subscription, and every subscription had its month.
Billed ==
    /\ subscription = NULL => Raised = {} /\ trials = 0
    /\ trials \in {0, 1}

\* A month is booked at most once, and is if its invoice says so.
BookedWhenPaid ==
    \A i \in Invoices :
        /\ receipts[i] = <<>> \/ Len(receipts[i]) = 1
        /\ i \in Raised /\ invoices[i].status = "PAID" /\ ~ invoices[i].trial =>
            Len(receipts[i]) = 1

IInv == TablesTyped /\ RequestsGrounded /\ SweepGrounded /\ Billed /\ BookedWhenPaid

-----------------------------------------------------------------------------
(* The least of several days.                                              *)

LEMMA Least ==
    ASSUME NEW S, S \subseteq Nat, S # {}
    PROVE  \E x \in S : \A y \in S : x <= y
<1>1. PICK x \in S : \A y \in S : ~ (<<y, x>> \in OpToRel(<, Nat))
  BY NatLessThanWellFounded, WFMin, Zenon
<1>2. \A y \in S : ~ (y < x)
  BY <1>1 DEF OpToRel
<1> QED BY <1>2

LEMMA MinIsMember ==
    ASSUME NEW S, S \subseteq Nat, S # {}
    PROVE  Min(S) \in S
BY Least DEF Min

\* The earliest of some invoices is one of them.
LEMMA Earliest ==
    ASSUME TablesTyped, NEW S, S \subseteq Raised, S # {}
    PROVE  (CHOOSE i \in S : \A j \in S : invoices[i].due <= invoices[j].due) \in S
<1> DEFINE D == {invoices[i].due : i \in S}
<1>1. \A i \in S : invoices[i].due \in Nat
  BY DEF TablesTyped, Raised, InvoiceRows
<1>2. PICK d \in D : \A e \in D : d <= e
  <2>1. D \subseteq Nat /\ D # {}
    BY <1>1
  <2> HIDE DEF D
  <2> QED BY <2>1, Least
<1>3. \E i \in S : \A j \in S : invoices[i].due <= invoices[j].due
  BY <1>2
<1> QED BY <1>3

-----------------------------------------------------------------------------
(* How steps write.                                                        *)

\* A row that is written stays, and so do the others.
LEMMA RowsStay ==
    ASSUME TablesTyped, NEW i, NEW row \in InvoiceRows, invoices' = [invoices EXCEPT ![i] = row]
    PROVE  /\ invoices' \in [Invoices -> InvoiceRows \cup {NoInvoice}]
           /\ Raised \subseteq Raised'
           /\ \A j \in Invoices :
                \/ invoices'[j] = invoices[j]
                \/ j = i /\ invoices'[j] = row
<1>1. invoices \in [Invoices -> InvoiceRows \cup {NoInvoice}]
  BY DEF TablesTyped
<1>2. row # NoInvoice
  BY DEF InvoiceRows, InvoiceStatuses, NoInvoice
<1>3. \A j \in Invoices : \/ invoices'[j] = invoices[j]
                          \/ j = i /\ invoices'[j] = row
  BY <1>1
<1> QED BY <1>1, <1>2, <1>3 DEF Raised

\* h goes on with r, and rows and subscription stay.
LEMMA GoesOn ==
    ASSUME RequestsGrounded, NEW h \in Handlers, NEW r, Continue(h, r),
           RequestTyped(r, Raised', subscription'),
           Raised \subseteq Raised', subscription # NULL => subscription' # NULL
    PROVE  RequestsGrounded'
<1>1. req' = [req EXCEPT ![h] = r]
  BY DEF Continue
<1>2. req' = [g \in Handlers |-> req'[g]]
  BY <1>1 DEF RequestsGrounded
<1>3. ASSUME NEW g \in Handlers PROVE RequestTyped(req'[g], Raised', subscription')
  <2>1. CASE g = h
    BY <2>1, <1>1 DEF RequestsGrounded
  <2>2. CASE g # h
    <3>1. req'[g] = req[g] /\ RequestTyped(req[g], Raised, subscription)
      BY <2>2, <1>1 DEF RequestsGrounded
    <3> QED BY <3>1 DEF RequestTyped
  <2> QED BY <2>1, <2>2
<1> QED BY <1>2, <1>3 DEF RequestsGrounded

\* Nobody's request moves, and rows and subscription stay.
LEMMA RequestsWait ==
    ASSUME RequestsGrounded, UNCHANGED req,
           Raised \subseteq Raised', subscription # NULL => subscription' # NULL
    PROVE  RequestsGrounded'
BY DEF RequestsGrounded, RequestTyped

LEMMA SweepWaits ==
    ASSUME SweepGrounded, UNCHANGED sweep,
           Raised \subseteq Raised', subscription # NULL => subscription' # NULL
    PROVE  SweepGrounded'
BY DEF SweepGrounded, SweepTyped

\* The sweep goes on to a stage without a list of its own.
LEMMA SweepGoesOn ==
    ASSUME NEW stage, SweepTo(stage, {}),
           stage \notin {"opening", "trial", "issuing"}
    PROVE  SweepGrounded'
BY DEF SweepTo, SweepGrounded, SweepTyped

\* Idle names nothing.
LEMMA IdleTyped == \A raised, sub : RequestTyped(Idle, raised, sub)
BY DEF RequestTyped, Idle

-----------------------------------------------------------------------------
(* The steps.                                                              *)

LEMMA StartKeeps == Init => IInv
<1> SUFFICES ASSUME Init PROVE IInv
  OBVIOUS
<1>1. Raised = {}
  BY DEF Init, Raised
<1>2. fee \in Nat
  <2>1. Fees \subseteq Nat /\ Fees # {}
    BY VendorAssumption
  <2> QED BY <2>1, MinIsMember DEF Init
<1>3. TablesTyped
  BY <1>2 DEF Init, TablesTyped
<1>4. RequestsGrounded
  BY IdleTyped DEF Init, RequestsGrounded
<1>5. SweepGrounded
  BY DEF Init, SweepGrounded, SweepTyped, Resting, WarningLists
<1>6. Billed /\ BookedWhenPaid
  BY <1>1 DEF Init, Billed, BookedWhenPaid
<1> QED BY <1>3, <1>4, <1>5, <1>6 DEF IInv

\* h goes on with r and writes no row.
LEMMA QuietKeeps ==
    ASSUME IInv, NEW h \in Handlers, NEW r, Continue(h, r), RequestTyped(r, Raised, subscription),
           UNCHANGED <<today, billing, sweep>>, announced' \subseteq Nat, fee' \in Nat
    PROVE  IInv'
<1>1. Raised' = Raised /\ UNCHANGED <<invoices, subscription, receipts, trials>>
  BY DEF billing, Raised
<1>2. RequestsGrounded' /\ SweepGrounded'
  BY <1>1, GoesOn, SweepWaits DEF IInv
<1>3. TablesTyped' /\ Billed' /\ BookedWhenPaid'
  BY <1>1 DEF IInv, TablesTyped, Billed, BookedWhenPaid
<1> QED BY <1>2, <1>3 DEF IInv

\* Requests begin, and read.
LEMMA RequestsKeep ==
    ASSUME IInv, NEW h \in Handlers, Request(h)
    PROVE  IInv'
<1>1. ASSUME NEW r, Begin(h, r), RequestTyped(r, Raised, subscription) PROVE IInv'
  BY <1>1, QuietKeeps DEF Begin, clock, IInv, TablesTyped
<1>2. ASSUME NEW to, NEW announce, Review(h, to, announce) PROVE IInv'
  BY <1>1, <1>2 DEF Review, RequestTyped
<1>3. ASSUME NEW accepting, SetAcceptingOrders(h, accepting) PROVE IInv'
  BY <1>1, <1>3 DEF SetAcceptingOrders, RequestTyped
<1>4. ASSUME NEW day \in announced, OnApproved(h, day) PROVE IInv'
  <2> DEFINE r == IF subscription # NULL THEN Idle ELSE [kind |-> "open", start |-> day]
  <2>1. RequestTyped(r, Raised, subscription)
    BY IdleTyped DEF IInv, TablesTyped, RequestTyped
  <2>2. /\ Continue(h, r) /\ UNCHANGED <<today, billing, sweep>>
        /\ announced' \subseteq Nat /\ fee' \in Nat
    BY <1>4 DEF OnApproved, clock, IInv, TablesTyped
  <2> QED BY <2>1, <2>2, QuietKeeps
<1>5. ASSUME NEW i \in Invoices, SubmitTransfer(h, i) \/ RejectTransfer(h, i) PROVE IInv'
  BY <1>1, <1>5 DEF SubmitTransfer, RejectTransfer, RequestTyped, Open
<1>6. ASSUME NEW i \in Invoices, NEW as \in {"PAID", "VOID"}, Settle(h, i, as) PROVE IInv'
  <2>1. renewalPeriod(invoices[i].start, today) \in Nat /\ today \in Nat
    BY <1>6 DEF Settle, IInv, TablesTyped, InvoiceRows, Raised, renewalPeriod
  <2> QED BY <1>1, <1>6, <2>1 DEF Settle, RequestTyped
<1>7. ASSUME NEW amount \in Fees, SetMonthlyFee(h, amount) PROVE IInv'
  <2> DEFINE r == IF ToReprice = NULL THEN Idle
                  ELSE [kind |-> "reprice", invoice |-> ToReprice, amount |-> amount]
  <2>1. amount \in Nat
    BY VendorAssumption
  <2>2. ToReprice # NULL => ToReprice \in Raised
    <3> DEFINE priced == {i \in Open : ~ invoices[i].trial}
    <3>1. priced \subseteq Raised
      BY DEF Open
    <3>2. priced # {} =>
            (CHOOSE i \in priced : \A j \in priced : invoices[i].due <= invoices[j].due) \in priced
      BY <3>1, Earliest DEF IInv
    <3> QED BY <3>1, <3>2 DEF ToReprice
  <2>3. RequestTyped(r, Raised, subscription)
    BY <2>1, <2>2, IdleTyped DEF RequestTyped
  <2>4. /\ Continue(h, r) /\ UNCHANGED <<today, billing, sweep>>
        /\ announced' \subseteq Nat /\ fee' \in Nat
    BY <1>7, <2>1 DEF SetMonthlyFee, clock, IInv, TablesTyped
  <2> QED BY <2>3, <2>4, QuietKeeps
<1> QED BY <1>2, <1>3, <1>4, <1>5, <1>6, <1>7 DEF Request

\* Commits of the listing, and the read of a settlement.
LEMMA ListingKeeps ==
    ASSUME IInv, NEW h \in Handlers, CommitStatus(h) \/ CommitAccepting(h) \/ ReadToSettle(h)
    PROVE  IInv'
<1>1. CASE CommitStatus(h) \/ CommitAccepting(h)
  <2>1. /\ Continue(h, Idle) /\ UNCHANGED <<today, billing, sweep>>
        /\ announced' \subseteq Nat /\ fee' \in Nat
    BY <1>1 DEF CommitStatus, CommitAccepting, Finish, clock, IInv, TablesTyped
  <2> QED BY <2>1, IdleTyped, QuietKeeps
<1>2. CASE ReadToSettle(h)
  <2>1. /\ UNCHANGED <<today, billing, sweep>>
        /\ announced' \subseteq Nat /\ fee' \in Nat
    BY <1>2 DEF ReadToSettle, clock, IInv, TablesTyped
  <2>2. CASE Continue(h, Idle)
    BY <2>1, <2>2, IdleTyped, QuietKeeps
  <2>3. CASE Continue(h, [kind |-> "settling", invoice |-> req[h].invoice, as |-> req[h].as,
                          day |-> req[h].day, start |-> req[h].start,
                          byBilling |-> subscription.byBilling,
                          before |-> subscription.before])
    <3> DEFINE r == [kind |-> "settling", invoice |-> req[h].invoice, as |-> req[h].as,
                     day |-> req[h].day, start |-> req[h].start,
                     byBilling |-> subscription.byBilling,
                     before |-> subscription.before]
    <3>1. RequestTyped(r, Raised, subscription)
      BY <1>2 DEF ReadToSettle, IInv, RequestsGrounded, RequestTyped
    <3> QED BY <2>1, <2>3, <3>1, QuietKeeps
  <2> QED BY <1>2, <2>2, <2>3 DEF ReadToSettle, Finish
<1> QED BY <1>1, <1>2

\* A written row counts as paid only if it did before, or is a free month.
LEMMA BookedStays ==
    ASSUME IInv, NEW i, NEW row \in InvoiceRows, invoices' = [invoices EXCEPT ![i] = row],
           UNCHANGED receipts,
           row.status = "PAID" => row.trial \/ (i \in Raised /\ invoices[i].status = "PAID"
                                                /\ ~ invoices[i].trial)
    PROVE  BookedWhenPaid'
<1>1. \A j \in Invoices : \/ invoices'[j] = invoices[j]
                          \/ j = i /\ invoices'[j] = row
  BY RowsStay DEF IInv
<1> QED BY <1>1 DEF IInv, BookedWhenPaid, Raised

\* A row of an invoice there is, as something else.
LEMMA RaisedRow ==
    ASSUME IInv, NEW i \in Raised
    PROVE  i \in Invoices /\ invoices[i] \in InvoiceRows /\ subscription # NULL
BY DEF IInv, TablesTyped, Raised, Billed

\* h writes one row and nothing else of billing.
LEMMA RowKeeps ==
    ASSUME IInv, NEW h \in Handlers, NEW r, Continue(h, r), RequestTyped(r, Raised, subscription),
           NEW i, NEW row \in InvoiceRows, invoices' = [invoices EXCEPT ![i] = row],
           row.status = "PAID" => row.trial \/ (i \in Raised /\ invoices[i].status = "PAID"
                                                /\ ~ invoices[i].trial),
           subscription # NULL,
           UNCHANGED <<today, announced, fee, sweep, subscription, receipts, trials>>
    PROVE  IInv'
<1>1. invoices' \in [Invoices -> InvoiceRows \cup {NoInvoice}] /\ Raised \subseteq Raised'
  BY RowsStay DEF IInv
<1>2. BookedWhenPaid'
  BY BookedStays
<1>3. TablesTyped' /\ Billed'
  BY <1>1 DEF IInv, TablesTyped, Billed
<1>4. RequestTyped(r, Raised', subscription')
  BY <1>1 DEF RequestTyped
<1>5. RequestsGrounded' /\ SweepGrounded'
  BY <1>1, <1>4, GoesOn, SweepWaits DEF IInv
<1> QED BY <1>2, <1>3, <1>5 DEF IInv

\* A free month is a row that is paid for.
LEMMA TrialIsARow ==
    ASSUME NEW start \in Nat
    PROVE  TrialInvoice(start) \in InvoiceRows /\ TrialInvoice(start).trial
BY DaysAssumption DEF TrialInvoice, InvoiceRows, InvoiceStatuses

LEMMA CreatedIsASubscription ==
    ASSUME NEW start \in Nat, CreateSubscription(start)
    PROVE  subscription' \in Subscriptions /\ subscription' # NULL /\ trials' = trials + 1
<1>1. start + TrialDays \in Nat
  BY DaysAssumption
<1>2. subscription' \in Subscriptions
  BY <1>1 DEF CreateSubscription, Subscriptions, SubscriptionStatuses
<1> QED BY <1>2, VendorAssumption DEF CreateSubscription, Subscriptions

\* A subscription is opened only where there is none.
LEMMA OpeningKeeps ==
    ASSUME IInv, NEW h \in Handlers, OpenSubscription(h)
    PROVE  IInv'
<1>1. req[h].kind = "open" /\ req[h] \in [kind : {"open", "trial"}, start : Nat]
  BY DEF OpenSubscription, IInv, RequestsGrounded, RequestTyped
<1>2. /\ UNCHANGED <<today, announced, fee, sweep, invoices, receipts>>
      /\ Raised' = Raised
  BY DEF OpenSubscription, clock, Raised
<1>3. CASE NoSubscription
  <2> DEFINE r == [req[h] EXCEPT !.kind = "trial"]
  <2>1. CreateSubscription(req[h].start) /\ Continue(h, r)
    BY <1>3 DEF OpenSubscription
  <2>2. subscription' \in Subscriptions /\ subscription' # NULL /\ trials' = trials + 1
    BY <1>1, <2>1, CreatedIsASubscription
  <2>3. RequestTyped(r, Raised', subscription')
    BY <1>1, <2>2 DEF RequestTyped
  <2>4. RequestsGrounded' /\ SweepGrounded'
    BY <1>2, <2>1, <2>2, <2>3, GoesOn, SweepWaits DEF IInv
  <2>5. Billed'
    BY <1>3, <2>2 DEF IInv, Billed, NoSubscription
  <2>6. TablesTyped' /\ BookedWhenPaid'
    BY <1>2, <2>2 DEF IInv, TablesTyped, BookedWhenPaid
  <2> QED BY <2>4, <2>5, <2>6 DEF IInv
<1>4. CASE ~ NoSubscription
  <2>1. Continue(h, Idle) /\ UNCHANGED <<subscription, trials>>
    BY <1>4 DEF OpenSubscription
  <2>2. UNCHANGED <<today, billing, sweep>> /\ announced' \subseteq Nat /\ fee' \in Nat
    BY <1>2, <2>1 DEF OpenSubscription, billing, IInv, TablesTyped
  <2> QED BY <2>1, <2>2, IdleTyped, QuietKeeps
<1> QED BY <1>3, <1>4

\* The free month, a review of a transfer, a new fee: one row each.
LEMMA RowsKeep ==
    ASSUME IInv, NEW h \in Handlers, OpenTrial(h) \/ CommitReview(h) \/ RepriceOpenInvoice(h)
    PROVE  IInv'
<1>1. /\ Continue(h, Idle) /\ RequestTyped(Idle, Raised, subscription)
      /\ UNCHANGED <<today, announced, fee, sweep, subscription, receipts, trials>>
  BY IdleTyped DEF OpenTrial, CommitReview, RepriceOpenInvoice, Finish, clock
<1>2. RequestTyped(req[h], Raised, subscription)
  BY DEF IInv, RequestsGrounded
<1>3. CASE OpenTrial(h)
  <2>1. req[h].start \in Nat /\ subscription # NULL
    BY <1>2, <1>3 DEF OpenTrial, RequestTyped
  <2>2. invoices' = [invoices EXCEPT ![NextInvoice] = TrialInvoice(req[h].start)]
    BY <1>3 DEF OpenTrial, CreateInvoice
  <2> QED BY <1>1, <2>1, <2>2, TrialIsARow, RowKeeps
<1>4. CASE CommitReview(h)
  <2> DEFINE i == req[h].invoice
             to == IF req[h].kind = "submit" THEN "PENDING_REVIEW" ELSE "OPEN"
             row == [invoices[i] EXCEPT !.status = to]
  <2>1. i \in Raised
    BY <1>2, <1>4 DEF CommitReview, RequestTyped
  <2>2. row \in InvoiceRows /\ row.status # "PAID" /\ subscription # NULL
    BY <2>1, RaisedRow DEF InvoiceRows, InvoiceStatuses
  <2>3. invoices' = [invoices EXCEPT ![i] = row]
    BY <1>4 DEF CommitReview
  <2> HIDE DEF row
  <2> QED BY <1>1, <2>2, <2>3, RowKeeps
<1>5. CASE RepriceOpenInvoice(h)
  <2> DEFINE i == req[h].invoice
             row == [invoices[i] EXCEPT !.amount = req[h].amount]
  <2>1. i \in Raised /\ req[h].amount \in Nat
    BY <1>2, <1>5 DEF RepriceOpenInvoice, RequestTyped
  <2>2. /\ row \in InvoiceRows /\ subscription # NULL
        /\ row.status = invoices[i].status /\ row.trial = invoices[i].trial
    BY <2>1, RaisedRow DEF InvoiceRows
  <2>3. invoices' = [invoices EXCEPT ![i] = row]
    BY <1>5 DEF RepriceOpenInvoice
  <2> HIDE DEF row
  <2> QED BY <1>1, <2>1, <2>2, <2>3, RowKeeps
<1> QED BY <1>3, <1>4, <1>5

\* A settlement: the receipt and the paid invoice land together.
LEMMA SettlingKeeps ==
    ASSUME IInv, NEW h \in Handlers, CommitSettle(h)
    PROVE  IInv'
<1> DEFINE r == req[h]
           i == r.invoice
           row == [[invoices[i] EXCEPT !.status = r.as] EXCEPT !.start = r.start]
<1>1. /\ Continue(h, Idle) /\ RequestTyped(Idle, Raised, subscription)
      /\ UNCHANGED <<today, announced, fee, sweep, trials>>
  BY IdleTyped DEF CommitSettle, Finish, clock
<1>2. i \in Raised /\ r.as \in {"PAID", "VOID"} /\ r.start \in Nat
  BY DEF CommitSettle, IInv, RequestsGrounded, RequestTyped
<1>3. i \in Invoices /\ invoices[i] \in InvoiceRows /\ subscription # NULL
  BY <1>2, RaisedRow
<1>4. CASE r.as = "PAID" /\ ~ FreshReference(i)
  <2>1. UNCHANGED <<today, billing, sweep>> /\ announced' \subseteq Nat /\ fee' \in Nat
    BY <1>1, <1>4 DEF CommitSettle, clock, billing, IInv, TablesTyped
  <2> QED BY <1>1, <2>1, QuietKeeps
<1>5. CASE ~ (r.as = "PAID" /\ ~ FreshReference(i))
  <2>1. /\ invoices' = [invoices EXCEPT ![i] = row]
        /\ subscription' =
             PaidUp(r.start, IF r.as = "PAID" THEN NULL ELSE subscription.trialEnds)
        /\ receipts' = IF r.as = "PAID"
                       THEN [receipts EXCEPT ![i] = Append(@, invoices[i].amount)]
                       ELSE receipts
    BY <1>5 DEF CommitSettle
  <2>2. row \in InvoiceRows /\ row.status = r.as
    BY <1>2, <1>3 DEF InvoiceRows, InvoiceStatuses
  <2>3. /\ invoices' \in [Invoices -> InvoiceRows \cup {NoInvoice}] /\ Raised \subseteq Raised'
        /\ \A j \in Invoices : invoices'[j] = invoices[j] \/ (j = i /\ invoices'[j] = row)
    <3> HIDE DEF row
    <3> QED BY <2>1, <2>2, RowsStay DEF IInv
  <2>4. subscription' \in Subscriptions /\ subscription' # NULL
    <3>1. subscription \in Subscriptions
      BY <1>3 DEF IInv, TablesTyped
    <3>2. r.start + BILLING_CYCLE_DAYS \in Nat
      BY <1>2, DaysAssumption
    <3>3. subscription' \in Subscriptions
      BY <2>1, <3>1, <3>2 DEF PaidUp, Subscriptions, SubscriptionStatuses
    <3> QED BY <3>3, VendorAssumption DEF Subscriptions
  <2>5. /\ receipts' = [j \in Invoices |-> receipts'[j]]
        /\ \A j \in Invoices : receipts'[j] = receipts[j] \/ Len(receipts'[j]) = 1
        /\ r.as = "PAID" => Len(receipts'[i]) = 1
    <3>1. CASE r.as = "PAID"
      <4>1. receipts[i] = <<>>
        BY <1>5, <3>1 DEF FreshReference
      <4>2. Len(Append(<<>>, invoices[i].amount)) = 1
        <5>1. <<>> \in Seq({invoices[i].amount})
          OBVIOUS
        <5> QED BY <5>1
      <4> QED BY <1>3, <2>1, <3>1, <4>1, <4>2 DEF IInv, TablesTyped
    <3>2. CASE r.as # "PAID"
      BY <2>1, <3>2 DEF IInv, TablesTyped
    <3> QED BY <3>1, <3>2
  <2> HIDE DEF row
  <2>6. BookedWhenPaid'
    BY <2>2, <2>3, <2>5 DEF IInv, BookedWhenPaid, Raised
  <2>7. TablesTyped' /\ Billed'
    BY <1>1, <2>3, <2>4, <2>5 DEF IInv, TablesTyped, Billed
  <2>8. RequestsGrounded' /\ SweepGrounded'
    <3>1. RequestTyped(Idle, Raised', subscription')
      BY IdleTyped
    <3> QED BY <1>1, <2>3, <2>4, <3>1, GoesOn, SweepWaits DEF IInv
  <2> QED BY <2>6, <2>7, <2>8 DEF IInv
<1> QED BY <1>4, <1>5

\* A subscription that was is rewritten, and no row changes what it counts for.
LEMMA RewriteKeeps ==
    ASSUME IInv, subscription # NULL, subscription' \in Subscriptions,
           invoices' \in [Invoices -> InvoiceRows \cup {NoInvoice}], Raised \subseteq Raised',
           BookedWhenPaid', SweepGrounded',
           UNCHANGED <<today, announced, fee, receipts, trials, req>>
    PROVE  IInv'
<1>1. subscription' # NULL
  BY VendorAssumption DEF Subscriptions
<1>2. RequestsGrounded'
  BY <1>1, RequestsWait DEF IInv
<1>3. TablesTyped' /\ Billed'
  BY <1>1 DEF IInv, TablesTyped, Billed
<1> QED BY <1>2, <1>3 DEF IInv

\* Closing and reopening by hand.
LEMMA ByHandKeeps ==
    ASSUME IInv, SuspendByAdmin \/ ReinstateByAdmin
    PROVE  IInv'
<1>1. /\ subscription # NULL /\ subscription \in Subscriptions
      /\ UNCHANGED <<today, announced, fee, receipts, trials, req, sweep>>
  BY DEF SuspendByAdmin, ReinstateByAdmin, clock, IInv, TablesTyped
<1>2. subscription' \in Subscriptions
  <2>1. CASE SuspendByAdmin
    BY <1>1, <2>1 DEF SuspendByAdmin, Subscriptions, SubscriptionStatuses
  <2>2. CASE ReinstateByAdmin
    <3> DEFINE overdue == \E i \in Open : invoices[i].due <= today
               trialing == subscription.trialEnds # NULL /\ subscription.trialEnds > today
               status == IF overdue THEN "PAST_DUE" ELSE IF trialing THEN "TRIALING"
                           ELSE "ACTIVE"
    <3>1. subscription' = [subscription EXCEPT !.status = status, !.byBilling = FALSE,
                                               !.before = NULL]
      BY <2>2, Zenon DEF ReinstateByAdmin
    <3>2. status \in SubscriptionStatuses
      <4> HIDE DEF overdue, trialing
      <4> QED BY DEF SubscriptionStatuses
    <3> HIDE DEF status
    <3> QED BY <1>1, <3>1, <3>2 DEF Subscriptions
  <2> QED BY <2>1, <2>2
<1>3. subscription' # NULL
  BY <1>2, VendorAssumption DEF Subscriptions
<1>4. /\ invoices' \in [Invoices -> InvoiceRows \cup {NoInvoice}] /\ Raised \subseteq Raised'
      /\ BookedWhenPaid'
  <2>1. CASE UNCHANGED invoices
    BY <1>1, <2>1 DEF IInv, TablesTyped, BookedWhenPaid, Raised
  <2>2. ASSUME Open # {}, Extended(CHOOSE i \in Open : \A j \in Open :
                                     invoices[i].due <= invoices[j].due)
        PROVE  <1>4
    <3> DEFINE i == CHOOSE k \in Open : \A j \in Open : invoices[k].due <= invoices[j].due
               fresh == today + Max({BILLING_GRACE_DAYS, 1})
               row == [[invoices[i] EXCEPT !.block = fresh] EXCEPT !.last = {}]
    <3>1. i \in Open
      BY <2>2, Earliest DEF IInv, Open
    <3>2. i \in Raised /\ invoices[i] \in InvoiceRows /\ invoices[i].status = "OPEN"
      BY <3>1, RaisedRow DEF Open
    <3>3. fresh \in Nat
      BY DaysAssumption DEF Max, IInv, TablesTyped
    <3>4. row \in InvoiceRows /\ row.status # "PAID"
      BY <3>2, <3>3 DEF InvoiceRows
    <3>5. CASE invoices' = [invoices EXCEPT ![i] = row]
      <4> HIDE DEF row
      <4> QED BY <1>1, <3>4, <3>5, RowsStay, BookedStays DEF IInv
    <3> QED BY <2>1, <2>2, <3>5 DEF Extended
  <2> QED BY <2>1, <2>2 DEF SuspendByAdmin, ReinstateByAdmin
<1>5. SweepGrounded'
  BY <1>1, <1>3, <1>4, SweepWaits DEF IInv
<1> QED BY <1>1, <1>2, <1>4, <1>5, RewriteKeeps

\* The sweep reads or writes no row, no subscription.
LEMMA SweepReads ==
    ASSUME IInv, SweepGrounded',
           UNCHANGED <<today, announced, fee, invoices, subscription, receipts, trials, req>>
    PROVE  IInv'
<1>1. Raised' = Raised
  BY DEF Raised
<1>2. RequestsGrounded'
  BY <1>1, RequestsWait DEF IInv
<1>3. TablesTyped' /\ Billed' /\ BookedWhenPaid'
  BY <1>1 DEF IInv, TablesTyped, Billed, BookedWhenPaid
<1> QED BY <1>2, <1>3 DEF IInv

\* Opening a subscription for a listing without one.
LEMMA BackfillKeeps ==
    ASSUME IInv, BeginSweep \/ Backfill \/ BackfillSubscription
    PROVE  IInv'
<1>1. CASE BeginSweep
  <2>1. SweepGrounded'
    BY <1>1, SweepGoesOn DEF BeginSweep
  <2> QED BY <1>1, <2>1, SweepReads DEF BeginSweep, clock, billing
<1>2. CASE Backfill
  <2>1. today \in Nat
    BY DEF IInv, TablesTyped
  <2>2. SweepGrounded'
    BY <1>2, <2>1 DEF Backfill, SweepTo, SweepGrounded, SweepTyped, WarningLists
  <2> QED BY <1>2, <2>2, SweepReads DEF Backfill, clock, billing
<1>3. CASE BackfillSubscription /\ ~ NoSubscription
  <2>1. SweepGrounded'
    BY <1>3, SweepGoesOn DEF BackfillSubscription
  <2> QED BY <1>3, <2>1, SweepReads DEF BackfillSubscription, clock
<1>4. CASE BackfillSubscription /\ NoSubscription
  <2>1. PICK d \in Nat : sweep.list = {d}
    BY <1>4 DEF BackfillSubscription, IInv, SweepGrounded, SweepTyped
  <2>2. Min({d}) = d
    BY DEF Min
  <2>3. /\ CreateSubscription(d) /\ SweepTo("trial", {d})
        /\ UNCHANGED <<today, announced, fee, req, invoices, receipts>>
    BY <1>4, <2>1, <2>2 DEF BackfillSubscription, clock
  <2>4. subscription' \in Subscriptions /\ subscription' # NULL /\ trials' = trials + 1
    BY <2>3, CreatedIsASubscription
  <2>5. Raised' = Raised
    BY <2>3 DEF Raised
  <2>6. SweepGrounded'
    BY <2>3, <2>4 DEF SweepTo, SweepGrounded, SweepTyped, WarningLists
  <2>7. RequestsGrounded'
    BY <2>3, <2>4, <2>5, RequestsWait DEF IInv
  <2>8. Billed'
    BY <1>4, <2>4 DEF IInv, Billed, NoSubscription
  <2>9. TablesTyped' /\ BookedWhenPaid'
    BY <2>3, <2>4, <2>5 DEF IInv, TablesTyped, BookedWhenPaid
  <2> QED BY <2>6, <2>7, <2>8, <2>9 DEF IInv
<1> QED BY <1>1, <1>2, <1>3, <1>4

\* Raising an invoice: one row, open or free.
LEMMA InvoicesKeep ==
    ASSUME IInv, BackfillTrial \/ Issue \/ IssueInvoice
    PROVE  IInv'
<1>1. ASSUME NEW row \in InvoiceRows, CreateInvoice(row), row.status = "PAID" => row.trial,
             subscription # NULL, SweepTo("issue", {}) \/ SweepTo("remind", {}),
             UNCHANGED <<today, announced, fee, subscription, receipts, trials, req>>
      PROVE  IInv'
  <2>1. /\ invoices' \in [Invoices -> InvoiceRows \cup {NoInvoice}] /\ Raised \subseteq Raised'
        /\ BookedWhenPaid'
    BY <1>1, RowsStay, BookedStays DEF CreateInvoice, IInv
  <2>2. SweepGrounded'
    BY <1>1, SweepGoesOn
  <2>3. subscription' \in Subscriptions
    BY <1>1 DEF IInv, TablesTyped
  <2> QED BY <1>1, <2>1, <2>2, <2>3, RewriteKeeps
<1>2. CASE BackfillTrial
  <2>1. PICK d \in Nat : sweep.list = {d}
    BY <1>2 DEF BackfillTrial, IInv, SweepGrounded, SweepTyped
  <2>2. Min({d}) = d
    BY DEF Min
  <2>3. subscription # NULL
    BY <1>2 DEF BackfillTrial, IInv, SweepGrounded, SweepTyped
  <2> QED BY <1>1, <1>2, <2>1, <2>2, <2>3, TrialIsARow DEF BackfillTrial, clock
<1>3. CASE Issue
  <2>1. NeedsInvoice => FeeInvoice \in OpenRows /\ subscription # NULL
    <3>1. ASSUME NeedsInvoice PROVE subscription \in Subscriptions
      BY <3>1 DEF NeedsInvoice, IInv, TablesTyped
    <3>2. ASSUME NeedsInvoice
          PROVE  /\ subscription.paidTo \in Nat /\ fee \in Nat
                 /\ subscription.paidTo + BILLING_GRACE_DAYS \in Nat
      BY <3>1, <3>2, DaysAssumption DEF Subscriptions, IInv, TablesTyped
    <3> QED BY <3>2 DEF NeedsInvoice, FeeInvoice, periodFrom, OpenRows, InvoiceRows,
                        InvoiceStatuses
  <2>2. SweepGrounded'
    <3>1. CASE SweepTo("remind", {})
      BY <3>1, SweepGoesOn
    <3>2. CASE NeedsInvoice /\ SweepTo("issuing", {FeeInvoice})
      <4>1. subscription' # NULL
        BY <1>3, <2>1, <3>2 DEF Issue, billing
      <4> QED BY <2>1, <3>2, <4>1 DEF SweepTo, SweepGrounded, SweepTyped, WarningLists
    <3> QED BY <1>3, <3>1, <3>2 DEF Issue
  <2> QED BY <1>3, <2>2, SweepReads DEF Issue, clock, billing
<1>4. CASE IssueInvoice
  <2>1. sweep.list \subseteq OpenRows /\ subscription # NULL
    BY <1>4 DEF IssueInvoice, IInv, SweepGrounded, SweepTyped
  <2>2. PICK row \in sweep.list : CreateInvoice(row)
    BY <1>4 DEF IssueInvoice
  <2> QED BY <1>1, <1>4, <2>1, <2>2 DEF IssueInvoice, OpenRows, clock
<1> QED BY <1>2, <1>3, <1>4

\* The lists of a night, and what they are read from.
LEMMA ListsKeep ==
    ASSUME IInv, ReadList \/ ListDone
    PROVE  IInv'
<1>1. CASE ReadList
  <2>1. ASSUME NEW ids, ids \subseteq Raised
        PROVE  Listed(ids) \subseteq {row \in Rows : row.invoice \in Raised}
    BY <2>1, RaisedRow DEF Listed, Rows, InvoiceRows
  <2>2. PICK stage \in WarningLists, ids \in SUBSET Raised : SweepTo(stage, Listed(ids))
    <3>1. Open \subseteq Raised
      BY DEF Open
    <3> QED BY <1>1, <3>1 DEF ReadList, WarningLists
  <2>3. SweepGrounded'
    <3>1. Raised' = Raised
      BY <1>1 DEF ReadList, billing, Raised
    <3> QED BY <2>1, <2>2, <3>1 DEF SweepTo, SweepGrounded, SweepTyped, WarningLists
  <2> QED BY <1>1, <2>3, SweepReads DEF ReadList, clock, billing
<1>2. CASE ListDone
  <2>1. SweepGrounded'
    BY <1>2, SweepGoesOn DEF ListDone, Resting, SweepTo
  <2> QED BY <1>2, <2>1, SweepReads DEF ListDone, clock, billing
<1> QED BY <1>1, <1>2

\* A row is done with: the list gets shorter.
LEMMA RowDone ==
    ASSUME IInv, NEW row, sweep.stage \in WarningLists, SweepTo(sweep.stage, sweep.list \ {row}),
           Raised \subseteq Raised'
    PROVE  SweepGrounded'
BY DEF IInv, SweepGrounded, SweepTyped, SweepTo, WarningLists

\* A warning is sent about an invoice that was raised.
LEMMA RowWarned ==
    ASSUME IInv, NEW row \in sweep.list, sweep.stage \in WarningLists, NEW bucket \in Nat,
           Warn(row, bucket), Raised \subseteq Raised'
    PROVE  SweepGrounded'
BY DEF IInv, SweepGrounded, SweepTyped, Warn, WarningLists

LEMMA RemindKeeps ==
    ASSUME IInv, NEW row \in sweep.list, Remind(row)
    PROVE  IInv'
<1> DEFINE windows == {lead \in REMINDER_LEAD_DAYS : row.due - today <= lead}
           bucket == shouldRemind(row.due, today, row.last)
<1>1. /\ sweep.stage \in WarningLists /\ Raised' = Raised
      /\ UNCHANGED <<today, announced, fee, invoices, subscription, receipts, trials, req>>
  BY DEF Remind, clock, WarningLists, Raised
<1>2. bucket # {} => Min(bucket) \in Nat
  <2>1. windows \subseteq Nat
    BY DaysAssumption
  <2>2. bucket # {} => windows # {} /\ bucket \subseteq {Min(windows)}
    BY DEF shouldRemind, reminderBucket
  <2>3. bucket # {} => Min(windows) \in Nat /\ bucket \subseteq Nat
    BY <2>1, <2>2, MinIsMember
  <2> HIDE DEF bucket
  <2> QED BY <2>3, MinIsMember
<1>3. SweepGrounded'
  <2>1. CASE bucket = {}
    BY <1>1, <2>1, RowDone DEF Remind
  <2>2. CASE bucket # {}
    BY <1>1, <1>2, <2>2, RowWarned DEF Remind
  <2> QED BY <2>1, <2>2
<1> QED BY <1>1, <1>3, SweepReads

\* Past due, and closed: the subscription of an invoice is rewritten.
LEMMA OverdueKeeps ==
    ASSUME IInv, NEW row \in sweep.list, MarkPastDue(row) \/ SuspendForNonPayment(row)
    PROVE  IInv'
<1>1. /\ sweep.stage \in WarningLists /\ Raised' = Raised
      /\ UNCHANGED <<today, announced, fee, invoices, receipts, trials, req>>
  BY DEF MarkPastDue, SuspendForNonPayment, clock, WarningLists, Raised
<1>2. row.invoice \in Raised
  BY <1>1 DEF IInv, SweepGrounded, SweepTyped
<1>3. subscription \in Subscriptions /\ subscription # NULL
  BY <1>2, RaisedRow DEF IInv, TablesTyped
<1>4. subscription' \in Subscriptions /\ SweepGrounded'
  <2>1. CASE MarkPastDue(row)
    <3>1. subscription' \in Subscriptions
      <4>1. [subscription EXCEPT !.status = "PAST_DUE"] \in Subscriptions
        BY <1>3 DEF Subscriptions, SubscriptionStatuses
      <4> QED BY <1>3, <2>1, <4>1 DEF MarkPastDue
    <3>2. CASE SweepTo("overdue", sweep.list \ {row})
      <4>1. sweep.stage = "overdue"
        BY <2>1 DEF MarkPastDue
      <4> QED BY <1>1, <3>1, <3>2, <4>1, RowDone
    <3>3. CASE Warn(row, PAST_DUE_MARKER)
      BY <1>1, <3>1, <3>3, RowWarned DEF PAST_DUE_MARKER
    <3> QED BY <2>1, <3>1, <3>2, <3>3 DEF MarkPastDue
  <2>2. CASE SuspendForNonPayment(row)
    <3> DEFINE trading == listing.status \in SUSPENDABLE
               before == IF trading THEN listing.status ELSE NULL
    <3>1. /\ subscription' = [subscription EXCEPT !.status = "SUSPENDED", !.byBilling = trading,
                                                  !.before = before]
          /\ SweepTo(sweep.stage, sweep.list \ {row})
      BY <2>2 DEF SuspendForNonPayment
    <3>2. trading \in BOOLEAN /\ before \in SUSPENDABLE \cup {NULL}
      OBVIOUS
    <3> HIDE DEF trading, before
    <3>3. subscription' \in Subscriptions
      BY <1>3, <3>1, <3>2 DEF Subscriptions, SubscriptionStatuses
    <3> QED BY <1>1, <3>1, <3>3, RowDone
  <2> QED BY <2>1, <2>2
<1>5. BookedWhenPaid' /\ invoices' \in [Invoices -> InvoiceRows \cup {NoInvoice}]
  BY <1>1 DEF IInv, TablesTyped, BookedWhenPaid
<1> QED BY <1>1, <1>3, <1>4, <1>5, RewriteKeeps

LEMMA MarkingKeeps ==
    ASSUME IInv, MarkReminderSent
    PROVE  IInv'
<1> DEFINE i == sweep.row.invoice
           row == [invoices[i] EXCEPT !.last = {sweep.bucket}]
<1>1. i \in Raised /\ sweep.bucket \in Nat
  BY DEF MarkReminderSent, Marking, IInv, SweepGrounded, SweepTyped
<1>2. i \in Invoices /\ invoices[i] \in InvoiceRows /\ subscription # NULL
  BY <1>1, RaisedRow
<1>3. /\ row \in InvoiceRows
      /\ row.status = invoices[i].status /\ row.trial = invoices[i].trial
  BY <1>1, <1>2 DEF InvoiceRows
<1>4. /\ invoices' = [invoices EXCEPT ![i] = row]
      /\ UNCHANGED <<today, announced, fee, subscription, receipts, trials, req>>
  BY DEF MarkReminderSent, clock
<1> HIDE DEF row
<1>5. /\ invoices' \in [Invoices -> InvoiceRows \cup {NoInvoice}] /\ Raised \subseteq Raised'
      /\ BookedWhenPaid'
  BY <1>1, <1>3, <1>4, RowsStay, BookedStays DEF IInv
<1>6. SweepGrounded'
  <2>1. sweep.stage \in WarningLists /\ SweepTo(sweep.stage, sweep.list \ {sweep.row})
    BY DEF MarkReminderSent, Marking, IInv, SweepGrounded, SweepTyped
  <2> QED BY <1>5, <2>1, RowDone
<1>7. subscription' \in Subscriptions
  BY <1>2, <1>4 DEF IInv, TablesTyped
<1> QED BY <1>2, <1>4, <1>5, <1>6, <1>7, RewriteKeeps

\* A day passes, or the process dies and forgets what was under way.
LEMMA TimeKeeps ==
    ASSUME IInv, Tick \/ Crash
    PROVE  IInv'
<1>1. UNCHANGED <<fee, billing>> /\ Raised' = Raised /\ today' \in Nat
  BY DEF Tick, Crash, billing, IInv, TablesTyped, Raised
<1>2. TablesTyped' /\ Billed' /\ BookedWhenPaid'
  BY <1>1 DEF Tick, Crash, billing, IInv, TablesTyped, Billed, BookedWhenPaid
<1>3. RequestsGrounded' /\ SweepGrounded'
  <2>1. CASE Tick
    BY <1>1, <2>1, RequestsWait, SweepWaits DEF Tick, billing, IInv
  <2>2. CASE Crash
    <3>1. RequestsGrounded'
      BY <2>2, IdleTyped DEF Crash, RequestsGrounded
    <3>2. SweepGrounded'
      BY <2>2 DEF Crash, SweepGrounded, SweepTyped, Resting, WarningLists
    <3> QED BY <3>1, <3>2
  <2> QED BY <2>1, <2>2
<1> QED BY <1>2, <1>3 DEF IInv

LEMMA StepKeeps == IInv /\ [Next]_vars => IInv'
<1> SUFFICES ASSUME IInv, [Next]_vars PROVE IInv'
  OBVIOUS
<1>1. ASSUME NEW h \in Handlers, Commit(h) \/ Request(h) PROVE IInv'
  BY <1>1, RequestsKeep, ListingKeeps, OpeningKeeps, RowsKeep, SettlingKeeps DEF Commit
<1>2. CASE SweepNext
  BY <1>2, BackfillKeeps, InvoicesKeep, ListsKeep, RemindKeeps, OverdueKeeps, MarkingKeeps
     DEF SweepNext
<1>3. CASE UNCHANGED vars
  <2>1. SweepGrounded'
    BY <1>3, SweepWaits DEF vars, Raised, IInv
  <2> QED BY <1>3, <2>1, SweepReads DEF vars
<1> QED BY <1>1, <1>2, <1>3, ByHandKeeps, TimeKeeps DEF Next

-----------------------------------------------------------------------------
\* In every state a listing and its billing can reach, what a request or the
\* sweep is about to write names invoices that were raised, of a subscription.
THEOREM Invariance == Spec => []IInv
BY StartKeeps, StepKeeps, PTL DEF Spec

\* However the listener of an approval, the sweep's backfill and a crash
\* interleave, a listing is given one free month: both look first and open a
\* subscription later, and the unique restaurant of a subscription decides.
THEOREM OneTrial == Spec => []TrialOnce
<1>1. IInv => TrialOnce
  BY DEF IInv, Billed, TrialOnce
<1> QED BY <1>1, Invariance, PTL

\* However many administrators settle, write off, reject or reprice one invoice
\* at once, its month is in the ledger at most once, and is there if the
\* invoice counts as paid.
THEOREM PaidOnce == Spec => []PaidIsInLedger
<1>1. IInv => PaidIsInLedger
  <2>1. Raised \subseteq Invoices /\ Len(<<>>) = 0
    BY DEF Raised
  <2>2. ASSUME IInv, NEW i \in Raised
        PROVE  /\ Len(receipts[i]) <= 1
               /\ invoices[i].status = "PAID" /\ ~ invoices[i].trial => Len(receipts[i]) = 1
    <3>1. /\ receipts[i] = <<>> \/ Len(receipts[i]) = 1
          /\ invoices[i].status = "PAID" /\ ~ invoices[i].trial => Len(receipts[i]) = 1
      BY <2>1, <2>2, Zenon DEF IInv, BookedWhenPaid
    <3>2. Len(receipts[i]) = 0 \/ Len(receipts[i]) = 1
      BY <2>1, <3>1, Zenon
    <3>3. Len(receipts[i]) <= 1
      <4> DEFINE n == Len(receipts[i])
      <4>1. n = 0 \/ n = 1
        BY <3>2
      <4> HIDE DEF n
      <4>2. n <= 1
        BY <4>1
      <4> QED BY <4>2 DEF n
    <3> QED BY <3>1, <3>3, Zenon
  <2> QED BY <2>2 DEF PaidIsInLedger
<1> QED BY <1>1, Invariance, PTL

-----------------------------------------------------------------------------
(* As long as no two actors were under way at once.  What a request or the *)
(* sweep has read is then still so when it writes, and the tables keep     *)
(* what their comments promise.                                            *)

\* Invoices that can still be settled.
Unpaid == {i \in Raised : invoices[i].status \in ACTIONABLE}

\* Numbers are given out in order.
RaisedInOrder == \E n \in Nat : Raised = 1 .. n

\* One request, or the sweep.
Alone ==
    /\ \A g, h \in Handlers : req[g].kind # "idle" /\ req[h].kind # "idle" => g = h
    /\ sweep # Resting => \A h \in Handlers : req[h].kind = "idle"

\* One unpaid invoice, for a month that is not paid for, and no vendor is
\* closed for want of it who owes none.
UnpaidAhead ==
    /\ \A i, j \in Unpaid : i = j
    /\ \A i \in Unpaid : invoices[i].start >= subscription.paidTo
    /\ subscription # NULL /\ subscription.byBilling => Unpaid # {}

\* What the request r read is still so, of unpaid invoices and their rows.
Fresh(r, unpaid, rows) ==
    /\ r.kind \in {"submit", "reject", "settle", "settling"} => r.invoice \in unpaid
    /\ r.kind \in {"settle", "settling"} => r.start >= rows[r.invoice].start /\ r.start >= r.day

FreshRequests == \A h \in Handlers : Fresh(req[h], Unpaid, invoices)

Entry(i) == [invoice |-> i, due |-> invoices[i].due, last |-> invoices[i].last]

\* What the sweep read is still so; a warning to be marked is one on its list.
FreshSweep ==
    /\ sweep.stage = "issuing" =>
        Unpaid = {} /\ \A row \in sweep.list : row.start >= subscription.paidTo
    /\ sweep.stage \in WarningLists =>
        \A row \in sweep.list : row.invoice \in Open /\ row = Entry(row.invoice)
    /\ Marking => sweep.row \in sweep.list /\ sweep.stage \in {"reminding", "overdue"}

\* The warning an invoice has had last, marked or about to be.
Told(i) == IF Marking /\ sweep.row.invoice = i THEN {sweep.bucket} ELSE invoices[i].last

\* A warning is sent once, and none after a tighter one.
WarnedInOrder ==
    \A i \in Invoices : \A b \in DOMAIN warned[i] :
        /\ warned[i][b] \in {0, 1}
        /\ warned[i][b] = 1 => i \in Raised /\ \E m \in Nat : Told(i) = {m} /\ m <= b

WarnedTyped == warned \in [Invoices -> [REMINDER_LEAD_DAYS \cup {PAST_DUE_MARKER} -> Nat]]

Undisturbed ==
    /\ Alone /\ FreshRequests /\ FreshSweep /\ UnpaidAhead
    /\ crashes = 0 => WarnedInOrder

SerialInv ==
    /\ RaisedInOrder /\ WarnedTyped /\ crashes \in Nat
    /\ ~ overlapped => Undisturbed

-----------------------------------------------------------------------------
(* What the tables keep.                                                   *)

\* No invoice comes, goes, or changes whether it can be settled, its start or
\* the last warning about it.
RowsAgree ==
    /\ Raised' = Raised /\ Unpaid' = Unpaid
    /\ \A i \in Raised : /\ invoices'[i].start = invoices[i].start
                         /\ invoices'[i].last = invoices[i].last

LEMMA RowsAsTheyAre ==
    ASSUME UNCHANGED invoices
    PROVE  RowsAgree
BY DEF RowsAgree, Raised, Unpaid

\* One row is written, and agrees with the one that was.
LEMMA RowAgrees ==
    ASSUME IInv, NEW i \in Raised, NEW row \in InvoiceRows,
           invoices' = [invoices EXCEPT ![i] = row],
           row.status \in ACTIONABLE <=> invoices[i].status \in ACTIONABLE,
           row.start = invoices[i].start, row.last = invoices[i].last
    PROVE  RowsAgree
<1>1. /\ \A j \in Invoices : invoices'[j] = invoices[j] \/ (j = i /\ invoices'[j] = row)
      /\ Raised \subseteq Raised' /\ i \in Invoices
  BY RowsStay DEF IInv, Raised
<1>2. Raised' = Raised
  BY <1>1 DEF Raised
<1>3. \A j \in Raised : /\ invoices'[j].status \in ACTIONABLE <=> invoices[j].status \in ACTIONABLE
                        /\ invoices'[j].start = invoices[j].start
                        /\ invoices'[j].last = invoices[j].last
  BY <1>1 DEF Raised
<1> QED BY <1>2, <1>3 DEF RowsAgree, Unpaid

\* The next invoice is one that was not raised, and the only one that comes.
LEMMA NextIsRaised ==
    ASSUME IInv, RaisedInOrder, RoomFor, NEW row \in InvoiceRows, CreateInvoice(row)
    PROVE  /\ RaisedInOrder' /\ NextInvoice \in Invoices \ Raised
           /\ Raised' = Raised \cup {NextInvoice} /\ invoices'[NextInvoice] = row
           /\ \A j \in Raised : invoices'[j] = invoices[j]
<1>1. PICK n \in Nat : Raised = 1 .. n
  BY DEF RaisedInOrder
<1>2. Cardinality(Raised) = n /\ Cardinality(Invoices) = MaxInvoices /\ MaxInvoices \in Nat
  BY <1>1, VendorAssumption, FS_Interval DEF Invoices
<1>3. NextInvoice = n + 1 /\ n < MaxInvoices
  BY <1>2 DEF NextInvoice, RoomFor
<1>4. NextInvoice \in Invoices \ Raised
  BY <1>1, <1>2, <1>3 DEF Invoices
<1>5. /\ \A j \in Invoices : invoices'[j] = invoices[j] \/ (j = NextInvoice /\ invoices'[j] = row)
      /\ Raised \subseteq Raised' /\ invoices'[NextInvoice] = row
  BY <1>4, RowsStay DEF CreateInvoice, IInv, TablesTyped
<1>6. row # NoInvoice
  BY DEF InvoiceRows, InvoiceStatuses, NoInvoice
<1>7. Raised' = Raised \cup {NextInvoice}
  BY <1>4, <1>5, <1>6 DEF Raised
<1>8. Raised' = 1 .. (n + 1)
  BY <1>1, <1>3, <1>7
<1>9. RaisedInOrder'
  BY <1>8 DEF RaisedInOrder
<1> QED BY <1>4, <1>5, <1>7, <1>9 DEF Raised

\* Nothing is paid for or written off, and no vendor is closed who owes none.
LEMMA AheadStays ==
    ASSUME UnpaidAhead, RowsAgree,
           \/ UNCHANGED subscription
           \/ /\ subscription'.paidTo = subscription.paidTo
              /\ subscription'.byBilling => Unpaid # {}
    PROVE  UnpaidAhead'
<1>1. Unpaid' = Unpaid /\ \A i \in Unpaid : invoices'[i].start = invoices[i].start
  BY DEF RowsAgree, Unpaid
<1> QED BY <1>1 DEF UnpaidAhead

\* No warning is sent or marked.
LEMMA WarnedStays ==
    ASSUME WarnedInOrder, RowsAgree, UNCHANGED warned, Marking' <=> Marking,
           Marking => sweep'.row = sweep.row /\ sweep'.bucket = sweep.bucket
    PROVE  WarnedInOrder'
<1>1. Raised' = Raised /\ \A i \in Raised : Told(i)' = Told(i)
  BY DEF RowsAgree, Told
<1> QED BY <1>1 DEF WarnedInOrder

-----------------------------------------------------------------------------
(* Who is under way.                                                       *)

\* While a request is under way, everybody else waits.
LEMMA OthersWait ==
    ASSUME Alone, NEW h \in Handlers, req[h].kind # "idle"
    PROVE  sweep = Resting /\ \A g \in Handlers \ {h} : req[g].kind = "idle"
BY DEF Alone

LEMMA SweepAlone ==
    ASSUME Alone, sweep # Resting
    PROVE  \A h \in Handlers : req[h].kind = "idle"
BY DEF Alone

LEMMA IdleIsFresh == \A unpaid, rows : Fresh(Idle, unpaid, rows)
BY DEF Fresh, Idle

LEMMA RestingIsFresh == sweep = Resting => FreshSweep
BY DEF FreshSweep, Resting, Marking, WarningLists

\* h goes on alone with r.
LEMMA GoesOnAlone ==
    ASSUME RequestsGrounded, NEW h \in Handlers, NEW r, Continue(h, r),
           Fresh(r, Unpaid', invoices'), sweep' = Resting,
           \A g \in Handlers \ {h} : req[g].kind = "idle"
    PROVE  Alone' /\ FreshRequests' /\ FreshSweep'
<1>1. req'[h] = r /\ \A g \in Handlers \ {h} : req'[g] = req[g] /\ req'[g].kind = "idle"
  BY DEF Continue, RequestsGrounded
<1>2. Alone'
  BY <1>1 DEF Alone
<1>3. FreshRequests'
  BY <1>1 DEF FreshRequests, Fresh
<1>4. FreshSweep'
  BY RestingIsFresh DEF FreshSweep, Resting, Marking, WarningLists
<1> QED BY <1>2, <1>3, <1>4

\* The sweep, or nobody, goes on while every request waits.
LEMMA SweepGoesOnAlone ==
    ASSUME \A h \in Handlers : req[h].kind = "idle", UNCHANGED req
    PROVE  Alone' /\ FreshRequests'
BY DEF Alone, FreshRequests, Fresh

\* A request begins with r, and writes no invoice and no subscription.
LEMMA BeginsAlone ==
    ASSUME IInv, SerialInv, NEW h \in Handlers, NEW r, req[h] = Idle, Continue(h, r),
           UNCHANGED <<clock, billing, sweep>>, overlapped' = (overlapped \/ ~ NobodyElse(h)),
           Fresh(r, Unpaid, invoices), ~ overlapped'
    PROVE  Undisturbed'
<1>1. Undisturbed /\ sweep = Resting /\ \A g \in Handlers \ {h} : req[g].kind = "idle"
  <2>1. ~ overlapped /\ NobodyElse(h)
    BY Zenon
  <2>2. \A g \in Handlers \ {h} : req[g].kind = "idle"
    BY <2>1 DEF NobodyElse, Idle
  <2> QED BY <2>1, <2>2, Zenon DEF NobodyElse, SerialInv
<1>2. RowsAgree
  BY RowsAsTheyAre DEF billing
<1>3. Unpaid' = Unpaid
  BY <1>2 DEF RowsAgree
<1>4. Alone' /\ FreshRequests' /\ FreshSweep'
  BY <1>1, <1>3, GoesOnAlone DEF IInv, billing
<1>5. UnpaidAhead'
  BY <1>1, <1>2, AheadStays DEF Undisturbed, billing
<1>6. crashes' = 0 => WarnedInOrder'
  BY <1>1, <1>2, WarnedStays DEF Undisturbed, billing, clock, Marking
<1> QED BY <1>4, <1>5, <1>6 DEF Undisturbed

\* A request that had begun goes on with r.
LEMMA CommitsAlone ==
    ASSUME IInv, Undisturbed, NEW h \in Handlers, NEW r, req[h].kind # "idle", Continue(h, r),
           UNCHANGED <<clock, sweep, warned>>, Fresh(r, Unpaid', invoices'), UnpaidAhead',
           WarnedInOrder => WarnedInOrder'
    PROVE  Undisturbed'
<1>1. sweep = Resting /\ \A g \in Handlers \ {h} : req[g].kind = "idle"
  BY OthersWait DEF Undisturbed
<1>2. Alone' /\ FreshRequests' /\ FreshSweep'
  BY <1>1, GoesOnAlone DEF IInv
<1> QED BY <1>2 DEF Undisturbed, clock

-----------------------------------------------------------------------------
(* The steps, one actor at a time.                                         *)

\* What a request has checked as it begins.
LEMMA RequestsAlone ==
    ASSUME IInv, SerialInv, NEW h \in Handlers, Request(h), ~ overlapped'
    PROVE  Undisturbed'
<1>1. ASSUME NEW r, Begin(h, r), Fresh(r, Unpaid, invoices) PROVE Undisturbed'
  BY <1>1, BeginsAlone DEF Begin
<1>2. ASSUME NEW to, NEW announce, Review(h, to, announce) PROVE Undisturbed'
  BY <1>1, <1>2 DEF Review, Fresh
<1>3. ASSUME NEW accepting, SetAcceptingOrders(h, accepting) PROVE Undisturbed'
  BY <1>1, <1>3 DEF SetAcceptingOrders, Fresh
<1>4. ASSUME NEW day, OnApproved(h, day) PROVE Undisturbed'
  <2> DEFINE r == IF subscription # NULL THEN Idle ELSE [kind |-> "open", start |-> day]
  <2>1. Fresh(r, Unpaid, invoices)
    BY IdleIsFresh DEF Fresh
  <2>2. Continue(h, r)
    BY <1>4 DEF OnApproved
  <2> HIDE DEF r
  <2> QED BY <1>4, <2>1, <2>2, BeginsAlone DEF OnApproved
<1>5. ASSUME NEW i, SubmitTransfer(h, i) \/ RejectTransfer(h, i) PROVE Undisturbed'
  BY <1>1, <1>5 DEF SubmitTransfer, RejectTransfer, Fresh, Open, Unpaid, ACTIONABLE
<1>6. ASSUME NEW i, NEW as, Settle(h, i, as) PROVE Undisturbed'
  <2>1. i \in Unpaid /\ invoices[i].start \in Nat /\ today \in Nat
    BY <1>6 DEF Settle, Unpaid, IInv, TablesTyped, InvoiceRows, Raised
  <2>2. /\ renewalPeriod(invoices[i].start, today) >= invoices[i].start
        /\ renewalPeriod(invoices[i].start, today) >= today
    BY <2>1 DEF renewalPeriod
  <2> QED BY <1>1, <1>6, <2>1, <2>2 DEF Settle, Fresh
<1>7. ASSUME NEW amount, SetMonthlyFee(h, amount) PROVE Undisturbed'
  <2> DEFINE r == IF ToReprice = NULL THEN Idle
                  ELSE [kind |-> "reprice", invoice |-> ToReprice, amount |-> amount]
  <2>1. Fresh(r, Unpaid, invoices)
    BY IdleIsFresh DEF Fresh
  <2>2. Continue(h, r)
    BY <1>7 DEF SetMonthlyFee
  <2> HIDE DEF r
  <2> QED BY <1>7, <2>1, <2>2, BeginsAlone DEF SetMonthlyFee
<1> QED BY <1>2, <1>3, <1>4, <1>5, <1>6, <1>7 DEF Request

\* A request that writes no invoice, or the same month of one.
LEMMA WritesAlone ==
    ASSUME IInv, Undisturbed, NEW h \in Handlers, req[h].kind # "idle", NEW r, Continue(h, r),
           Fresh(r, Unpaid, invoices'), UNCHANGED <<clock, sweep, warned, subscription>>, RowsAgree
    PROVE  Undisturbed'
<1>1. UnpaidAhead'
  BY AheadStays DEF Undisturbed
<1>2. WarnedInOrder => WarnedInOrder'
  BY WarnedStays DEF Marking
<1>3. Unpaid' = Unpaid
  BY DEF RowsAgree
<1> QED BY <1>1, <1>2, <1>3, CommitsAlone

LEMMA ListingAlone ==
    ASSUME IInv, Undisturbed, NEW h \in Handlers,
           CommitStatus(h) \/ CommitAccepting(h) \/ ReadToSettle(h)
    PROVE  Undisturbed'
<1>1. /\ req[h].kind # "idle" /\ RowsAgree
      /\ UNCHANGED <<clock, sweep, warned, subscription, invoices>>
  BY RowsAsTheyAre DEF CommitStatus, CommitAccepting, ReadToSettle, billing
<1>2. CASE Continue(h, Idle)
  BY <1>1, <1>2, WritesAlone, IdleIsFresh
<1>3. CASE ReadToSettle(h) /\ ~ Continue(h, Idle)
  <2> DEFINE r == [kind |-> "settling", invoice |-> req[h].invoice, as |-> req[h].as,
                   day |-> req[h].day, start |-> req[h].start,
                   byBilling |-> subscription.byBilling,
                   before |-> subscription.before]
  <2>1. Continue(h, r)
    BY <1>3 DEF ReadToSettle, Finish
  <2>2. Fresh(req[h], Unpaid, invoices) /\ req[h].kind = "settle"
    BY <1>3 DEF Undisturbed, FreshRequests, ReadToSettle
  <2>3. Fresh(r, Unpaid, invoices')
    BY <1>1, <2>2 DEF Fresh
  <2> HIDE DEF r
  <2> QED BY <1>1, <2>1, <2>3, WritesAlone
<1> QED BY <1>2, <1>3 DEF CommitStatus, CommitAccepting, Finish

\* A subscription is opened before there is an invoice, and the free month is
\* nothing to be paid.
LEMMA OpeningAlone ==
    ASSUME IInv, Undisturbed, NEW h \in Handlers, OpenSubscription(h)
    PROVE  Undisturbed'
<1>1. req[h].kind # "idle" /\ UNCHANGED <<clock, sweep, warned, invoices>> /\ RowsAgree
  BY RowsAsTheyAre DEF OpenSubscription
<1>2. CASE NoSubscription
  <2> DEFINE r == [req[h] EXCEPT !.kind = "trial"]
  <2>1. CreateSubscription(req[h].start) /\ Continue(h, r)
    BY <1>2 DEF OpenSubscription
  <2>2. Unpaid' = {}
    BY <1>1, <1>2 DEF NoSubscription, IInv, Billed, Unpaid, RowsAgree
  <2>3. UnpaidAhead'
    <3>1. ~ subscription'.byBilling
      BY <2>1 DEF CreateSubscription
    <3> QED BY <2>2, <3>1 DEF UnpaidAhead
  <2>4. WarnedInOrder => WarnedInOrder'
    BY <1>1, WarnedStays DEF Marking
  <2>5. Fresh(r, Unpaid', invoices')
    <3>1. req[h] \in [kind : {"open", "trial"}, start : Nat]
      BY DEF OpenSubscription, IInv, RequestsGrounded, RequestTyped
    <3>2. r.kind = "trial"
      BY <3>1
    <3> HIDE DEF r
    <3> QED BY <3>2 DEF Fresh
  <2> HIDE DEF r
  <2> QED BY <1>1, <2>1, <2>3, <2>4, <2>5, CommitsAlone
<1>3. CASE ~ NoSubscription
  BY <1>1, <1>3, WritesAlone, IdleIsFresh DEF OpenSubscription
<1> QED BY <1>2, <1>3

\* About an invoice that is raised nobody was warned.
LEMMA RaisedUnwarned ==
    ASSUME IInv, RaisedInOrder, RoomFor, NEW row \in InvoiceRows, CreateInvoice(row),
           UNCHANGED warned, ~ Marking, ~ Marking', WarnedInOrder
    PROVE  WarnedInOrder'
<1>1. \A i \in Raised : i \in Raised' /\ Told(i)' = Told(i)
  BY NextIsRaised DEF Told
<1> QED BY <1>1 DEF WarnedInOrder

\* A free month is nothing to be paid.
LEMMA FreeMonthIsPaid ==
    ASSUME IInv, RaisedInOrder, RoomFor, NEW start \in Nat, CreateInvoice(TrialInvoice(start)),
           UNCHANGED subscription, UnpaidAhead
    PROVE  UnpaidAhead'
<1> DEFINE row == TrialInvoice(start)
<1>1. row \in InvoiceRows /\ row.status \notin ACTIONABLE
  BY TrialIsARow DEF TrialInvoice, ACTIONABLE
<1> HIDE DEF row
<1>2. /\ Raised' = Raised \cup {NextInvoice} /\ invoices'[NextInvoice] = row
      /\ NextInvoice \notin Raised /\ \A j \in Raised : invoices'[j] = invoices[j]
  <2>1. CreateInvoice(row)
    BY DEF row
  <2> QED BY <1>1, <2>1, NextIsRaised
<1>3. Unpaid' = Unpaid /\ \A i \in Unpaid : invoices'[i] = invoices[i]
  BY <1>1, <1>2 DEF Unpaid
<1> QED BY <1>3 DEF UnpaidAhead

\* The free month, a review of a transfer, a new fee: one row each.
LEMMA RowsAlone ==
    ASSUME IInv, SerialInv, Undisturbed, NEW h \in Handlers,
           OpenTrial(h) \/ CommitReview(h) \/ RepriceOpenInvoice(h)
    PROVE  Undisturbed'
<1>1. /\ req[h].kind # "idle" /\ Continue(h, Idle)
      /\ UNCHANGED <<clock, sweep, warned, subscription>>
  BY DEF OpenTrial, CommitReview, RepriceOpenInvoice, Finish
<1>2. RequestTyped(req[h], Raised, subscription) /\ Fresh(req[h], Unpaid, invoices)
  BY DEF IInv, RequestsGrounded, Undisturbed, FreshRequests
<1>3. CASE OpenTrial(h)
  <2>1. req[h].start \in Nat /\ RoomFor /\ CreateInvoice(TrialInvoice(req[h].start))
    BY <1>2, <1>3 DEF OpenTrial, RequestTyped
  <2>2. UnpaidAhead'
    BY <1>1, <2>1, FreeMonthIsPaid DEF SerialInv, Undisturbed
  <2>3. ~ Marking /\ ~ Marking'
    BY <1>1, OthersWait DEF Undisturbed, Marking, Resting
  <2>4. WarnedInOrder => WarnedInOrder'
    BY <1>1, <2>1, <2>3, TrialIsARow, RaisedUnwarned DEF SerialInv
  <2> QED BY <1>1, <2>2, <2>4, CommitsAlone, IdleIsFresh
<1>4. CASE CommitReview(h)
  <2> DEFINE i == req[h].invoice
             to == IF req[h].kind = "submit" THEN "PENDING_REVIEW" ELSE "OPEN"
             row == [invoices[i] EXCEPT !.status = to]
  <2>1. i \in Unpaid
    BY <1>2, <1>4 DEF CommitReview, Fresh
  <2>2. i \in Raised /\ invoices[i] \in InvoiceRows /\ invoices[i].status \in ACTIONABLE
    BY <2>1, RaisedRow DEF Unpaid
  <2>3. /\ row \in InvoiceRows /\ row.status \in ACTIONABLE
        /\ row.start = invoices[i].start /\ row.last = invoices[i].last
    BY <2>2 DEF InvoiceRows, InvoiceStatuses, ACTIONABLE
  <2>4. invoices' = [invoices EXCEPT ![i] = row]
    BY <1>4 DEF CommitReview
  <2> HIDE DEF row
  <2>5. RowsAgree
    BY <2>2, <2>3, <2>4, RowAgrees
  <2> QED BY <1>1, <2>5, WritesAlone, IdleIsFresh
<1>5. CASE RepriceOpenInvoice(h)
  <2> DEFINE i == req[h].invoice
             row == [invoices[i] EXCEPT !.amount = req[h].amount]
  <2>1. i \in Raised /\ invoices[i] \in InvoiceRows /\ req[h].amount \in Nat
    BY <1>2, <1>5, RaisedRow DEF RepriceOpenInvoice, RequestTyped
  <2>2. /\ row \in InvoiceRows /\ row.status = invoices[i].status
        /\ row.start = invoices[i].start /\ row.last = invoices[i].last
    BY <2>1 DEF InvoiceRows
  <2>3. invoices' = [invoices EXCEPT ![i] = row]
    BY <1>5 DEF RepriceOpenInvoice
  <2> HIDE DEF row
  <2>4. RowsAgree
    BY <2>1, <2>2, <2>3, RowAgrees
  <2> QED BY <1>1, <2>4, WritesAlone, IdleIsFresh
<1> QED BY <1>3, <1>4, <1>5

\* A settlement leaves nothing to be paid, and no closure by billing.
LEMMA SettlingAlone ==
    ASSUME IInv, Undisturbed, NEW h \in Handlers, CommitSettle(h)
    PROVE  Undisturbed'
<1> DEFINE r == req[h]
           i == r.invoice
           row == [[invoices[i] EXCEPT !.status = r.as] EXCEPT !.start = r.start]
<1>1. req[h].kind # "idle" /\ Continue(h, Idle) /\ UNCHANGED <<clock, sweep, warned>>
  BY DEF CommitSettle, Finish
<1>2. i \in Unpaid /\ r.as \in {"PAID", "VOID"} /\ r.start \in Nat
  BY DEF CommitSettle, Undisturbed, FreshRequests, Fresh, IInv, RequestsGrounded, RequestTyped
<1>3. i \in Raised /\ i \in Invoices /\ invoices[i] \in InvoiceRows
  BY <1>2, RaisedRow DEF Unpaid
<1>4. CASE r.as = "PAID" /\ ~ FreshReference(i)
  <2>1. UNCHANGED <<invoices, subscription>>
    BY <1>4 DEF CommitSettle
  <2>2. RowsAgree
    BY <2>1, RowsAsTheyAre
  <2> QED BY <1>1, <2>1, <2>2, WritesAlone, IdleIsFresh
<1>5. CASE ~ (r.as = "PAID" /\ ~ FreshReference(i))
  <2>1. /\ invoices' = [invoices EXCEPT ![i] = row]
        /\ subscription' =
             PaidUp(r.start, IF r.as = "PAID" THEN NULL ELSE subscription.trialEnds)
    BY <1>5 DEF CommitSettle
  <2>2. /\ row \in InvoiceRows /\ row.status \notin ACTIONABLE /\ row.last = invoices[i].last
    BY <1>2, <1>3 DEF InvoiceRows, InvoiceStatuses, ACTIONABLE
  <2> HIDE DEF row
  <2>3. /\ \A j \in Invoices : invoices'[j] = invoices[j] \/ (j = i /\ invoices'[j] = row)
        /\ invoices'[i] = row /\ Raised \subseteq Raised'
    BY <1>3, <2>1, <2>2, RowsStay DEF IInv, TablesTyped
  <2>4. Raised' = Raised
    BY <1>3, <2>3 DEF Raised
  <2>5. Unpaid' = {}
    BY <1>2, <2>2, <2>3, <2>4 DEF Unpaid, Undisturbed, UnpaidAhead, Raised
  <2>6. UnpaidAhead'
    <3>1. ~ subscription'.byBilling
      BY <2>1 DEF PaidUp
    <3> QED BY <2>5, <3>1 DEF UnpaidAhead
  <2>7. WarnedInOrder => WarnedInOrder'
    <3>1. \A j \in Raised : invoices'[j].last = invoices[j].last
      BY <2>2, <2>3 DEF Raised
    <3>2. \A j \in Raised : Told(j)' = Told(j)
      BY <1>1, <3>1 DEF Told, Marking
    <3> QED BY <1>1, <2>4, <3>2 DEF WarnedInOrder
  <2> QED BY <1>1, <2>6, <2>7, CommitsAlone, IdleIsFresh
<1> QED BY <1>4, <1>5

\* Closing and reopening by hand; a vendor who gets more days is warned anew.
LEMMA ByHandAlone ==
    ASSUME IInv, SerialInv, SuspendByAdmin \/ ReinstateByAdmin, ~ overlapped'
    PROVE  Undisturbed'
<1>1. /\ subscription # NULL /\ subscription \in Subscriptions
      /\ UNCHANGED <<clock, req, sweep>>
  BY DEF SuspendByAdmin, ReinstateByAdmin, IInv, TablesTyped
<1>2. Undisturbed /\ sweep = Resting /\ \A h \in Handlers : req[h].kind = "idle"
  <2>1. ~ overlapped /\ Nobody
    BY Zenon DEF SuspendByAdmin, ReinstateByAdmin
  <2>2. \A h \in Handlers : req[h].kind = "idle"
    BY <2>1 DEF Nobody, Idle
  <2> QED BY <2>1, <2>2, Zenon DEF Nobody, SerialInv
<1>3. Alone' /\ FreshRequests' /\ FreshSweep'
  <2>1. FreshSweep'
    BY <1>1, <1>2 DEF FreshSweep, Resting, Marking, WarningLists
  <2> QED BY <1>1, <1>2, <2>1, SweepGoesOnAlone
<1>4. subscription'.paidTo = subscription.paidTo /\ ~ subscription'.byBilling
  <2>1. CASE SuspendByAdmin
    BY <1>1, <2>1 DEF SuspendByAdmin, Subscriptions
  <2>2. CASE ReinstateByAdmin
    <3> DEFINE overdue == \E i \in Open : invoices[i].due <= today
               trialing == subscription.trialEnds # NULL /\ subscription.trialEnds > today
               status == IF overdue THEN "PAST_DUE" ELSE IF trialing THEN "TRIALING"
                           ELSE "ACTIVE"
    <3>1. subscription' = [subscription EXCEPT !.status = status, !.byBilling = FALSE,
                                               !.before = NULL]
      BY <2>2, Zenon DEF ReinstateByAdmin
    <3> HIDE DEF status
    <3> QED BY <1>1, <3>1 DEF Subscriptions
  <2> QED BY <2>1, <2>2
<1>5. RowsAgree /\ UNCHANGED warned => UnpaidAhead' /\ (crashes = 0 => WarnedInOrder')
  BY <1>1, <1>2, <1>4, AheadStays, WarnedStays DEF Undisturbed, Marking
<1>6. ASSUME Open # {}, Extended(CHOOSE i \in Open : \A j \in Open :
                                   invoices[i].due <= invoices[j].due)
      PROVE  UnpaidAhead' /\ (crashes = 0 => WarnedInOrder')
  <2> DEFINE i == CHOOSE k \in Open : \A j \in Open : invoices[k].due <= invoices[j].due
             fresh == today + Max({BILLING_GRACE_DAYS, 1})
             row == [[invoices[i] EXCEPT !.block = fresh] EXCEPT !.last = {}]
  <2>1. i \in Open
    BY <1>6, Earliest DEF IInv, Open
  <2>2. i \in Raised /\ i \in Invoices /\ invoices[i] \in InvoiceRows
    BY <2>1, RaisedRow DEF Open
  <2>3. fresh \in Nat
    BY DaysAssumption DEF Max, IInv, TablesTyped
  <2>4. /\ row \in InvoiceRows /\ row.status = invoices[i].status
        /\ row.start = invoices[i].start /\ row.last = {}
    BY <2>2, <2>3 DEF InvoiceRows
  <2>5. CASE UNCHANGED <<invoices, warned>>
    BY <1>5, <2>5, RowsAsTheyAre
  <2>6. CASE /\ invoices' = [invoices EXCEPT ![i] = row]
             /\ warned' = [warned EXCEPT ![i] = [b \in DOMAIN @ |-> 0]]
    <3> HIDE DEF row, i
    <3>1. /\ \A j \in Invoices : invoices'[j] = invoices[j] \/ (j = i /\ invoices'[j] = row)
          /\ Raised \subseteq Raised'
      BY <2>4, <2>6, RowsStay DEF IInv
    <3>2. Raised' = Raised
      BY <2>2, <3>1 DEF Raised
    <3>3. Unpaid' = Unpaid /\ \A j \in Unpaid : invoices'[j].start = invoices[j].start
      BY <2>4, <3>1, <3>2 DEF Unpaid, Raised
    <3>4. UnpaidAhead'
      BY <1>2, <1>4, <3>3 DEF Undisturbed, UnpaidAhead
    <3>5. ASSUME WarnedInOrder PROVE WarnedInOrder'
      <4>1. \A j \in Invoices \ {i} : warned'[j] = warned[j] /\ invoices'[j] = invoices[j]
        BY <2>6, <3>1 DEF SerialInv, WarnedTyped
      <4>2. \A b \in DOMAIN warned'[i] : warned'[i][b] = 0
        BY <2>2, <2>6 DEF SerialInv, WarnedTyped
      <4>3. \A j \in Invoices \ {i} : Told(j)' = Told(j)
        BY <1>1, <4>1 DEF Told, Marking
      <4> QED BY <3>2, <3>5, <4>1, <4>2, <4>3 DEF WarnedInOrder
    <3> QED BY <1>2, <3>4, <3>5 DEF Undisturbed
  <2> QED BY <1>6, <2>5, <2>6 DEF Extended
<1>7. UnpaidAhead' /\ (crashes = 0 => WarnedInOrder')
  <2>1. CASE UNCHANGED <<invoices, warned>>
    BY <1>5, <2>1, RowsAsTheyAre
  <2> QED BY <1>6, <2>1 DEF SuspendByAdmin, ReinstateByAdmin
<1> QED BY <1>1, <1>3, <1>7 DEF Undisturbed, clock

-----------------------------------------------------------------------------
(* The sweep.                                                              *)

\* The sweep goes on, and every request waits.
LEMMA SweepsAlone ==
    ASSUME Undisturbed, sweep # Resting, UNCHANGED <<clock, req>>,
           FreshSweep', UnpaidAhead', WarnedInOrder => WarnedInOrder'
    PROVE  Undisturbed'
BY SweepAlone, SweepGoesOnAlone DEF Undisturbed, clock

\* It goes on to a stage without a list, and writes no invoice.
LEMMA SweepReadsAlone ==
    ASSUME Undisturbed, sweep # Resting, ~ Marking, ~ Marking', FreshSweep', RowsAgree,
           UNCHANGED <<clock, req, warned, subscription>>
    PROVE  Undisturbed'
BY SweepsAlone, AheadStays, WarnedStays DEF Undisturbed

\* Outside a list there is nothing to be marked.
LEMMA NothingToMark ==
    ASSUME Undisturbed, sweep.stage \notin {"reminding", "overdue"}
    PROVE  ~ Marking
BY DEF Undisturbed, FreshSweep

LEMMA StageIsFresh ==
    ASSUME NEW stage, NEW list, SweepTo(stage, list), stage \notin WarningLists \cup {"issuing"}
    PROVE  FreshSweep' /\ ~ Marking'
BY DEF SweepTo, FreshSweep, Marking

LEMMA BeginsSweeping ==
    ASSUME IInv, SerialInv, BeginSweep, ~ overlapped'
    PROVE  Undisturbed'
<1>1. Undisturbed /\ sweep = Resting /\ \A h \in Handlers : req[h].kind = "idle"
  <2>1. ~ overlapped /\ \A h \in Handlers : req[h] = Idle
    BY Zenon DEF BeginSweep
  <2>2. \A h \in Handlers : req[h].kind = "idle"
    BY <2>1 DEF Idle
  <2> QED BY <2>1, <2>2, Zenon DEF BeginSweep, SerialInv
<1>2. RowsAgree /\ UNCHANGED <<clock, req, warned, subscription>>
  BY RowsAsTheyAre DEF BeginSweep, billing
<1>3. ~ Marking /\ ~ Marking' /\ FreshSweep'
  <2>1. ~ Marking
    BY <1>1 DEF Marking, Resting
  <2>2. SweepTo("backfill", {})
    BY DEF BeginSweep
  <2> QED BY <2>1, <2>2, StageIsFresh DEF WarningLists
<1>4. Alone' /\ FreshRequests'
  BY <1>1, <1>2, SweepGoesOnAlone
<1>5. UnpaidAhead' /\ (crashes' = 0 => WarnedInOrder')
  BY <1>1, <1>2, <1>3, AheadStays, WarnedStays DEF Undisturbed, clock
<1> QED BY <1>3, <1>4, <1>5 DEF Undisturbed

\* A subscription is opened where there is no invoice; its free month is paid.
LEMMA BackfillAlone ==
    ASSUME IInv, SerialInv, Undisturbed, Backfill \/ BackfillSubscription \/ BackfillTrial
    PROVE  Undisturbed'
<1>1. /\ sweep # Resting /\ ~ Marking /\ UNCHANGED <<clock, req, warned>>
  BY NothingToMark DEF Backfill, BackfillSubscription, BackfillTrial, billing, Resting
<1>2. PICK stage \in {"opening", "trial", "issue"} : \E list : SweepTo(stage, list)
  BY DEF Backfill, BackfillSubscription, BackfillTrial
<1>3. FreshSweep' /\ ~ Marking'
  BY <1>2, StageIsFresh DEF WarningLists
<1>4. CASE Backfill \/ (BackfillSubscription /\ ~ NoSubscription)
  <2>1. RowsAgree /\ UNCHANGED subscription
    BY <1>4, RowsAsTheyAre DEF Backfill, BackfillSubscription, billing
  <2> QED BY <1>1, <1>3, <2>1, SweepReadsAlone
<1>5. CASE BackfillSubscription /\ NoSubscription
  <2>1. RowsAgree /\ CreateSubscription(Min(sweep.list))
    BY <1>5, RowsAsTheyAre DEF BackfillSubscription
  <2>2. Unpaid' = {}
    BY <1>5, <2>1 DEF NoSubscription, IInv, Billed, Unpaid, RowsAgree
  <2>3. ~ subscription'.byBilling
    BY <2>1 DEF CreateSubscription
  <2>4. UnpaidAhead'
    BY <2>2, <2>3 DEF UnpaidAhead
  <2>5. WarnedInOrder => WarnedInOrder'
    BY <1>1, <1>3, <2>1, WarnedStays
  <2> QED BY <1>1, <1>3, <2>4, <2>5, SweepsAlone
<1>6. CASE BackfillTrial
  <2>1. PICK d \in Nat : sweep.list = {d}
    BY <1>6 DEF BackfillTrial, IInv, SweepGrounded, SweepTyped
  <2>2. Min({d}) = d
    BY DEF Min
  <2>3. RoomFor /\ CreateInvoice(TrialInvoice(d)) /\ UNCHANGED subscription
    BY <1>6, <2>1, <2>2 DEF BackfillTrial
  <2>4. UnpaidAhead'
    BY <2>3, FreeMonthIsPaid DEF SerialInv, Undisturbed
  <2>5. WarnedInOrder => WarnedInOrder'
    BY <1>1, <1>3, <2>3, TrialIsARow, RaisedUnwarned DEF SerialInv
  <2> QED BY <1>1, <1>3, <2>4, <2>5, SweepsAlone
<1> QED BY <1>4, <1>5, <1>6

\* An invoice is raised when nothing is unpaid, for a month not paid for.
LEMMA IssueAlone ==
    ASSUME IInv, SerialInv, Undisturbed, Issue \/ IssueInvoice
    PROVE  Undisturbed'
<1>1. sweep # Resting /\ ~ Marking /\ UNCHANGED <<clock, req, warned, subscription>>
  BY NothingToMark DEF Issue, IssueInvoice, billing, Resting
<1>2. CASE Issue
  <2>1. RowsAgree
    BY <1>2, RowsAsTheyAre DEF Issue, billing
  <2>2. FreshSweep' /\ ~ Marking'
    <3>1. CASE SweepTo("remind", {})
      BY <3>1, StageIsFresh DEF WarningLists
    <3>2. CASE NeedsInvoice /\ SweepTo("issuing", {FeeInvoice})
      <4>1. subscription \in Subscriptions
        BY <3>2 DEF NeedsInvoice, IInv, TablesTyped
      <4>2. FeeInvoice.start = subscription.paidTo /\ subscription.paidTo \in Nat
        BY <4>1 DEF FeeInvoice, periodFrom, Subscriptions
      <4>3. Unpaid = {}
        <5>1. \A i \in Unpaid : invoices[i].start \in Nat
          BY DEF Unpaid, Raised, IInv, TablesTyped, InvoiceRows
        <5>2. \A i \in Unpaid : /\ invoices[i].start < subscription.paidTo
                                /\ invoices[i].start >= subscription.paidTo
          BY <3>2 DEF NeedsInvoice, Undisturbed, UnpaidAhead, Unpaid
        <5> QED BY <4>2, <5>1, <5>2
      <4>4. /\ Unpaid' = {} /\ subscription'.paidTo = subscription.paidTo
            /\ sweep' = [stage |-> "issuing", list |-> {FeeInvoice}]
        BY <1>1, <2>1, <3>2, <4>3 DEF RowsAgree, SweepTo
      <4>5. \A row \in sweep'.list : row.start >= subscription'.paidTo
        BY <4>2, <4>4
      <4>6. ~ Marking'
        BY <4>4 DEF Marking
      <4> QED BY <4>4, <4>5, <4>6 DEF FreshSweep, WarningLists
    <3> QED BY <1>2, <3>1, <3>2 DEF Issue
  <2> QED BY <1>1, <2>1, <2>2, SweepReadsAlone
<1>3. CASE IssueInvoice
  <2>1. PICK row \in sweep.list : CreateInvoice(row) /\ RoomFor /\ SweepTo("remind", {})
    BY <1>3 DEF IssueInvoice
  <2>2. row \in InvoiceRows /\ row.status = "OPEN"
    BY <1>3 DEF IssueInvoice, IInv, SweepGrounded, SweepTyped, OpenRows
  <2>3. Unpaid = {} /\ row.start >= subscription.paidTo
    BY <1>3 DEF IssueInvoice, Undisturbed, FreshSweep
  <2>4. FreshSweep' /\ ~ Marking'
    BY <2>1, StageIsFresh DEF WarningLists
  <2>5. /\ Raised' = Raised \cup {NextInvoice} /\ invoices'[NextInvoice] = row
        /\ NextInvoice \notin Raised /\ \A j \in Raised : invoices'[j] = invoices[j]
    BY <2>1, <2>2, NextIsRaised DEF SerialInv
  <2>6. Unpaid' = {NextInvoice}
    BY <2>2, <2>3, <2>5 DEF Unpaid, ACTIONABLE
  <2>7. UnpaidAhead'
    BY <1>1, <2>3, <2>5, <2>6 DEF UnpaidAhead
  <2>8. WarnedInOrder => WarnedInOrder'
    BY <1>1, <2>1, <2>2, <2>4, RaisedUnwarned DEF SerialInv
  <2> QED BY <1>1, <2>4, <2>7, <2>8, SweepsAlone
<1> QED BY <1>2, <1>3

\* The rows of a list are read as they are.
LEMMA ListsAlone ==
    ASSUME IInv, Undisturbed, ReadList \/ ListDone
    PROVE  Undisturbed'
<1>1. sweep # Resting /\ RowsAgree /\ UNCHANGED <<clock, req, warned, subscription, invoices>>
  BY RowsAsTheyAre DEF ReadList, ListDone, billing, Resting
<1>2. CASE ReadList
  <2>1. PICK stage \in WarningLists, ids \in SUBSET Open : SweepTo(stage, Listed(ids))
    BY <1>2 DEF ReadList, WarningLists
  <2>2. \A row \in Listed(ids) : row.invoice \in Open /\ row = Entry(row.invoice)
    BY DEF Listed, Entry
  <2>3. Open' = Open /\ \A i : Entry(i)' = Entry(i)
    BY <1>1 DEF Open, Raised, Entry
  <2>4. /\ sweep'.stage \in WarningLists /\ sweep'.list = Listed(ids) /\ ~ Marking'
    BY <2>1 DEF SweepTo, Marking
  <2>5. FreshSweep'
    BY <2>2, <2>3, <2>4 DEF FreshSweep, WarningLists
  <2>6. ~ Marking
    BY <1>2, NothingToMark DEF ReadList
  <2> QED BY <1>1, <2>4, <2>5, <2>6, SweepReadsAlone
<1>3. CASE ListDone
  <2>1. ~ Marking
    BY <1>3 DEF ListDone, Undisturbed, FreshSweep
  <2>2. PICK stage \in {"past-due", "suspend", "resting"} : SweepTo(stage, {})
    BY <1>3 DEF ListDone, SweepTo, Resting
  <2>3. FreshSweep' /\ ~ Marking'
    BY <2>2, StageIsFresh DEF WarningLists
  <2> QED BY <1>1, <2>1, <2>3, SweepReadsAlone
<1> QED BY <1>2, <1>3

\* A warning about a row that is as it was read, tighter than the last one.
LEMMA WarnsInOrder ==
    ASSUME SerialInv, ~ Marking, WarnedInOrder, UNCHANGED invoices,
           NEW row, row.invoice \in Raised, row.last = invoices[row.invoice].last,
           NEW k \in Nat, Warn(row, k), \A m \in Nat : row.last = {m} => k < m
    PROVE  WarnedInOrder'
<1> DEFINE i == row.invoice
<1>1. /\ warned' = [warned EXCEPT ![i][k] = @ + 1]
      /\ sweep' = [stage |-> sweep.stage, list |-> sweep.list, row |-> row, bucket |-> k]
  BY DEF Warn
<1>2. /\ i \in Invoices /\ Raised' = Raised
      /\ warned \in [Invoices -> [REMINDER_LEAD_DAYS \cup {PAST_DUE_MARKER} -> Nat]]
  BY DEF Raised, SerialInv, WarnedTyped
<1>3. Marking' /\ sweep'.row = row /\ sweep'.bucket = k
  BY <1>1 DEF Marking
<1>4. ASSUME NEW j \in Invoices, j # i
      PROVE  warned'[j] = warned[j] /\ Told(j)' = Told(j)
  BY <1>1, <1>2, <1>3, <1>4 DEF Told
<1>5. Told(i)' = {k} /\ Told(i) = row.last
  BY <1>3 DEF Told
<1>6. DOMAIN warned'[i] = DOMAIN warned[i]
  BY <1>1, <1>2
<1>7. ASSUME NEW b \in DOMAIN warned[i]
      PROVE  warned'[i][b] \in {0, 1} /\ (warned'[i][b] = 1 => k <= b)
  <2>1. b \in Nat
    <3>1. warned[i] \in [REMINDER_LEAD_DAYS \cup {PAST_DUE_MARKER} -> Nat]
      BY <1>2
    <3> HIDE DEF i
    <3>2. b \in REMINDER_LEAD_DAYS \cup {PAST_DUE_MARKER}
      BY <3>1
    <3> QED BY <3>2, DaysAssumption DEF PAST_DUE_MARKER
  <2>2. /\ warned[i][b] \in {0, 1}
        /\ warned[i][b] = 1 => \E m \in Nat : row.last = {m} /\ m <= b
    BY <1>2, <1>5 DEF WarnedInOrder
  <2>3. warned[i][b] = 1 => k < b
    BY <2>1, <2>2
  <2>4. CASE b = k
    BY <1>1, <1>2, <2>1, <2>2, <2>3, <2>4
  <2>5. CASE b # k
    BY <1>1, <1>2, <2>1, <2>2, <2>3, <2>5
  <2> QED BY <2>4, <2>5
<1> HIDE DEF i
<1>8. i \in Raised
  BY DEF i
<1>9. \A b \in DOMAIN warned'[i] :
        /\ warned'[i][b] \in {0, 1}
        /\ warned'[i][b] = 1 => i \in Raised' /\ \E m \in Nat : Told(i)' = {m} /\ m <= b
  BY <1>2, <1>5, <1>6, <1>7, <1>8
<1> QED BY <1>2, <1>4, <1>9 DEF WarnedInOrder

\* The rows of a list that is read stay as they are while none is written.
LEMMA ListStaysFresh ==
    ASSUME Undisturbed, sweep.stage \in WarningLists, UNCHANGED invoices,
           sweep'.stage = sweep.stage, sweep'.list \subseteq sweep.list,
           Marking' => sweep'.row \in sweep'.list /\ sweep'.stage \in {"reminding", "overdue"}
    PROVE  FreshSweep'
<1>1. Open' = Open /\ \A i : Entry(i)' = Entry(i)
  BY DEF Open, Raised, Entry
<1> QED BY <1>1 DEF Undisturbed, FreshSweep, WarningLists

\* A row of a list is that of an open invoice.
LEMMA ListedIsOpen ==
    ASSUME Undisturbed, sweep.stage \in WarningLists, NEW row \in sweep.list
    PROVE  /\ row.invoice \in Raised /\ row.invoice \in Unpaid
           /\ row = Entry(row.invoice) /\ row.last = invoices[row.invoice].last
<1>1. row.invoice \in Open /\ row = Entry(row.invoice)
  BY DEF Undisturbed, FreshSweep
<1> QED BY <1>1 DEF Open, Unpaid, ACTIONABLE, Entry

LEMMA RemindAlone ==
    ASSUME IInv, SerialInv, Undisturbed, NEW row \in sweep.list, Remind(row)
    PROVE  Undisturbed'
<1> DEFINE windows == {lead \in REMINDER_LEAD_DAYS : row.due - today <= lead}
           bucket == shouldRemind(row.due, today, row.last)
<1>1. /\ sweep.stage \in WarningLists /\ sweep.stage = "reminding" /\ sweep # Resting /\ ~ Marking
      /\ UNCHANGED <<clock, req, invoices, subscription>>
  BY DEF Remind, WarningLists, Resting
<1>2. RowsAgree /\ row.invoice \in Raised /\ row.last = invoices[row.invoice].last
  BY <1>1, RowsAsTheyAre, ListedIsOpen
<1>3. CASE bucket = {}
  <2>1. SweepTo("reminding", sweep.list \ {row}) /\ UNCHANGED warned
    BY <1>3 DEF Remind
  <2>2. ~ Marking' /\ sweep'.stage = sweep.stage /\ sweep'.list \subseteq sweep.list
    BY <1>1, <2>1 DEF SweepTo, Marking
  <2>3. FreshSweep'
    BY <1>1, <2>2, ListStaysFresh
  <2> QED BY <1>1, <1>2, <2>1, <2>2, <2>3, SweepReadsAlone
<1>4. CASE bucket # {}
  <2>1. Min(bucket) \in Nat /\ Min(bucket) \in bucket
    <3>1. windows \subseteq Nat
      BY DaysAssumption
    <3>2. windows # {} /\ bucket \subseteq {Min(windows)}
      BY <1>4 DEF shouldRemind, reminderBucket
    <3>3. bucket \subseteq Nat
      BY <3>1, <3>2, MinIsMember
    <3> HIDE DEF bucket
    <3> QED BY <1>4, <3>3, MinIsMember
  <2>2. \A m \in Nat : row.last = {m} => Min(bucket) < m
    <3>1. \A m \in Nat : Min({m}) = m
      BY DEF Min
    <3>2. row.last = {} \/ Min(bucket) < Min(row.last)
      <4>1. \A b \in bucket : row.last = {} \/ b < Min(row.last)
        BY DEF shouldRemind
      <4> HIDE DEF bucket
      <4> QED BY <2>1, <4>1
    <3> HIDE DEF bucket
    <3> QED BY <3>1, <3>2
  <2>3. Warn(row, Min(bucket))
    BY <1>4 DEF Remind
  <2> HIDE DEF bucket
  <2>4. sweep'.stage = sweep.stage /\ sweep'.list = sweep.list /\ sweep'.row = row
    BY <2>3 DEF Warn
  <2>5. FreshSweep'
    BY <1>1, <2>4, ListStaysFresh
  <2>6. UnpaidAhead'
    BY <1>1, <1>2, AheadStays DEF Undisturbed
  <2>7. WarnedInOrder => WarnedInOrder'
    BY <1>1, <1>2, <2>1, <2>2, <2>3, WarnsInOrder
  <2> QED BY <1>1, <2>5, <2>6, <2>7, SweepsAlone
<1> QED BY <1>3, <1>4

\* The last warning is given once; a subscription stays paid for as far as it was.
LEMMA PastDueAlone ==
    ASSUME IInv, SerialInv, Undisturbed, NEW row \in sweep.list, MarkPastDue(row)
    PROVE  Undisturbed'
<1>1. /\ sweep.stage \in WarningLists /\ sweep.stage = "overdue" /\ sweep # Resting /\ ~ Marking
      /\ UNCHANGED <<clock, req, invoices>>
  BY DEF MarkPastDue, WarningLists, Resting
<1>2. /\ RowsAgree /\ row.invoice \in Raised /\ row.last = invoices[row.invoice].last
      /\ row.invoice \in Unpaid
  BY <1>1, RowsAsTheyAre, ListedIsOpen
<1>3. UnpaidAhead'
  <2>1. subscription \in Subscriptions
    BY <1>2, RaisedRow DEF IInv, TablesTyped
  <2>2. /\ subscription'.paidTo = subscription.paidTo
        /\ subscription'.byBilling = subscription.byBilling
    BY <2>1 DEF MarkPastDue, Subscriptions
  <2> QED BY <1>2, <2>2, AheadStays DEF Undisturbed
<1>4. CASE row.last = {PAST_DUE_MARKER}
  <2>1. SweepTo("overdue", sweep.list \ {row}) /\ UNCHANGED warned
    BY <1>4 DEF MarkPastDue
  <2>2. ~ Marking' /\ sweep'.stage = sweep.stage /\ sweep'.list \subseteq sweep.list
    BY <1>1, <2>1 DEF SweepTo, Marking
  <2>3. FreshSweep'
    BY <1>1, <2>2, ListStaysFresh
  <2>4. WarnedInOrder => WarnedInOrder'
    BY <1>1, <1>2, <2>1, <2>2, WarnedStays
  <2> QED BY <1>1, <1>3, <2>3, <2>4, SweepsAlone
<1>5. CASE row.last # {PAST_DUE_MARKER}
  <2>1. Warn(row, PAST_DUE_MARKER)
    BY <1>5 DEF MarkPastDue
  <2>2. sweep'.stage = sweep.stage /\ sweep'.list = sweep.list /\ sweep'.row = row
    BY <2>1 DEF Warn
  <2>3. FreshSweep'
    BY <1>1, <2>2, ListStaysFresh
  <2>4. PAST_DUE_MARKER \in Nat /\ \A m \in Nat : row.last = {m} => PAST_DUE_MARKER < m
    BY <1>5 DEF PAST_DUE_MARKER
  <2>5. WarnedInOrder => WarnedInOrder'
    BY <1>1, <1>2, <2>1, <2>4, WarnsInOrder
  <2> QED BY <1>1, <1>3, <2>3, <2>5, SweepsAlone
<1> QED BY <1>4, <1>5

\* What billing closes, it closes over an invoice that is open.
LEMMA ClosureAlone ==
    ASSUME IInv, SerialInv, Undisturbed, NEW row \in sweep.list, SuspendForNonPayment(row)
    PROVE  Undisturbed'
<1>1. /\ sweep.stage \in WarningLists /\ sweep.stage = "closing" /\ sweep # Resting /\ ~ Marking
      /\ UNCHANGED <<clock, req, invoices, warned>>
  BY NothingToMark DEF SuspendForNonPayment, WarningLists, Resting
<1>2. RowsAgree /\ row.invoice \in Unpaid /\ row.invoice \in Raised
  BY <1>1, RowsAsTheyAre, ListedIsOpen
<1>3. UnpaidAhead'
  <2>1. subscription \in Subscriptions
    BY <1>2, RaisedRow DEF IInv, TablesTyped
  <2>2. subscription'.paidTo = subscription.paidTo
    BY <2>1 DEF SuspendForNonPayment, Subscriptions
  <2> QED BY <1>2, <2>2, AheadStays DEF Undisturbed
<1>4. SweepTo("closing", sweep.list \ {row})
  BY DEF SuspendForNonPayment
<1>5. ~ Marking' /\ sweep'.stage = sweep.stage /\ sweep'.list \subseteq sweep.list
  BY <1>1, <1>4 DEF SweepTo, Marking
<1>6. FreshSweep'
  BY <1>1, <1>5, ListStaysFresh
<1>7. WarnedInOrder => WarnedInOrder'
  BY <1>1, <1>2, <1>5, WarnedStays
<1> QED BY <1>1, <1>3, <1>6, <1>7, SweepsAlone

\* A warning is marked on its invoice, and the other rows are of other ones.
LEMMA MarkingAlone ==
    ASSUME IInv, SerialInv, Undisturbed, MarkReminderSent
    PROVE  Undisturbed'
<1>0. PICK i : i = sweep.row.invoice
  OBVIOUS
<1> DEFINE row == [invoices[i] EXCEPT !.last = {sweep.bucket}]
<1>1. /\ Marking /\ SweepTo(sweep.stage, sweep.list \ {sweep.row})
      /\ UNCHANGED <<clock, req, warned, subscription>>
  BY DEF MarkReminderSent
<1>2. /\ sweep.row \in sweep.list /\ sweep.stage \in {"reminding", "overdue"}
      /\ sweep.stage \in WarningLists /\ sweep # Resting
  BY <1>1 DEF Undisturbed, FreshSweep, WarningLists, Resting
<1>3. i \in Open /\ i \in Raised /\ sweep.row = Entry(i)
  BY <1>0, <1>2 DEF Undisturbed, FreshSweep, Open
<1>4. i \in Invoices /\ invoices[i] \in InvoiceRows /\ subscription # NULL
  BY <1>3, RaisedRow
<1>5. sweep.bucket \in Nat
  BY <1>1 DEF Marking, IInv, SweepGrounded, SweepTyped
<1>6. /\ row \in InvoiceRows /\ row.status = invoices[i].status /\ row.start = invoices[i].start
      /\ row.due = invoices[i].due /\ row.last = {sweep.bucket}
  BY <1>4, <1>5 DEF InvoiceRows
<1>7. invoices' = [invoices EXCEPT ![i] = row]
  BY <1>0 DEF MarkReminderSent
<1> HIDE DEF row
<1>8. /\ \A j \in Invoices : invoices'[j] = invoices[j] \/ (j = i /\ invoices'[j] = row)
      /\ invoices'[i] = row /\ \A j \in Invoices \ {i} : invoices'[j] = invoices[j]
      /\ Raised \subseteq Raised'
  BY <1>4, <1>6, <1>7, RowsStay DEF IInv, TablesTyped
<1>9. Raised' = Raised
  BY <1>3, <1>8 DEF Raised
<1>10. Open' = Open /\ Unpaid' = Unpaid /\ \A j \in Unpaid : invoices'[j].start = invoices[j].start
  BY <1>6, <1>8, <1>9 DEF Open, Unpaid, Raised
<1>11. UnpaidAhead'
  BY <1>1, <1>10 DEF Undisturbed, UnpaidAhead
<1>12. /\ sweep'.stage = sweep.stage /\ sweep'.list = sweep.list \ {sweep.row} /\ ~ Marking'
  BY <1>1 DEF SweepTo, Marking
<1>13. FreshSweep'
  <2>1. ASSUME NEW r \in sweep'.list
        PROVE  r.invoice \in Open' /\ r = Entry(r.invoice)'
    <3>1. r \in sweep.list /\ r # sweep.row
      BY <1>12
    <3>2. r.invoice \in Open /\ r = Entry(r.invoice)
      BY <1>2, <3>1 DEF Undisturbed, FreshSweep
    <3>3. r.invoice # i
      BY <1>3, <3>1, <3>2
    <3>4. invoices'[r.invoice] = invoices[r.invoice]
      BY <1>8, <3>2, <3>3 DEF Open, Raised
    <3> QED BY <1>10, <3>2, <3>4 DEF Entry
  <2> QED BY <1>2, <1>12, <2>1 DEF FreshSweep, WarningLists
<1>14. WarnedInOrder => WarnedInOrder'
  <2>1. \A j \in Invoices : Told(j)' = Told(j)
    <3>1. Told(i)' = {sweep.bucket} /\ Told(i) = {sweep.bucket}
      BY <1>0, <1>1, <1>6, <1>8, <1>12 DEF Told
    <3>2. \A j \in Invoices \ {i} : Told(j)' = Told(j)
      BY <1>0, <1>8, <1>12 DEF Told
    <3> QED BY <3>1, <3>2
  <2> QED BY <1>1, <1>9, <2>1 DEF WarnedInOrder
<1> QED BY <1>1, <1>2, <1>11, <1>13, <1>14, SweepsAlone

\* A day passes; or everything under way is forgotten.
LEMMA TimeAlone ==
    ASSUME IInv, SerialInv, Undisturbed, Tick \/ Crash
    PROVE  Undisturbed'
<1>1. RowsAgree /\ UNCHANGED <<warned, subscription, invoices>>
  BY RowsAsTheyAre DEF Tick, Crash, billing
<1>2. UnpaidAhead'
  BY <1>1, AheadStays DEF Undisturbed
<1>3. CASE Tick
  <2>1. UNCHANGED <<req, sweep, crashes>>
    BY <1>3 DEF Tick
  <2>2. Alone' /\ FreshRequests'
    BY <1>1, <2>1 DEF Undisturbed, Alone, FreshRequests, Fresh, RowsAgree
  <2>3. FreshSweep'
    <3>1. Open' = Open /\ \A i : Entry(i)' = Entry(i)
      BY <1>1 DEF Open, Raised, Entry
    <3> QED BY <1>1, <2>1, <3>1 DEF Undisturbed, FreshSweep, Marking, RowsAgree
  <2>4. WarnedInOrder => WarnedInOrder'
    BY <1>1, <2>1, WarnedStays DEF Marking
  <2> QED BY <1>2, <2>1, <2>2, <2>3, <2>4 DEF Undisturbed
<1>4. CASE Crash
  <2>1. /\ sweep' = Resting /\ crashes' = crashes + 1
        /\ \A h \in Handlers : req'[h].kind = "idle"
    BY <1>4 DEF Crash, Idle
  <2>2. Alone' /\ FreshRequests' /\ FreshSweep'
    BY <2>1 DEF Alone, FreshRequests, Fresh, FreshSweep, Resting, Marking, WarningLists
  <2>3. crashes' # 0
    BY <2>1 DEF SerialInv
  <2> QED BY <1>2, <2>2, <2>3 DEF Undisturbed
<1> QED BY <1>3, <1>4

-----------------------------------------------------------------------------
(* What every step keeps, disturbed or not.                                *)

\* Rewriting an invoice raises none.
LEMMA RewritingRaisesNone ==
    ASSUME IInv, NEW i \in Raised, invoices'[i].status # "none",
           \A j \in Invoices \ {i} : invoices'[j] = invoices[j]
    PROVE  Raised' = Raised
BY DEF Raised, NoInvoice

LEMMA OrderStays ==
    ASSUME IInv, SerialInv, Next
    PROVE  RaisedInOrder'
<1>1. ASSUME Raised' = Raised PROVE RaisedInOrder'
  BY <1>1 DEF SerialInv, RaisedInOrder
<1>2. ASSUME UNCHANGED invoices PROVE RaisedInOrder'
  BY <1>1, <1>2 DEF Raised
<1>3. ASSUME NEW row \in InvoiceRows, RoomFor, CreateInvoice(row) PROVE RaisedInOrder'
  BY <1>3, NextIsRaised DEF SerialInv
<1>4. ASSUME NEW i \in Raised, NEW row, row.status # "none",
             invoices' = [invoices EXCEPT ![i] = row]
      PROVE  RaisedInOrder'
  <2>1. invoices'[i] = row /\ \A j \in Invoices \ {i} : invoices'[j] = invoices[j]
    BY <1>4 DEF IInv, TablesTyped, Raised
  <2> QED BY <1>1, <1>4, <2>1, RewritingRaisesNone
<1>5. ASSUME NEW i \in Raised
      PROVE  invoices[i] \in InvoiceRows /\ invoices[i].status # "none"
  BY <1>5, RaisedRow DEF InvoiceRows, InvoiceStatuses
<1>6. ASSUME NEW h \in Handlers, Commit(h) PROVE RaisedInOrder'
  <2>1. RequestTyped(req[h], Raised, subscription)
    BY DEF IInv, RequestsGrounded
  <2>2. CASE OpenTrial(h)
    <3>1. TrialInvoice(req[h].start) \in InvoiceRows
      BY <2>1, <2>2, TrialIsARow DEF OpenTrial, RequestTyped
    <3> QED BY <1>3, <2>2, <3>1 DEF OpenTrial
  <2>3. CASE CommitReview(h)
    <3> DEFINE i == req[h].invoice
               to == IF req[h].kind = "submit" THEN "PENDING_REVIEW" ELSE "OPEN"
               row == [invoices[i] EXCEPT !.status = to]
    <3>1. i \in Raised
      BY <2>1, <2>3 DEF CommitReview, RequestTyped
    <3>2. row.status # "none"
      BY <1>5, <3>1 DEF InvoiceRows
    <3>3. invoices' = [invoices EXCEPT ![i] = row]
      BY <2>3 DEF CommitReview
    <3> HIDE DEF row
    <3> QED BY <1>4, <3>1, <3>2, <3>3
  <2>4. CASE CommitSettle(h)
    <3> DEFINE i == req[h].invoice
               row == [[invoices[i] EXCEPT !.status = req[h].as] EXCEPT !.start = req[h].start]
    <3>1. i \in Raised /\ req[h].as \in {"PAID", "VOID"}
      BY <2>1, <2>4 DEF CommitSettle, RequestTyped
    <3>2. row.status # "none"
      BY <1>5, <3>1 DEF InvoiceRows
    <3>3. UNCHANGED invoices \/ invoices' = [invoices EXCEPT ![i] = row]
      BY <2>4 DEF CommitSettle
    <3> HIDE DEF row
    <3> QED BY <1>2, <1>4, <3>1, <3>2, <3>3
  <2>5. CASE RepriceOpenInvoice(h)
    <3> DEFINE i == req[h].invoice
               row == [invoices[i] EXCEPT !.amount = req[h].amount]
    <3>1. i \in Raised
      BY <2>1, <2>5 DEF RepriceOpenInvoice, RequestTyped
    <3>2. row.status # "none"
      BY <1>5, <3>1 DEF InvoiceRows
    <3>3. invoices' = [invoices EXCEPT ![i] = row]
      BY <2>5 DEF RepriceOpenInvoice
    <3> HIDE DEF row
    <3> QED BY <1>4, <3>1, <3>2, <3>3
  <2>6. CASE CommitStatus(h) \/ CommitAccepting(h) \/ OpenSubscription(h) \/ ReadToSettle(h)
    BY <1>2, <2>6 DEF CommitStatus, CommitAccepting, OpenSubscription, ReadToSettle, billing
  <2> QED BY <1>6, <2>2, <2>3, <2>4, <2>5, <2>6 DEF Commit
<1>7. ASSUME NEW h \in Handlers, Request(h) PROVE RaisedInOrder'
  <2>1. UNCHANGED billing
    BY <1>7 DEF Request, Review, SetAcceptingOrders, OnApproved, SubmitTransfer, RejectTransfer,
                Settle, SetMonthlyFee, Begin
  <2> QED BY <1>2, <2>1 DEF billing
<1>8. CASE SuspendByAdmin \/ ReinstateByAdmin
  <2>1. ASSUME NEW i \in Open, Extended(i) PROVE RaisedInOrder'
    <3> DEFINE fresh == today + Max({BILLING_GRACE_DAYS, 1})
               row == [[invoices[i] EXCEPT !.block = fresh] EXCEPT !.last = {}]
    <3>1. i \in Raised
      BY <2>1 DEF Open
    <3>2. row.status # "none"
      BY <1>5, <3>1 DEF InvoiceRows
    <3>3. UNCHANGED invoices \/ invoices' = [invoices EXCEPT ![i] = row]
      BY <2>1 DEF Extended
    <3> HIDE DEF row
    <3> QED BY <1>2, <1>4, <3>1, <3>2, <3>3
  <2>2. Open \subseteq Raised
    BY DEF Open
  <2>3. Open # {} =>
          (CHOOSE i \in Open : \A j \in Open : invoices[i].due <= invoices[j].due) \in Open
    BY <2>2, Earliest DEF IInv
  <2> QED BY <1>2, <1>8, <2>1, <2>3 DEF SuspendByAdmin, ReinstateByAdmin
<1>9. CASE SweepNext
  <2>1. CASE BackfillTrial
    <3>1. PICK d \in Nat : sweep.list = {d}
      BY <2>1 DEF BackfillTrial, IInv, SweepGrounded, SweepTyped
    <3>2. Min({d}) = d
      BY DEF Min
    <3> QED BY <1>3, <2>1, <3>1, <3>2, TrialIsARow DEF BackfillTrial
  <2>2. CASE IssueInvoice
    <3>1. sweep.list \subseteq InvoiceRows
      BY <2>2 DEF IssueInvoice, IInv, SweepGrounded, SweepTyped, OpenRows
    <3> QED BY <1>3, <2>2, <3>1 DEF IssueInvoice
  <2>3. CASE MarkReminderSent
    <3> DEFINE i == sweep.row.invoice
               row == [invoices[i] EXCEPT !.last = {sweep.bucket}]
    <3>1. i \in Raised
      BY <2>3 DEF MarkReminderSent, Marking, IInv, SweepGrounded, SweepTyped
    <3>2. row.status # "none"
      BY <1>5, <3>1 DEF InvoiceRows
    <3>3. invoices' = [invoices EXCEPT ![i] = row]
      BY <2>3 DEF MarkReminderSent
    <3> HIDE DEF row
    <3> QED BY <1>4, <3>1, <3>2, <3>3
  <2>4. CASE \/ BeginSweep \/ Backfill \/ BackfillSubscription \/ Issue \/ ReadList \/ ListDone
             \/ \E row \in sweep.list : Remind(row) \/ MarkPastDue(row) \/ SuspendForNonPayment(row)
    BY <1>2, <2>4 DEF BeginSweep, Backfill, BackfillSubscription, Issue, ReadList, ListDone,
                      Remind, MarkPastDue, SuspendForNonPayment, billing
  <2> QED BY <1>9, <2>1, <2>2, <2>3, <2>4 DEF SweepNext
<1>10. CASE Tick \/ Crash
  BY <1>2, <1>10 DEF Tick, Crash, billing
<1> QED BY <1>6, <1>7, <1>8, <1>9, <1>10 DEF Next

\* Warnings are counted, and so are crashes.
LEMMA CountersStay ==
    ASSUME IInv, SerialInv, Next
    PROVE  WarnedTyped' /\ crashes' \in Nat
<1>1. crashes' \in Nat
  <2>1. crashes' = crashes \/ crashes' = crashes + 1
    BY DEF Next, Commit, CommitStatus, CommitAccepting, OpenSubscription, OpenTrial, CommitReview,
           ReadToSettle, CommitSettle, RepriceOpenInvoice, Request, Review, SetAcceptingOrders,
           OnApproved, SubmitTransfer, RejectTransfer, Settle, SetMonthlyFee, Begin,
           SuspendByAdmin, ReinstateByAdmin, SweepNext, BeginSweep, Backfill,
           BackfillSubscription, BackfillTrial, Issue, IssueInvoice, ReadList, ListDone, Remind,
           MarkPastDue, MarkReminderSent, SuspendForNonPayment, Tick, Crash, clock
  <2> QED BY <2>1 DEF SerialInv
<1>2. ASSUME UNCHANGED warned PROVE WarnedTyped'
  BY <1>2 DEF SerialInv, WarnedTyped
<1>3. ASSUME NEW row \in sweep.list, sweep.stage \in WarningLists, NEW k, Warn(row, k)
      PROVE  WarnedTyped'
  <2>1. row.invoice \in Invoices
    BY <1>3 DEF IInv, SweepGrounded, SweepTyped, Rows
  <2>2. warned' = [warned EXCEPT ![row.invoice][k] = warned[row.invoice][k] + 1]
    BY <1>3 DEF Warn
  <2>3. warned[row.invoice] \in [REMINDER_LEAD_DAYS \cup {PAST_DUE_MARKER} -> Nat]
    BY <2>1 DEF SerialInv, WarnedTyped
  <2>4. [warned[row.invoice] EXCEPT ![k] = warned[row.invoice][k] + 1]
          \in [REMINDER_LEAD_DAYS \cup {PAST_DUE_MARKER} -> Nat]
    <3>1. ASSUME NEW D, NEW f \in [D -> Nat] PROVE [f EXCEPT ![k] = f[k] + 1] \in [D -> Nat]
      <4>1. k \in D => f[k] + 1 \in Nat
        BY <3>1
      <4> QED BY <3>1, <4>1
    <3> QED BY <2>3, <3>1
  <2> QED BY <2>1, <2>2, <2>4 DEF SerialInv, WarnedTyped
<1>4. ASSUME NEW i, Extended(i) PROVE WarnedTyped'
  <2>1. CASE UNCHANGED warned
    BY <1>2, <2>1
  <2>2. CASE warned' = [warned EXCEPT ![i] = [b \in DOMAIN @ |-> 0]]
    BY <2>2 DEF SerialInv, WarnedTyped
  <2> QED BY <1>4, <2>1, <2>2 DEF Extended
<1>5. ASSUME ReinstateByAdmin PROVE WarnedTyped'
  BY <1>2, <1>4, <1>5 DEF ReinstateByAdmin
<1>6. ASSUME NEW row \in sweep.list, Remind(row) \/ MarkPastDue(row) PROVE WarnedTyped'
  BY <1>2, <1>3, <1>6 DEF Remind, MarkPastDue, WarningLists
<1>7. ASSUME \/ \E h \in Handlers : Commit(h) \/ Request(h)
             \/ SuspendByAdmin \/ Tick \/ Crash
             \/ BeginSweep \/ Backfill \/ BackfillSubscription \/ BackfillTrial
             \/ Issue \/ IssueInvoice \/ ReadList \/ ListDone \/ MarkReminderSent
             \/ \E row \in sweep.list : SuspendForNonPayment(row)
      PROVE  WarnedTyped'
  <2>1. UNCHANGED warned
    BY <1>7 DEF Commit, CommitStatus, CommitAccepting, OpenSubscription, OpenTrial, CommitReview,
           ReadToSettle, CommitSettle, RepriceOpenInvoice, Request, Review, SetAcceptingOrders,
           OnApproved, SubmitTransfer, RejectTransfer, Settle, SetMonthlyFee, Begin,
           SuspendByAdmin, BeginSweep, Backfill, BackfillSubscription, BackfillTrial, Issue,
           IssueInvoice, ReadList, ListDone, MarkReminderSent, SuspendForNonPayment, Tick, Crash,
           billing
  <2> QED BY <1>2, <2>1
<1> QED BY <1>1, <1>5, <1>6, <1>7 DEF Next, SweepNext

-----------------------------------------------------------------------------
LEMMA StartsSerial == Init => SerialInv
<1> SUFFICES ASSUME Init PROVE SerialInv
  OBVIOUS
<1>1. Raised = {} /\ Unpaid = {} /\ Raised = 1 .. 0
  BY DEF Init, Raised, Unpaid
<1>2. RaisedInOrder /\ WarnedTyped /\ crashes \in Nat
  BY <1>1 DEF Init, RaisedInOrder, WarnedTyped
<1>3. Alone /\ FreshRequests /\ UnpaidAhead
  BY <1>1 DEF Init, Idle, Alone, FreshRequests, Fresh, UnpaidAhead
<1>4. FreshSweep
  BY RestingIsFresh DEF Init
<1>5. WarnedInOrder
  BY DEF Init, WarnedInOrder
<1> QED BY <1>2, <1>3, <1>4, <1>5 DEF SerialInv, Undisturbed

\* Who was once under way with another stays so.
LEMMA OverlapStays ==
    ASSUME Next, ~ overlapped'
    PROVE  ~ overlapped
BY Zenon DEF Next, Commit, CommitStatus, CommitAccepting, OpenSubscription, OpenTrial, CommitReview,
       ReadToSettle, CommitSettle, RepriceOpenInvoice, Request, Review, SetAcceptingOrders,
       OnApproved, SubmitTransfer, RejectTransfer, Settle, SetMonthlyFee, Begin, Finish,
       SuspendByAdmin, ReinstateByAdmin, SweepNext, BeginSweep, Backfill,
       BackfillSubscription, BackfillTrial, Issue, IssueInvoice, ReadList, ListDone, Remind,
       MarkPastDue, MarkReminderSent, SuspendForNonPayment, Tick, Crash, vars

LEMMA StepsSerial == IInv /\ SerialInv /\ [Next]_vars => SerialInv'
<1> SUFFICES ASSUME IInv, SerialInv, [Next]_vars PROVE SerialInv'
  OBVIOUS
<1>1. CASE UNCHANGED vars
  <2>1. RowsAgree
    BY <1>1, RowsAsTheyAre DEF vars
  <2>2. ASSUME Undisturbed PROVE Undisturbed'
    <3>1. UnpaidAhead' /\ (WarnedInOrder => WarnedInOrder')
      BY <1>1, <2>1, <2>2, AheadStays, WarnedStays DEF vars, Undisturbed, Marking
    <3>2. Open' = Open /\ Unpaid' = Unpaid /\ \A i : Entry(i)' = Entry(i)
      BY <1>1, <2>1 DEF vars, Open, Raised, Entry, RowsAgree
    <3>3. Alone' /\ FreshRequests' /\ FreshSweep'
      BY <1>1, <2>2, <3>2 DEF vars, Undisturbed, Alone, FreshRequests, Fresh, FreshSweep, Marking
    <3> QED BY <1>1, <2>2, <3>1, <3>3 DEF vars, Undisturbed
  <2>3. (RaisedInOrder /\ WarnedTyped /\ crashes \in Nat)'
    BY <1>1 DEF vars, SerialInv, RaisedInOrder, WarnedTyped, Raised
  <2>4. overlapped' = overlapped
    BY <1>1 DEF vars
  <2> QED BY <2>2, <2>3, <2>4, Zenon DEF SerialInv
<1>2. CASE Next
  <2>1. (RaisedInOrder /\ WarnedTyped /\ crashes \in Nat)'
    BY <1>2, OrderStays, CountersStay
  <2>2. ASSUME ~ overlapped' PROVE Undisturbed'
    <3>1. Undisturbed
      BY <1>2, <2>2, OverlapStays, Zenon DEF SerialInv
    <3>2. ASSUME NEW h \in Handlers, Commit(h) \/ Request(h) PROVE Undisturbed'
      BY <2>2, <3>1, <3>2, RequestsAlone, ListingAlone, OpeningAlone, RowsAlone, SettlingAlone
         DEF Commit
    <3>3. CASE SweepNext
      BY <2>2, <3>1, <3>3, BeginsSweeping, BackfillAlone, IssueAlone, ListsAlone, MarkingAlone,
         RemindAlone, PastDueAlone, ClosureAlone DEF SweepNext
    <3> QED BY <1>2, <2>2, <3>1, <3>2, <3>3, ByHandAlone, TimeAlone DEF Next
  <2> QED BY <2>1, <2>2, Zenon DEF SerialInv
<1> QED BY <1>1, <1>2

\* However many requests, nights, days and crashes: as long as no two actors
\* were under way at once, what each has read is still so when it writes.
THEOREM SerialInvariance == Spec => []SerialInv
BY Invariance, StartsSerial, StepsSerial, PTL DEF Spec

-----------------------------------------------------------------------------
(* What billing closed.                                                    *)

\* Billing's mark stands wherever billing took the listing down, and on a
\* suspended subscription only.
Marked ==
    /\ listing = [status |-> listing.status, accepting |-> listing.accepting]
    /\ closedBy = "billing" =>
        subscription # NULL /\ subscription.byBilling /\ listing.status = "SUSPENDED"
    /\ subscription # NULL /\ subscription.byBilling => subscription.status = "SUSPENDED"

\* A settlement has read the mark as it is.
MarkRead ==
    \A h \in Handlers :
        req[h].kind = "settling" => req[h].byBilling = subscription.byBilling

\* Whom the sweep is about to close is not suspended yet.
NotClosedTwice ==
    sweep.stage = "closing" /\ sweep.list # {} => subscription.status # "SUSPENDED"

ClosureMarked == ~ overlapped => Marked /\ MarkRead /\ NotClosedTwice

\* The tables of a listing and its subscription stay as they are.
LEMMA MarkStays ==
    ASSUME Marked, UNCHANGED <<listing, closedBy, subscription>>
    PROVE  Marked'
BY DEF Marked

\* A subscription is opened where there was none.
LEMMA OpensUnmarked ==
    ASSUME Marked, NoSubscription, NEW start, CreateSubscription(start), UNCHANGED place
    PROVE  Marked'
<1>1. closedBy' # "billing" /\ listing' = listing
  BY DEF Marked, NoSubscription, place
<1>2. ~ subscription'.byBilling
  BY DEF CreateSubscription
<1> QED BY <1>1, <1>2 DEF Marked

\* While everybody else waits, h goes on with r.
LEMMA RequestMarks ==
    ASSUME RequestsGrounded, NEW h \in Handlers, NEW r, Continue(h, r), sweep' = Resting,
           \A g \in Handlers \ {h} : req[g].kind = "idle",
           r.kind = "settling" => r.byBilling = subscription'.byBilling
    PROVE  MarkRead' /\ NotClosedTwice'
<1>1. req'[h] = r /\ \A g \in Handlers \ {h} : req'[g] = req[g] /\ req'[g].kind = "idle"
  BY DEF Continue, RequestsGrounded
<1>2. MarkRead'
  BY <1>1 DEF MarkRead
<1> QED BY <1>2 DEF NotClosedTwice, Resting

\* A request begins.
LEMMA BeginsMarked ==
    ASSUME IInv, SerialInv, ClosureMarked, NEW h \in Handlers, Request(h), ~ overlapped'
    PROVE  Marked' /\ MarkRead' /\ NotClosedTwice'
<1>1. ASSUME NEW r, Continue(h, r), r.kind # "settling",
             UNCHANGED <<listing, closedBy, subscription, sweep>>,
             overlapped' = (overlapped \/ ~ NobodyElse(h))
      PROVE  Marked' /\ MarkRead' /\ NotClosedTwice'
  <2>1. ~ overlapped /\ NobodyElse(h)
    BY <1>1, Zenon
  <2>2. sweep' = Resting /\ \A g \in Handlers \ {h} : req[g].kind = "idle"
    BY <1>1, <2>1 DEF NobodyElse, Idle
  <2>3. Marked'
    BY <1>1, <2>1, MarkStays DEF ClosureMarked
  <2> QED BY <1>1, <2>2, <2>3, RequestMarks DEF IInv
<1>2. ASSUME NEW r, Begin(h, r), r.kind # "settling"
      PROVE  Marked' /\ MarkRead' /\ NotClosedTwice'
  BY <1>1, <1>2 DEF Begin, place, billing
<1>3. ASSUME NEW day, OnApproved(h, day) PROVE Marked' /\ MarkRead' /\ NotClosedTwice'
  <2> DEFINE r == IF subscription # NULL THEN Idle ELSE [kind |-> "open", start |-> day]
  <2>1. r.kind # "settling" /\ Continue(h, r)
    BY <1>3 DEF OnApproved, Idle
  <2> HIDE DEF r
  <2> QED BY <1>1, <1>3, <2>1 DEF OnApproved, place, billing
<1>4. ASSUME NEW amount, SetMonthlyFee(h, amount) PROVE Marked' /\ MarkRead' /\ NotClosedTwice'
  <2> DEFINE r == IF ToReprice = NULL THEN Idle
                  ELSE [kind |-> "reprice", invoice |-> ToReprice, amount |-> amount]
  <2>1. r.kind # "settling" /\ Continue(h, r)
    BY <1>4 DEF SetMonthlyFee, Idle
  <2> HIDE DEF r
  <2> QED BY <1>1, <1>4, <2>1 DEF SetMonthlyFee, place, billing
<1>5. ASSUME NEW to, NEW announce, Review(h, to, announce)
      PROVE  Marked' /\ MarkRead' /\ NotClosedTwice'
  BY <1>2, <1>5 DEF Review
<1>6. ASSUME NEW accepting, SetAcceptingOrders(h, accepting)
      PROVE  Marked' /\ MarkRead' /\ NotClosedTwice'
  BY <1>2, <1>6 DEF SetAcceptingOrders
<1>7. ASSUME NEW i, NEW as, SubmitTransfer(h, i) \/ RejectTransfer(h, i) \/ Settle(h, i, as)
      PROVE  Marked' /\ MarkRead' /\ NotClosedTwice'
  BY <1>2, <1>7 DEF SubmitTransfer, RejectTransfer, Settle
<1> QED BY <1>3, <1>4, <1>5, <1>6, <1>7 DEF Request

\* A settlement clears the mark it has read, and puts the listing back with it.
LEMMA SettlesMarked ==
    ASSUME Marked, MarkRead, NEW h \in Handlers, CommitSettle(h)
    PROVE  Marked'
<1> DEFINE r == req[h]
<1>1. r.byBilling = subscription.byBilling
  BY DEF MarkRead, CommitSettle
<1>2. CASE UNCHANGED <<listing, closedBy, subscription>>
  BY <1>2, MarkStays
<1>3. ASSUME NEW start, NEW trialEnds, subscription' = PaidUp(start, trialEnds), Reinstate(r)
      PROVE  Marked'
  <2>1. ~ subscription'.byBilling
    BY <1>3 DEF PaidUp
  <2>2. closedBy' # "billing"
    BY <1>1, <1>3, VendorAssumption DEF Reinstate, Marked
  <2>3. listing' = [status |-> listing'.status, accepting |-> listing'.accepting]
    <3>1. CASE r.byBilling /\ listing.status = "SUSPENDED"
      BY <1>3, <3>1 DEF Reinstate
    <3>2. CASE ~ (r.byBilling /\ listing.status = "SUSPENDED")
      BY <1>3, <3>2 DEF Reinstate, Marked
    <3> QED BY <3>1, <3>2
  <2> QED BY <2>1, <2>2, <2>3 DEF Marked
<1> QED BY <1>2, <1>3 DEF CommitSettle

\* A request that had begun goes on.
LEMMA CommitsMarked ==
    ASSUME IInv, Undisturbed, Marked, MarkRead, NEW h \in Handlers, Commit(h)
    PROVE  Marked' /\ MarkRead' /\ NotClosedTwice'
<1>1. req[h].kind # "idle" /\ UNCHANGED sweep
  BY DEF Commit, CommitStatus, CommitAccepting, OpenSubscription, OpenTrial, CommitReview,
         ReadToSettle, CommitSettle, RepriceOpenInvoice
<1>2. sweep' = Resting /\ \A g \in Handlers \ {h} : req[g].kind = "idle"
  BY <1>1, OthersWait DEF Undisturbed
<1>3. ASSUME NEW r, Continue(h, r), r.kind = "settling" => r.byBilling = subscription'.byBilling
      PROVE  MarkRead' /\ NotClosedTwice'
  BY <1>2, <1>3, RequestMarks DEF IInv
<1>4. ASSUME Continue(h, Idle) PROVE MarkRead' /\ NotClosedTwice'
  BY <1>3, <1>4 DEF Idle
<1>5. CASE CommitStatus(h)
  BY <1>4, <1>5, VendorAssumption DEF CommitStatus, Finish, Marked, billing
<1>6. CASE CommitAccepting(h)
  BY <1>4, <1>6 DEF CommitAccepting, Finish, Marked, billing
<1>7. CASE OpenTrial(h) \/ CommitReview(h) \/ RepriceOpenInvoice(h)
  BY <1>4, <1>7, MarkStays DEF OpenTrial, CommitReview, RepriceOpenInvoice, Finish, place
<1>8. CASE OpenSubscription(h)
  <2>1. CASE NoSubscription
    <3> DEFINE r == [req[h] EXCEPT !.kind = "trial"]
    <3>1. Marked' /\ Continue(h, r)
      BY <1>8, <2>1, OpensUnmarked DEF OpenSubscription
    <3>2. r.kind = "trial"
      BY <1>8 DEF OpenSubscription, IInv, RequestsGrounded, RequestTyped
    <3> HIDE DEF r
    <3> QED BY <1>3, <3>1, <3>2
  <2>2. CASE ~ NoSubscription
    BY <1>4, <1>8, <2>2, MarkStays DEF OpenSubscription, place
  <2> QED BY <2>1, <2>2
<1>9. CASE ReadToSettle(h)
  <2>1. Marked' /\ UNCHANGED subscription
    BY <1>9, MarkStays DEF ReadToSettle, place, billing
  <2>2. CASE Continue(h, Idle)
    BY <1>4, <2>1, <2>2
  <2>3. CASE ~ Continue(h, Idle)
    <3> DEFINE r == [kind |-> "settling", invoice |-> req[h].invoice, as |-> req[h].as,
                     day |-> req[h].day, start |-> req[h].start,
                     byBilling |-> subscription.byBilling,
                     before |-> subscription.before]
    <3>1. Continue(h, r)
      BY <1>9, <2>3 DEF ReadToSettle, Finish
    <3>2. r.byBilling = subscription.byBilling
      OBVIOUS
    <3> HIDE DEF r
    <3> QED BY <1>3, <2>1, <3>1, <3>2
  <2> QED BY <2>2, <2>3
<1>10. CASE CommitSettle(h)
  BY <1>4, <1>10, SettlesMarked DEF CommitSettle, Finish
<1> QED BY <1>5, <1>6, <1>7, <1>8, <1>9, <1>10 DEF Commit

\* By hand the mark goes, and with it whatever billing closed.
LEMMA ByHandMarked ==
    ASSUME IInv, SerialInv, ClosureMarked, SuspendByAdmin \/ ReinstateByAdmin, ~ overlapped'
    PROVE  Marked' /\ MarkRead' /\ NotClosedTwice'
<1>1. subscription \in Subscriptions /\ UNCHANGED <<req, sweep>>
  BY DEF SuspendByAdmin, ReinstateByAdmin, IInv, TablesTyped
<1>2. ~ overlapped /\ Nobody
  BY Zenon DEF SuspendByAdmin, ReinstateByAdmin
<1>3. Marked
  BY <1>2 DEF ClosureMarked
<1>4. ~ subscription'.byBilling
  <2>1. CASE SuspendByAdmin
    BY <1>1, <2>1 DEF SuspendByAdmin, Subscriptions
  <2>2. CASE ReinstateByAdmin
    <3> DEFINE overdue == \E i \in Open : invoices[i].due <= today
               trialing == subscription.trialEnds # NULL /\ subscription.trialEnds > today
               status == IF overdue THEN "PAST_DUE" ELSE IF trialing THEN "TRIALING"
                           ELSE "ACTIVE"
    <3>1. subscription' = [subscription EXCEPT !.status = status, !.byBilling = FALSE,
                                               !.before = NULL]
      BY <2>2, Zenon DEF ReinstateByAdmin
    <3> HIDE DEF status
    <3> QED BY <1>1, <3>1 DEF Subscriptions
  <2> QED BY <2>1, <2>2
<1>5. closedBy' # "billing"
  <2>1. CASE SuspendByAdmin
    BY <1>3, <2>1 DEF SuspendByAdmin, Marked
  <2>2. CASE ReinstateByAdmin
    BY <1>3, <2>2, VendorAssumption DEF ReinstateByAdmin, Marked, place
  <2> QED BY <2>1, <2>2
<1>6. listing' = [status |-> listing'.status, accepting |-> listing'.accepting]
  <2>1. CASE listing' = listing
    BY <1>3, <2>1 DEF Marked
  <2>2. CASE listing' = [status |-> "SUSPENDED", accepting |-> FALSE]
    BY <2>2
  <2>3. CASE listing' = [status |-> "ACTIVE", accepting |-> TRUE]
    BY <2>3
  <2> QED BY <2>1, <2>2, <2>3 DEF SuspendByAdmin, ReinstateByAdmin, place
<1>7. MarkRead' /\ NotClosedTwice'
  BY <1>1, <1>2 DEF Nobody, Idle, MarkRead, NotClosedTwice, Resting
<1> QED BY <1>4, <1>5, <1>6, <1>7 DEF Marked

\* The sweep closes a vendor who is not suspended, and only once.
LEMMA ClosesMarked ==
    ASSUME IInv, Undisturbed, Marked, NotClosedTwice, NEW row \in sweep.list,
           SuspendForNonPayment(row)
    PROVE  Marked' /\ NotClosedTwice'
<1>1. sweep.stage = "closing" /\ subscription.status # "SUSPENDED"
  BY DEF SuspendForNonPayment, NotClosedTwice
<1>2. \A other \in sweep.list : other.invoice \in Unpaid /\ other = Entry(other.invoice)
  BY <1>1, ListedIsOpen DEF WarningLists
<1>3. sweep.list \ {row} = {}
  BY <1>2 DEF Undisturbed, UnpaidAhead
<1>4. NotClosedTwice'
  BY <1>3 DEF SuspendForNonPayment, SweepTo, NotClosedTwice
<1>5. subscription \in Subscriptions
  BY <1>2, RaisedRow DEF IInv, TablesTyped, Unpaid
<1>6. Marked'
  <2>1. CASE listing.status \in SUSPENDABLE
    <3>1. /\ subscription' = [subscription EXCEPT !.status = "SUSPENDED", !.byBilling = TRUE,
                                                   !.before = listing.status]
          /\ listing' = [status |-> "SUSPENDED", accepting |-> FALSE]
      BY <2>1, Zenon DEF SuspendForNonPayment
    <3>2. subscription'.byBilling /\ subscription'.status = "SUSPENDED"
      BY <1>5, <3>1 DEF Subscriptions
    <3>3. subscription' # NULL
      <4>1. subscription' \in Subscriptions
        BY <1>5, <2>1, <3>1 DEF Subscriptions, SubscriptionStatuses
      <4> QED BY <4>1, VendorAssumption DEF Subscriptions
    <3> QED BY <3>1, <3>2, <3>3 DEF Marked
  <2>2. CASE listing.status \notin SUSPENDABLE
    <3>1. /\ subscription' = [subscription EXCEPT !.status = "SUSPENDED",
                                 !.byBilling = (listing.status \in SUSPENDABLE), !.before = NULL]
          /\ UNCHANGED <<listing, closedBy>>
      BY <2>2 DEF SuspendForNonPayment, place
    <3>2. ~ subscription'.byBilling
      <4>1. subscription'.byBilling = (listing.status \in SUSPENDABLE)
        BY <1>5, <3>1 DEF Subscriptions
      <4> QED BY <2>2, <4>1
    <3>3. closedBy' # "billing"
      BY <1>1, <3>1 DEF Marked
    <3> QED BY <3>1, <3>2, <3>3 DEF Marked
  <2> QED BY <2>1, <2>2
<1> QED BY <1>4, <1>6

\* The rest of the sweep sets no mark.
LEMMA SweepsMarked ==
    ASSUME IInv, Undisturbed, Marked, NotClosedTwice, SweepNext, sweep # Resting
    PROVE  Marked' /\ NotClosedTwice'
<1>1. CASE \/ Backfill \/ (BackfillSubscription /\ ~ NoSubscription) \/ BackfillTrial
           \/ Issue \/ IssueInvoice \/ ListDone \/ MarkReminderSent
           \/ \E row \in sweep.list : Remind(row)
  <2>1. Marked'
    BY <1>1, MarkStays DEF Backfill, BackfillSubscription, BackfillTrial, Issue, IssueInvoice,
                           ListDone, MarkReminderSent, Remind, place, billing
  <2>2. ASSUME Backfill \/ BackfillSubscription \/ BackfillTrial \/ Issue \/ IssueInvoice \/ ListDone
        PROVE  sweep'.stage # "closing"
    BY <2>2 DEF Backfill, BackfillSubscription, BackfillTrial, Issue, IssueInvoice, ListDone,
                SweepTo, Resting
  <2>3. ASSUME MarkReminderSent PROVE sweep'.stage # "closing"
    BY <2>3 DEF MarkReminderSent, SweepTo, Undisturbed, FreshSweep
  <2>4. ASSUME NEW row \in sweep.list, Remind(row) PROVE sweep'.stage # "closing"
    <3>1. sweep'.stage = sweep.stage
      BY <2>4 DEF Remind, Warn, SweepTo
    <3> QED BY <2>4, <3>1 DEF Remind
  <2>5. sweep'.stage # "closing"
    BY <1>1, <2>2, <2>3, <2>4
  <2> QED BY <2>1, <2>5 DEF NotClosedTwice
<1>2. CASE BackfillSubscription /\ NoSubscription
  BY <1>2, OpensUnmarked DEF BackfillSubscription, SweepTo, NotClosedTwice
<1>3. CASE ReadList
  <2>1. Marked' /\ UNCHANGED subscription
    BY <1>3, MarkStays DEF ReadList, place, billing
  <2>2. NotClosedTwice'
    BY <1>3, <2>1 DEF ReadList, SweepTo, Listed, NotClosedTwice
  <2> QED BY <2>1, <2>2
<1>4. ASSUME NEW row \in sweep.list, MarkPastDue(row) PROVE Marked' /\ NotClosedTwice'
  <2>1. sweep'.stage = "overdue"
    BY <1>4 DEF MarkPastDue, Warn, SweepTo
  <2>2. subscription \in Subscriptions
    BY <1>4, ListedIsOpen, RaisedRow DEF MarkPastDue, WarningLists, IInv, TablesTyped
  <2>3. CASE subscription.status \in {"TRIALING", "ACTIVE"}
    <3>1. subscription' = [subscription EXCEPT !.status = "PAST_DUE"] /\ UNCHANGED place
      BY <1>4, <2>3 DEF MarkPastDue
    <3>2. ~ subscription.byBilling
      BY <2>2, <2>3, VendorAssumption DEF Marked, Subscriptions
    <3>3. ~ subscription'.byBilling
      BY <2>2, <3>1, <3>2 DEF Subscriptions
    <3>4. closedBy # "billing"
      BY <3>2 DEF Marked
    <3> QED BY <2>1, <3>1, <3>3, <3>4 DEF Marked, NotClosedTwice, place
  <2>4. CASE subscription.status \notin {"TRIALING", "ACTIVE"}
    BY <1>4, <2>1, <2>4, MarkStays DEF MarkPastDue, place, NotClosedTwice
  <2> QED BY <2>3, <2>4
<1>5. CASE BeginSweep
  BY <1>5 DEF BeginSweep
<1> QED BY <1>1, <1>2, <1>3, <1>4, <1>5, ClosesMarked DEF SweepNext

LEMMA ClosureStays == IInv /\ SerialInv /\ ClosureMarked /\ [Next]_vars => ClosureMarked'
<1> SUFFICES ASSUME IInv, SerialInv, ClosureMarked, [Next]_vars, ~ overlapped'
             PROVE  Marked' /\ MarkRead' /\ NotClosedTwice'
  BY Zenon DEF ClosureMarked
<1>1. CASE UNCHANGED vars
  BY <1>1 DEF vars, ClosureMarked, Marked, MarkRead, NotClosedTwice
<1>2. CASE Next
  <2>1. ~ overlapped /\ Undisturbed /\ Marked /\ MarkRead /\ NotClosedTwice
    BY <1>2, OverlapStays, Zenon DEF SerialInv, ClosureMarked
  <2>2. ASSUME NEW h \in Handlers, Commit(h) \/ Request(h)
        PROVE  Marked' /\ MarkRead' /\ NotClosedTwice'
    BY <2>1, <2>2, BeginsMarked, CommitsMarked
  <2>3. CASE SuspendByAdmin \/ ReinstateByAdmin
    BY <2>3, ByHandMarked
  <2>4. CASE SweepNext /\ sweep # Resting
    <3>1. UNCHANGED req
      BY <2>4 DEF SweepNext, BeginSweep, Backfill, BackfillSubscription, BackfillTrial, Issue,
         IssueInvoice, ReadList, ListDone, MarkReminderSent, Remind, MarkPastDue,
         SuspendForNonPayment
    <3>2. MarkRead'
      BY <2>1, <2>4, <3>1, SweepAlone DEF Undisturbed, MarkRead
    <3> QED BY <2>1, <2>4, <3>2, SweepsMarked
  <2>5. CASE SweepNext /\ sweep = Resting
    <3>1. BeginSweep
      BY <2>5 DEF SweepNext, Backfill, BackfillSubscription, BackfillTrial, Issue,
         IssueInvoice, ReadList, ListDone, MarkReminderSent, Marking, Resting
    <3>2. Marked' /\ UNCHANGED <<req, subscription>>
      BY <2>1, <3>1, MarkStays DEF BeginSweep, place, billing
    <3> QED BY <2>1, <3>1, <3>2 DEF BeginSweep, SweepTo, MarkRead, NotClosedTwice
  <2>6. CASE Tick
    <3>1. UNCHANGED <<listing, closedBy, subscription, req, sweep>>
      BY <2>6 DEF Tick, place, billing
    <3> QED BY <2>1, <3>1 DEF Marked, MarkRead, NotClosedTwice
  <2>7. CASE Crash
    <3>1. Marked'
      BY <2>1, <2>7, MarkStays DEF Crash, place, billing
    <3> QED BY <2>7, <3>1 DEF Crash, Idle, Resting, MarkRead, NotClosedTwice
  <2> QED BY <1>2, <2>2, <2>3, <2>4, <2>5, <2>6, <2>7 DEF Next
<1> QED BY <1>1, <1>2

\* A listing that billing took down, and billing's mark, stand over an invoice
\* that is still unpaid: a settlement takes the only unpaid invoice, the mark
\* and the closure together, and only the sweep sets the mark, over an invoice
\* it has read as open.
THEOREM ClosedOverUnpaid == Spec => []ClosedOwes
<1>1. Init => ClosureMarked
  <2> SUFFICES ASSUME Init PROVE Marked /\ MarkRead /\ NotClosedTwice
    BY Zenon DEF ClosureMarked
  <2> QED BY VendorAssumption DEF Init, Marked, MarkRead, NotClosedTwice, Idle, Resting
<1>2. Spec => []ClosureMarked
  BY <1>1, ClosureStays, Invariance, SerialInvariance, PTL DEF Spec
<1>3. SerialInv /\ ClosureMarked => ClosedOwes
  BY Zenon DEF SerialInv, Undisturbed, UnpaidAhead, Unpaid, ClosureMarked, Marked, ClosedOwes
<1> QED BY <1>2, <1>3, SerialInvariance, PTL

-----------------------------------------------------------------------------
(* What the nights and the settlements come to.                            *)

\* Night after night there is one unpaid invoice at most, and a warning about
\* it goes out once, however the days, the payments and the sweeps fall.
THEOREM NightAfterNight == Spec => []SweptOnce
<1>1. ASSUME IInv, SerialInv PROVE SweptOnce
  <2> SUFFICES ASSUME ~ overlapped
               PROVE  /\ Cardinality(Unpaid) <= 1
                      /\ crashes = 0 => \A i \in Raised : \A bucket \in DOMAIN warned[i] :
                                           warned[i][bucket] <= 1
    BY Zenon DEF SweptOnce, Unpaid
  <2>1. Undisturbed
    BY <1>1, Zenon DEF SerialInv
  <2>2. Cardinality(Unpaid) <= 1
    <3>1. CASE Unpaid = {}
      BY <3>1, FS_EmptySet
    <3>2. ASSUME NEW i \in Unpaid PROVE Cardinality(Unpaid) <= 1
      <4>1. Unpaid = {i}
        BY <2>1, <3>2 DEF Undisturbed, UnpaidAhead
      <4>2. Cardinality(Unpaid) = 1
        BY <4>1, FS_Singleton
      <4> QED BY <4>2
    <3> QED BY <3>1, <3>2
  <2>3. ASSUME crashes = 0, NEW i \in Raised, NEW bucket \in DOMAIN warned[i]
        PROVE  warned[i][bucket] <= 1
    <3>1. warned[i][bucket] \in {0, 1}
      BY <2>1, <2>3 DEF Undisturbed, WarnedInOrder, Raised
    <3> QED BY <3>1
  <2> QED BY <2>2, <2>3
<1> QED BY <1>1, Invariance, SerialInvariance, PTL

\* The settlement of h leaves a whole cycle beyond what was paid for and
\* beyond its day.
BuysACycle(h) ==
    /\ req[h].kind = "settling"
    /\ subscription'.paidTo >= subscription.paidTo + BILLING_CYCLE_DAYS
    /\ subscription'.paidTo >= req[h].day + BILLING_CYCLE_DAYS

\* A step adds nothing to what is paid for, or settles and adds a whole cycle.
FullStep ==
    ~ overlapped' /\ subscription # NULL =>
        \/ subscription'.paidTo = subscription.paidTo
        \/ \E h \in Handlers : BuysACycle(h)

\* The settlement buys the cycle from the invoice's start or its own day, and
\* no unpaid invoice starts before what is paid for.
LEMMA SettlingBuysACycle ==
    ASSUME IInv, Undisturbed, NEW h \in Handlers, CommitSettle(h), subscription # NULL
    PROVE  subscription'.paidTo = subscription.paidTo \/ BuysACycle(h)
<1> DEFINE r == req[h]
<1>1. /\ r.kind = "settling" /\ r.invoice \in Unpaid /\ r.start \in Nat /\ r.day \in Nat
      /\ r.start >= invoices[r.invoice].start /\ r.start >= r.day
  BY DEF CommitSettle, Undisturbed, FreshRequests, Fresh, IInv, RequestsGrounded, RequestTyped
<1>2. invoices[r.invoice].start \in Nat /\ invoices[r.invoice].start >= subscription.paidTo
  BY <1>1, RaisedRow DEF Unpaid, Undisturbed, UnpaidAhead, InvoiceRows
<1>3. subscription.paidTo \in Nat /\ BILLING_CYCLE_DAYS \in Nat
  BY DaysAssumption DEF IInv, TablesTyped, Subscriptions
<1>4. UNCHANGED subscription \/ subscription'.paidTo = r.start + BILLING_CYCLE_DAYS
  BY DEF CommitSettle, PaidUp
<1>5. ASSUME subscription'.paidTo = r.start + BILLING_CYCLE_DAYS PROVE BuysACycle(h)
  BY <1>1, <1>2, <1>3, <1>5 DEF BuysACycle
<1> QED BY <1>4, <1>5

LEMMA StepsAreFull == IInv /\ SerialInv /\ [Next]_vars => FullStep
<1> SUFFICES ASSUME IInv, SerialInv, [Next]_vars, ~ overlapped', subscription # NULL
             PROVE  \/ subscription'.paidTo = subscription.paidTo
                    \/ \E h \in Handlers : BuysACycle(h)
  BY Zenon DEF FullStep
<1>1. subscription \in Subscriptions
  BY DEF IInv, TablesTyped
<1>2. ASSUME NEW h \in Handlers, CommitSettle(h)
      PROVE  subscription'.paidTo = subscription.paidTo \/ BuysACycle(h)
  <2>1. overlapped' = overlapped
    BY <1>2 DEF CommitSettle, Finish
  <2>2. Undisturbed
    BY <2>1, Zenon DEF SerialInv
  <2> QED BY <1>2, <2>2, SettlingBuysACycle
<1>3. ASSUME SuspendByAdmin \/ \E row \in sweep.list : MarkPastDue(row) \/ SuspendForNonPayment(row)
      PROVE  subscription'.paidTo = subscription.paidTo
  BY <1>1, <1>3 DEF SuspendByAdmin, MarkPastDue, SuspendForNonPayment, Subscriptions
<1>4. ASSUME ReinstateByAdmin PROVE subscription'.paidTo = subscription.paidTo
  <2> DEFINE overdue == \E i \in Open : invoices[i].due <= today
             trialing == subscription.trialEnds # NULL /\ subscription.trialEnds > today
             status == IF overdue THEN "PAST_DUE" ELSE IF trialing THEN "TRIALING"
                         ELSE "ACTIVE"
  <2>1. subscription' = [subscription EXCEPT !.status = status, !.byBilling = FALSE,
                                             !.before = NULL]
    BY <1>4, Zenon DEF ReinstateByAdmin
  <2> HIDE DEF status
  <2> QED BY <1>1, <2>1 DEF Subscriptions
<1>5. ASSUME \/ UNCHANGED vars
             \/ \E h \in Handlers : Request(h) \/ (Commit(h) /\ ~ CommitSettle(h))
             \/ Tick \/ Crash
             \/ BeginSweep \/ Backfill \/ BackfillSubscription \/ BackfillTrial
             \/ Issue \/ IssueInvoice \/ ReadList \/ ListDone \/ MarkReminderSent
             \/ \E row \in sweep.list : Remind(row)
      PROVE  UNCHANGED subscription
  BY <1>5 DEF Commit, CommitStatus, CommitAccepting, OpenSubscription, OpenTrial, CommitReview,
     ReadToSettle, RepriceOpenInvoice, Request, Review, SetAcceptingOrders, OnApproved,
     SubmitTransfer, RejectTransfer, Settle, SetMonthlyFee, Begin, BeginSweep, Backfill,
     BackfillSubscription, BackfillTrial, Issue, IssueInvoice, ReadList, ListDone, Remind,
     MarkReminderSent, Tick, Crash, billing, vars, NoSubscription
<1> QED BY <1>2, <1>3, <1>4, <1>5 DEF Next, SweepNext

\* "A vendor always gets a full cycle for the fee": whoever settles, early,
\* late or by writing a month off, leaves a whole cycle beyond what was paid
\* for and beyond the day of the settlement, and nothing else that happens to a
\* subscription adds a day to it or takes one away.
THEOREM CyclesAreFull == Spec => FullCycle
<1>1. IInv /\ SerialInv /\ [Next]_vars => [FullStep]_vars
  BY StepsAreFull
<1>2. Spec => [][FullStep]_vars
  BY <1>1, Invariance, SerialInvariance, PTL DEF Spec
<1> QED BY <1>2 DEF FullCycle, FullStep, BuysACycle

-----------------------------------------------------------------------------
(* What a suspended vendor may not do, however everybody overlaps.         *)

\* A step that leaves a suspended vendor trading finds him so, or is staff's.
DownStep ==
    /\ subscription' # NULL /\ subscription'.status = "SUSPENDED"
    /\ listing'.status \in SUSPENDABLE
    => \/ /\ subscription.status = "SUSPENDED" /\ listing.status \in SUSPENDABLE
       \/ /\ UNCHANGED subscription
          /\ \E h \in Handlers : req[h].kind = "status" /\ req[h].to = listing'.status

\* The listing stays what it is, but perhaps for whether it takes orders.
ListingTyped == listing = [status |-> listing.status, accepting |-> listing.accepting]

LEMMA StepsStayDown == IInv /\ ListingTyped /\ [Next]_vars => DownStep /\ ListingTyped'
<1> SUFFICES ASSUME IInv, ListingTyped, [Next]_vars PROVE DownStep /\ ListingTyped'
  OBVIOUS
<1>1. ASSUME UNCHANGED <<listing, subscription>> PROVE DownStep /\ ListingTyped'
  BY <1>1 DEF DownStep, ListingTyped
<1>2. ASSUME NEW h \in Handlers, CommitStatus(h) PROVE DownStep /\ ListingTyped'
  BY <1>2 DEF CommitStatus, DownStep, ListingTyped, billing
<1>3. ASSUME NEW h \in Handlers, CommitAccepting(h) PROVE DownStep /\ ListingTyped'
  <2>1. /\ listing' = [status |-> listing.status, accepting |-> req[h].accepting]
        /\ UNCHANGED subscription
    BY <1>3 DEF CommitAccepting, ListingTyped, billing
  <2> QED BY <2>1 DEF DownStep, ListingTyped
<1>4. ASSUME NEW h \in Handlers, OpenSubscription(h) PROVE DownStep /\ ListingTyped'
  BY <1>1, <1>4 DEF OpenSubscription, CreateSubscription, DownStep, ListingTyped, place
<1>5. ASSUME NEW h \in Handlers, CommitSettle(h) PROVE DownStep /\ ListingTyped'
  <2>1. UNCHANGED <<listing, subscription>> \/ (subscription'.status = "ACTIVE" /\ Reinstate(req[h]))
    BY <1>5 DEF CommitSettle, PaidUp
  <2>2. ASSUME Reinstate(req[h]) PROVE ListingTyped'
    <3>1. CASE req[h].byBilling /\ listing.status = "SUSPENDED"
      BY <2>2, <3>1 DEF Reinstate, ListingTyped
    <3>2. CASE ~ (req[h].byBilling /\ listing.status = "SUSPENDED")
      BY <2>2, <3>2 DEF Reinstate, ListingTyped
    <3> QED BY <3>1, <3>2
  <2> QED BY <1>1, <2>1, <2>2 DEF DownStep
<1>6. CASE SuspendByAdmin
  <2>1. listing'.status \notin SUSPENDABLE
    BY <1>6 DEF SuspendByAdmin, SUSPENDABLE
  <2>2. ListingTyped'
    <3>1. CASE listing' = listing
      BY <3>1 DEF ListingTyped
    <3>2. CASE listing' = [status |-> "SUSPENDED", accepting |-> FALSE]
      BY <3>2 DEF ListingTyped
    <3> QED BY <1>6, <3>1, <3>2 DEF SuspendByAdmin
  <2> QED BY <2>1, <2>2 DEF DownStep
<1>7. CASE ReinstateByAdmin
  <2>1. subscription \in Subscriptions
    BY <1>7 DEF ReinstateByAdmin, IInv, TablesTyped
  <2>2. subscription'.status # "SUSPENDED"
    <3> DEFINE overdue == \E i \in Open : invoices[i].due <= today
               trialing == subscription.trialEnds # NULL /\ subscription.trialEnds > today
               status == IF overdue THEN "PAST_DUE" ELSE IF trialing THEN "TRIALING"
                           ELSE "ACTIVE"
    <3>1. subscription' = [subscription EXCEPT !.status = status, !.byBilling = FALSE,
                                               !.before = NULL]
      BY <1>7, Zenon DEF ReinstateByAdmin
    <3>2. status # "SUSPENDED"
      <4> HIDE DEF overdue, trialing
      <4> QED OBVIOUS
    <3> HIDE DEF status
    <3> QED BY <2>1, <3>1, <3>2 DEF Subscriptions
  <2>3. ListingTyped'
    <3>1. CASE listing' = listing
      BY <3>1 DEF ListingTyped
    <3>2. CASE listing' = [status |-> "ACTIVE", accepting |-> TRUE]
      BY <3>2 DEF ListingTyped
    <3> QED BY <1>7, <3>1, <3>2 DEF ReinstateByAdmin, place
  <2> QED BY <2>2, <2>3 DEF DownStep
<1>8. CASE BackfillSubscription
  BY <1>1, <1>8 DEF BackfillSubscription, CreateSubscription, DownStep, ListingTyped, place
<1>9. ASSUME NEW row \in sweep.list, MarkPastDue(row) PROVE DownStep /\ ListingTyped'
  <2>1. CASE UNCHANGED subscription
    BY <1>1, <1>9, <2>1 DEF MarkPastDue, place
  <2>2. CASE subscription' = [subscription EXCEPT !.status = "PAST_DUE"]
    <3>1. subscription \in Subscriptions
      <4>1. row.invoice \in Raised
        BY <1>9 DEF MarkPastDue, IInv, SweepGrounded, SweepTyped, WarningLists
      <4> QED BY <4>1 DEF IInv, TablesTyped, Billed
    <3>2. subscription'.status # "SUSPENDED"
      BY <2>2, <3>1 DEF Subscriptions
    <3> QED BY <1>9, <3>2 DEF DownStep, MarkPastDue, ListingTyped, place
  <2> QED BY <1>9, <2>1, <2>2 DEF MarkPastDue
<1>10. ASSUME NEW row \in sweep.list, SuspendForNonPayment(row) PROVE DownStep /\ ListingTyped'
  <2>1. CASE listing.status \in SUSPENDABLE
    <3>1. listing' = [status |-> "SUSPENDED", accepting |-> FALSE]
      BY <1>10, <2>1 DEF SuspendForNonPayment
    <3> QED BY <3>1 DEF DownStep, ListingTyped, SUSPENDABLE
  <2>2. CASE listing.status \notin SUSPENDABLE
    BY <1>10, <2>2 DEF SuspendForNonPayment, DownStep, ListingTyped, place
  <2> QED BY <2>1, <2>2
<1>11. ASSUME \/ UNCHANGED vars
              \/ \E h \in Handlers :
                    \/ Request(h) \/ OpenTrial(h) \/ CommitReview(h) \/ ReadToSettle(h)
                    \/ RepriceOpenInvoice(h)
              \/ Tick \/ Crash
              \/ BeginSweep \/ Backfill \/ BackfillTrial
              \/ Issue \/ IssueInvoice \/ ReadList \/ ListDone \/ MarkReminderSent
              \/ \E row \in sweep.list : Remind(row)
       PROVE  UNCHANGED <<listing, subscription>>
  BY <1>11 DEF OpenTrial, CommitReview,
     ReadToSettle, RepriceOpenInvoice, Request, Review, SetAcceptingOrders, OnApproved,
     SubmitTransfer, RejectTransfer, Settle, SetMonthlyFee, Begin, BeginSweep, Backfill,
     BackfillTrial, Issue, IssueInvoice, ReadList, ListDone, Remind,
     MarkReminderSent, Tick, Crash, billing, place, vars
<1> QED BY <1>1, <1>2, <1>3, <1>4, <1>5, <1>6, <1>7, <1>8, <1>9, <1>10, <1>11
        DEF Next, SweepNext, Commit

\* However requests, the sweep, staff and crashes overlap, suspending a
\* subscription takes a trading listing down, whatever kind of trading it did,
\* and as long as the subscription stays suspended only staff's own decision
\* about the listing puts it up: no payment, no sweep and no switch.
THEOREM DownWhileSuspended == Spec => SuspendedIsDown
<1>1. Init => ListingTyped
  BY DEF Init, ListingTyped
<1>2. IInv /\ ListingTyped /\ [Next]_vars => [DownStep]_vars /\ ListingTyped'
  BY StepsStayDown
<1>3. Spec => [][DownStep]_vars
  BY <1>1, <1>2, Invariance, PTL DEF Spec
<1> QED BY <1>3 DEF SuspendedIsDown, DownStep
=============================================================================
