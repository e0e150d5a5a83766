----------------------------- MODULE MCVendors -----------------------------
(* Small instances of a listing and its billing. *)
EXTENDS VendorProperties, TLC

CONSTANTS h1, h2

\* The listing is reviewed before it is billed, and an approval listened to
\* within the day.  The owner closes it for a while only up to the first fee,
\* and whatever overlaps, overlaps by then: a request with the sweep, or two
\* confirmations with each other.  The process dies before there is a fee.
OverlapEarly ==
    /\ listing.status \in {"PENDING_APPROVAL", "REJECTED"} => Raised = {} /\ today = 0
    /\ announced \subseteq {today}
    /\ listing.status = "ACTIVE" /\ ~ listing.accepting => today <= 1
    /\ crashes > 0 => Cardinality(Raised) <= 1 /\ today <= 1 /\ ~ overlapped /\ closedBy = NULL
    /\ fee # 1 => Cardinality(Raised) < MaxInvoices /\ ~ overlapped
    /\ Cardinality(Raised) = MaxInvoices =>
        /\ ~ overlapped /\ closedBy # "staff"
        /\ listing.status # "TEMPORARILY_CLOSED"
        /\ listing.accepting = (listing.status = "ACTIVE")
        /\ \A h \in Handlers : req[h].kind \notin {"status", "accept"}
    /\ overlapped =>
        /\ today <= 2
        /\ \/ \E h \in Handlers : req[h] = Idle
           \/ /\ sweep = Resting /\ today = 1 /\ listing.status = "ACTIVE"
              /\ \A h \in Handlers : req[h].kind \in {"settle", "settling"} /\ req[h].as = "PAID"
        /\ \A h \in Handlers : req[h].kind \notin {"accept", "status", "reprice"}
        /\ \/ listing = [status |-> "ACTIVE", accepting |-> TRUE]
           \/ closedBy = "billing" /\ Cardinality(Raised) = 2
=============================================================================
