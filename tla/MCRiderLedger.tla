--------------------------- MODULE MCRiderLedger ---------------------------
(* Small instances of the rider's ledger. *)
EXTENDS RiderLedger, TLC

CONSTANTS o1, o2, p1, h1, h2

Two == Permutations({h1, h2})

OnePair == o1 :> p1 @@ o2 :> p1
Fees == o1 :> 1 @@ o2 :> 1
Totals == o1 :> 2 @@ o2 :> 2

\* o2 was paid through a gateway and its run goes as it should, once that of
\* o1 is booked and had no trouble: it is there to leave the restaurant
\* owing, next to an o1 that leaves the rider owing.  Nobody settles before
\* there is an entry.  A run with wrong guesses is neither paid by transfer
\* nor settled and does not lose its entry; one paid twice is not settled.
OneTroubled ==
    /\ orders[o2].method = "JAZZCASH"
    /\ runs[o2].attempts = 0 /\ runs[o2].code # "stale"
    /\ lost # {} => o2 \notin lost /\ compared[o1] = 0
    /\ compared[o1] > 0 => orders[o1].method # "QR_TRANSFER" /\ closing = {}
    /\ orders[o2].status # "READY_FOR_PICKUP" =>
        entries[o1] # NULL /\ closing = {} /\ runs[o1].code = "live" /\ compared[o1] = 0
    /\ \A h \in Handlers :
        /\ req[h].kind \in {"wrong", "transfer", "landing", "release"} =>
            req[h].order = o1 /\ orders[o2].status = "READY_FOR_PICKUP"
        /\ req[h].kind \in {"ride", "move"} /\ req[h].order = o2 =>
            entries[o1] # NULL /\ req[h].to \in {"PICKED_UP", "ON_THE_WAY", "DELIVERED"}
        /\ req[h].kind \in {"settle", "settling"} =>
            Booked(p1) # {} /\ Cardinality(took[o1]) = 1 /\ compared[o1] = 0
                                   /\ closing = {} /\ runs[o1].code = "live"
=============================================================================
