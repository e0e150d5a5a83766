----------------------------- MODULE MCPayments -----------------------------
(* Small instances of the payments module. *)
EXTENDS PaymentProperties, TLC

CONSTANTS o1, c1, i1, h1, h2

Two == Permutations({h1, h2})

OneBasket == c1 :> (i1 :> 1)
OneStock == i1 :> 1

\* Payment before the kitchen starts; nothing is refunded yet.
BeforeCooking ==
    /\ \A o \in Orders : orders[o].status \notin KITCHEN_COMMITTED \cup {"DELIVERED"}
    /\ \A h \in Handlers : req[h].kind # "refund"

\* Only how a payment ended is reported, and no report is redelivered: what
\* else there is to hear changes no table but the log.
OnlyConclusions ==
    /\ \A a \in Attempts : inbox[a]["PENDING"] = "NONE"
    /\ answered = {}
=============================================================================
