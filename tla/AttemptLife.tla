---------------------------- MODULE AttemptLife ----------------------------
(***************************************************************************)
(* What one payment attempt promises: it is opened once, moves only along  *)
(* PAYMENT_TRANSITIONS, and no receipt is posted for it before it has been *)
(* paid.  "A failed attempt is never revived."                             *)
(***************************************************************************)
EXTENDS PaymentStatus

CONSTANT Attempts

VARIABLES
    life,       \* life[a], "ABSENT" before the attempt is opened
    receipted   \* attempts whose money is in the ledger

Init ==
    /\ life = [a \in Attempts |-> "ABSENT"]
    /\ receipted = {}

\* A transfer confirmed by hand opens and pays its attempt at once.
Lives(from, to) ==
    \/ from = to
    \/ from = "ABSENT" /\ to \in {"PENDING", "PAID"}
    \/ PaymentMoves(from, to)

\* Several attempts of one order may move together; at most one is paid for.
Move ==
    /\ life' \in [Attempts -> PaymentStatuses \cup {"ABSENT"}]
    /\ \A a \in Attempts : Lives(life[a], life'[a])
    /\ \E a \in Attempts :
        \/ receipted' = receipted
        \/ /\ life[a] \in OPEN_STATUSES \cup {"ABSENT"} /\ life'[a] = "PAID"
           /\ receipted' = receipted \cup {a}

Spec == Init /\ [][Move]_<<life, receipted>>
=============================================================================
