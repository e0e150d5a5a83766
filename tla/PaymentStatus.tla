--------------------------- MODULE PaymentStatus ---------------------------
(***************************************************************************)
(* The life of one payment attempt, and the payment methods.  Constant     *)
(* level only.                                                             *)
(***************************************************************************)

PaymentStatuses ==
    {"PENDING", "AUTHORIZED", "PAID", "FAILED", "REFUNDED",
     "PARTIALLY_REFUNDED", "CANCELLED"}

PAYMENT_TRANSITIONS ==
    { <<"PENDING", "AUTHORIZED">>, <<"PENDING", "PAID">>,
      <<"PENDING", "FAILED">>, <<"PENDING", "CANCELLED">>,
      <<"AUTHORIZED", "PAID">>, <<"AUTHORIZED", "FAILED">>,
      <<"AUTHORIZED", "CANCELLED">>,
      <<"PAID", "PARTIALLY_REFUNDED">>, <<"PAID", "REFUNDED">>,
      <<"PARTIALLY_REFUNDED", "REFUNDED">> }

\* Money was received, whatever happened to it afterwards.
SETTLED_STATUSES == {"PAID", "PARTIALLY_REFUNDED", "REFUNDED"}

\* The attempt may still be paid.
OPEN_STATUSES == {"PENDING", "AUTHORIZED"}

\* No row of the table leaves the status.
IsTerminalPayment(status) ==
    ~ \E move \in PAYMENT_TRANSITIONS : move[1] = status

\* assertTransition does not throw.
PaymentMoves(from, to) == <<from, to>> \in PAYMENT_TRANSITIONS

CASH == "CASH_ON_DELIVERY"

\* Methods that send the customer to a gateway before the kitchen is told.
ONLINE_METHODS == {"JAZZCASH", "EASYPAISA", "CARD"}

\* The methods a customer may name when placing an order.
CUSTOMER_PAYMENT_METHODS == {CASH, "QR_TRANSFER", "JAZZCASH", "EASYPAISA"}
=============================================================================
