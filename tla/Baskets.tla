------------------------------ MODULE Baskets ------------------------------
(***************************************************************************)
(* Filling a basket until it is checked out.  A customer has one basket at *)
(* most, of one kitchen; a request loads it, decides, and then writes by   *)
(* the id of the basket or of the line it loaded.  What an order then is,  *)
(* and its stock, is module Orders.                                        *)
(***************************************************************************)
EXTENDS FiniteSets, Integers, Requests

CONSTANTS
    Customers,
    Dishes,
    KitchenOf,          \* the kitchen of each dish
    MAX_LINES_PER_CART,
    usageLimit,         \* of the one coupon there is
    perUserLimit,
    LastCart,           \* bound: baskets made in an instance
    LastLine,           \* bound: lines made in an instance
    LastQuantity,       \* bound: of a line
    NULL

VARIABLES
    carts,              \* carts with their cart_items, or NULL
    cartsMade,
    linesMade,
    usageCount,         \* of the coupon
    redemptions,        \* coupon_redemptions of a customer
    orders              \* what was ordered

tables == <<carts, cartsMade, linesMade, usageCount, redemptions, orders>>
vars == <<tables, req, overlapped>>

-----------------------------------------------------------------------------
Init ==
    /\ carts = [c \in Customers |-> NULL]
    /\ cartsMade = 0
    /\ linesMade = 0
    /\ usageCount = 0
    /\ redemptions = [c \in Customers |-> 0]
    /\ orders = {}
    /\ NoRequests

Has(c) == carts[c] # NULL

\* The basket of that id is still the customer's.
Holds(c, cart) == Has(c) /\ carts[c].id = cart
HoldsLine(c, line) == Has(c) /\ \E l \in carts[c].lines : l.id = line

EmptyCart(id, kitchen) ==
    [id |-> id, restaurant |-> kitchen, coupon |-> FALSE, pickup |-> FALSE,
     rider |-> FALSE, lines |-> {}]

KitchensOf(lines) == {KitchenOf[l.dish] : l \in lines}

Start(h, r) == Begin(h, r) /\ UNCHANGED tables
Refuse(h) == Finish(h) /\ UNCHANGED tables

\* A statement that writes a basket, or fails because it is gone.
WriteCart(c, cart) ==
    /\ carts' = [carts EXCEPT ![c] = cart]
    /\ UNCHANGED <<cartsMade, linesMade, usageCount, redemptions, orders>>

-----------------------------------------------------------------------------
(* Adding a dish.                                                          *)

\* Once it has its basket, the request merges the dish into the line it
\* loaded, or adds one.
Twin(cart, dish) == {l \in cart.lines : l.dish = dish}

Placed(h, c, dish, cart) ==
    IF Cardinality(cart.lines) >= MAX_LINES_PER_CART THEN Finish(h)
    ELSE \/ \E l \in Twin(cart, dish) :
                Continue(h, [kind |-> "increment", customer |-> c, line |-> l.id])
         \/ /\ Twin(cart, dish) = {}
            /\ Continue(h, [kind |-> "insert", customer |-> c, cart |-> cart.id, dish |-> dish])

AddCartItem(h, c, dish) == Start(h, [kind |-> "add", customer |-> c, dish |-> dish])

\* A dish of the kitchen the basket is of, or the basket is to be replaced.
FindCart(h) ==
    /\ req[h].kind = "add"
    /\ LET r == req[h]
       IN  IF Has(r.customer) /\ carts[r.customer].restaurant = KitchenOf[r.dish]
           THEN Placed(h, r.customer, r.dish, carts[r.customer])
           ELSE Continue(h, [kind |-> "open", customer |-> r.customer, dish |-> r.dish,
                             old |-> IF Has(r.customer) THEN carts[r.customer].id ELSE NULL])
    /\ UNCHANGED tables

\* The old basket must still be there to be deleted, and no other in the way.
OpenCart(h) ==
    /\ req[h].kind = "open" /\ cartsMade < LastCart
    /\ LET r == req[h]
           cart == EmptyCart(cartsMade + 1, KitchenOf[r.dish])
       IN  IF IF r.old = NULL THEN ~ Has(r.customer) ELSE Holds(r.customer, r.old)
           THEN /\ carts' = [carts EXCEPT ![r.customer] = cart]
                /\ cartsMade' = cartsMade + 1
                /\ Placed(h, r.customer, r.dish, cart)
                /\ UNCHANGED <<linesMade, usageCount, redemptions, orders>>
           ELSE Refuse(h)

\* Faulty variant: the line goes into whatever basket the customer has.
Reachable(c, cart) == Has(c)

Addable(c, cart) == Holds(c, cart)

InsertLine(h) ==
    /\ req[h].kind = "insert" /\ linesMade < LastLine
    /\ LET r == req[h]
       IN  IF Addable(r.customer, r.cart)
           THEN /\ linesMade' = linesMade + 1
                /\ carts' = [carts EXCEPT ![r.customer].lines =
                        @ \cup {[id |-> linesMade + 1, dish |-> r.dish, quantity |-> 1]}]
                /\ Finish(h)
                /\ UNCHANGED <<cartsMade, usageCount, redemptions, orders>>
           ELSE Refuse(h)

\* A line's new quantity; 0 takes it out.
Requantified(lines, line, quantity) ==
    {l \in lines : l.id # line} \cup
        IF quantity = 0 THEN {}
        ELSE {[l EXCEPT !.quantity = quantity] : l \in {k \in lines : k.id = line}}

IncrementLine(h) ==
    /\ req[h].kind = "increment"
    /\ LET r == req[h]
           cart == carts[r.customer]
       IN  IF HoldsLine(r.customer, r.line)
           THEN \E l \in cart.lines :
                /\ l.id = r.line /\ l.quantity < LastQuantity
                /\ WriteCart(r.customer,
                        [cart EXCEPT !.lines = Requantified(@, r.line, l.quantity + 1)])
                /\ Finish(h)
           ELSE Refuse(h)

-----------------------------------------------------------------------------
(* Changing and emptying a basket.                                         *)

UpdateCartItem(h, c, line, quantity) ==
    /\ HoldsLine(c, line)
    /\ Start(h, [kind |-> "update", customer |-> c, line |-> line, quantity |-> quantity])

WriteLine(h) ==
    /\ req[h].kind = "update"
    /\ LET r == req[h]
           cart == carts[r.customer]
       IN  IF HoldsLine(r.customer, r.line)
           THEN /\ WriteCart(r.customer,
                        [cart EXCEPT !.lines = Requantified(@, r.line, r.quantity)])
                /\ Continue(h, [kind |-> "refresh", customer |-> r.customer, cart |-> cart.id])
           ELSE Refuse(h)

\* Looked at again, a basket without lines is discarded,
Refresh(h) ==
    /\ req[h].kind = "refresh"
    /\ LET r == req[h]
       IN  IF Holds(r.customer, r.cart) /\ carts[r.customer].lines = {}
           THEN Continue(h, [kind |-> "discard", customer |-> r.customer])
           ELSE Finish(h)
    /\ UNCHANGED tables

\* and so is one its owner clears: whichever it is by then.
ClearCart(h, c) == Start(h, [kind |-> "clear", customer |-> c])

Clear(h) ==
    /\ req[h].kind \in {"discard", "clear"}
    /\ WriteCart(req[h].customer, NULL)
    /\ Finish(h)

-----------------------------------------------------------------------------
(* The coupon, the rider, and who carries the food.                        *)

ApplyCoupon(h, c) ==
    /\ Has(c) /\ carts[c].lines # {}
    /\ Start(h, [kind |-> "coupon", customer |-> c, cart |-> carts[c].id])

MayRedeem(c) == usageCount < usageLimit /\ redemptions[c] < perUserLimit

CheckCoupon(h) ==
    /\ req[h].kind = "coupon"
    /\ LET r == req[h]
       IN  IF MayRedeem(r.customer)
           THEN Continue(h, [kind |-> "set", customer |-> r.customer, cart |-> r.cart,
                             field |-> "coupon", to |-> TRUE])
           ELSE Finish(h)
    /\ UNCHANGED tables

RemoveCoupon(h, c) ==
    /\ Has(c)
    /\ Start(h, [kind |-> "set", customer |-> c, cart |-> carts[c].id, field |-> "coupon",
                 to |-> FALSE])

\* No rider is chosen for an order that is collected.
SetCartRider(h, c, chosen) ==
    /\ Has(c) /\ (chosen => ~ carts[c].pickup)
    /\ Start(h, [kind |-> "set", customer |-> c, cart |-> carts[c].id, field |-> "rider",
                 to |-> chosen])

SetFulfilment(h, c, pickup) ==
    /\ Has(c)
    /\ Start(h, [kind |-> "fulfil", customer |-> c, cart |-> carts[c].id, to |-> pickup,
                 hadRider |-> carts[c].rider])

\* Collecting drops the rider the request loaded, in a second statement.
WriteFulfilment(h) ==
    /\ req[h].kind = "fulfil"
    /\ LET r == req[h]
       IN  IF Holds(r.customer, r.cart)
           THEN /\ WriteCart(r.customer, [carts[r.customer] EXCEPT !.pickup = r.to])
                /\ IF r.to /\ r.hadRider
                   THEN Continue(h, [kind |-> "set", customer |-> r.customer, cart |-> r.cart,
                                     field |-> "rider", to |-> FALSE])
                   ELSE Finish(h)
           ELSE Refuse(h)

SetField(h) ==
    /\ req[h].kind = "set"
    /\ LET r == req[h]
       IN  IF Holds(r.customer, r.cart)
           THEN WriteCart(r.customer, [carts[r.customer] EXCEPT ![r.field] = r.to]) /\ Finish(h)
           ELSE Refuse(h)

-----------------------------------------------------------------------------
(* Checking out.                                                           *)

PlaceOrder(h, c) ==
    /\ Has(c) /\ carts[c].lines # {}
    /\ Start(h, [kind |-> "place", customer |-> c, basket |-> carts[c]])

\* Faulty variant: a basket that is gone no longer stops the order.
DeletableOrGone(c, cart) == TRUE

\* cart.delete fails, and the transaction with it, if the basket is gone.
Deletable(c, cart) == Holds(c, cart)

\* The order is of the basket that was loaded, the coupon as it was on it.
CommitOrder(h) ==
    /\ req[h].kind = "place"
    /\ LET c == req[h].customer
           cart == req[h].basket
           used == IF cart.coupon THEN 1 ELSE 0
       IN  IF Deletable(c, cart.id)
           THEN /\ carts' = [carts EXCEPT ![c] = NULL]
                /\ usageCount' = usageCount + used
                /\ redemptions' = [redemptions EXCEPT ![c] = @ + used]
                /\ orders' = orders \cup {[cart |-> cart.id, kitchens |-> KitchensOf(cart.lines)]}
                /\ Finish(h)
                /\ UNCHANGED <<cartsMade, linesMade>>
           ELSE Refuse(h)

-----------------------------------------------------------------------------
Proceed(h) ==
    \/ FindCart(h) \/ OpenCart(h) \/ InsertLine(h) \/ IncrementLine(h)
    \/ WriteLine(h) \/ Refresh(h) \/ Clear(h)
    \/ CheckCoupon(h) \/ WriteFulfilment(h) \/ SetField(h) \/ CommitOrder(h)

Request(h) ==
    \E c \in Customers :
        \/ \E dish \in Dishes : AddCartItem(h, c, dish)
        \/ \E line \in 1 .. linesMade, quantity \in 0 .. LastQuantity :
            UpdateCartItem(h, c, line, quantity)
        \/ ClearCart(h, c) \/ ApplyCoupon(h, c) \/ RemoveCoupon(h, c) \/ PlaceOrder(h, c)
        \/ \E yes \in BOOLEAN : SetCartRider(h, c, yes) \/ SetFulfilment(h, c, yes)

Next ==
    \/ \E h \in Handlers : Proceed(h) \/ Request(h)
    \/ Restart /\ UNCHANGED tables

Spec == Init /\ [][Next]_vars

-----------------------------------------------------------------------------
(* Properties.                                                             *)

\* "Food delivery carts cannot span restaurants": however a customer's
\* requests overlap with one that replaces the basket, no basket and no order
\* has dishes of two kitchens; and one request at a time, "identical
\* selections merge" and the lines stay within their maximum.
OneKitchenPerBasket ==
    /\ \A o \in orders : Cardinality(o.kitchens) = 1
    /\ \A c \in Customers : Has(c) =>
        /\ KitchensOf(carts[c].lines) \subseteq {carts[c].restaurant}
        /\ ~ overlapped =>
            /\ \A k, l \in carts[c].lines : k.dish = l.dish => k = l
            /\ Cardinality(carts[c].lines) <= MAX_LINES_PER_CART

\* "Redemptions allowed per user" are counted when the coupon is applied, not
\* when it is used: all the same no customer ever redeems more, because an
\* order takes its basket with it and the next one has no coupon yet.
CouponWithinUser == \A c \in Customers : redemptions[c] <= perUserLimit

-----------------------------------------------------------------------------
(* Claims that do not hold.                                                *)

\* "Total redemptions allowed across all users": the count is not looked at
\* again when the baskets it was applied to are ordered.
CouponWithinTotal == usageCount <= usageLimit

\* "The basket has become an order": a line added after it was loaded has not.
OrderedIsBasket ==
    [][\A h \in Handlers :
        LET r == req[h]
        IN  r.kind = "place" /\ orders' # orders /\ req'[h] = Idle =>
                carts[r.customer] = r.basket]_vars

\* "An emptied basket is discarded", not what was added to it meanwhile.
OnlyEmptiedDiscarded ==
    [][\A h \in Handlers :
        LET r == req[h]
        IN  r.kind = "discard" /\ req'[h] = Idle /\ Has(r.customer) =>
                carts[r.customer] = carts'[r.customer] \/ carts[r.customer].lines = {}]_vars

\* "Switching to pickup drops any chosen rider".
NobodyCarriesPickup ==
    \A c \in Customers : Has(c) /\ carts[c].pickup /\ carts[c].rider =>
        \E h \in Handlers : req[h].kind = "set"
=============================================================================
