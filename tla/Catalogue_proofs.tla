--------------------------- MODULE Catalogue_proofs ---------------------------
(***************************************************************************)
(* Proofs about the parts of the platform that say what a kitchen offers   *)
(* and when, and about the baskets that are filled from it, in the manner  *)
(* of Platform_proofs.                                                     *)
(***************************************************************************)
EXTENDS Platform_proofs

-----------------------------------------------------------------------------
(* Baskets: the id of a basket says whose it was, of which kitchen, and    *)
(* how often its customer had redeemed the coupon when it was made; so     *)
(* what a request has read of the basket holds while that id is there.     *)

LEMMA BasketsOnly == part = "baskets" /\ [Next]_vars => [B!Next]_(B!vars)
BY DEF Next, vars, Only, RidersStep, SessionsStep, CodesStep, AddressesStep, BasketsStep,
       CampaignsStep, MenusStep, OptionsStep, ListingsStep, HoursStep, OffersStep, TicketsStep,
       NoticesStep, LiveStep, baskets, B!vars, B!tables

LEMMA BasketCounts == \A set : B!Cardinality(set) = Cardinality(set)
BY DEF B!Cardinality, Cardinality

IsLine(l) == l = [id |-> l.id, dish |-> l.dish, quantity |-> l.quantity]

IsBasket(cart) ==
    /\ cart = [id |-> cart.id, restaurant |-> cart.restaurant, coupon |-> cart.coupon,
               pickup |-> cart.pickup, rider |-> cart.rider, lines |-> cart.lines]
    /\ cart.id \in 1 .. cartsMade
    /\ cart.coupon \in BOOLEAN
    /\ IsFiniteSet(cart.lines)
    /\ \A l \in cart.lines : IsLine(l) /\ KitchenOf[l.dish] = cart.restaurant

\* The customer has this basket, and the coupon on it if it is: he may redeem it.
MayRedeemOn(c, coupon) == coupon => redemptions[c] < perUserLimit

BasketsTyped ==
    /\ RequestsKept
    /\ cartsMade \in Nat
    /\ carts = [c \in Customers |-> carts[c]]
    /\ redemptions \in [Customers -> Nat]
    /\ \A c \in Customers : redemptions[c] <= perUserLimit
    /\ \A c \in Customers : B!Has(c) =>
            IsBasket(carts[c]) /\ MayRedeemOn(c, carts[c].coupon)
    /\ \A o \in orders : Cardinality(o.kitchens) = 1

BasketRequest(r) ==
    /\ r.kind # "idle" => r.customer \in Customers
    /\ r.kind \in {"insert", "coupon", "set", "fulfil"} => r.cart \in 1 .. cartsMade
    /\ r.kind = "insert" /\ B!Holds(r.customer, r.cart) =>
        carts[r.customer].restaurant = KitchenOf[r.dish]
    /\ r.kind = "set" =>
        /\ r.field \in {"coupon", "rider"} /\ r.to \in BOOLEAN
        /\ r.field = "coupon" /\ B!Holds(r.customer, r.cart) => MayRedeemOn(r.customer, r.to)
    /\ r.kind = "place" =>
        /\ IsBasket(r.basket) /\ r.basket.lines # {}
        /\ B!Holds(r.customer, r.basket.id) => MayRedeemOn(r.customer, r.basket.coupon)

\* No two lines are of one dish, and there are not too many.
Tidy(lines) ==
    /\ \A k, l \in lines : k.dish = l.dish => k = l
    /\ Cardinality(lines) <= MAX_LINES_PER_CART

\* What is to be inserted has its place.
HasPlace(r) ==
    r.kind = "insert" /\ B!Holds(r.customer, r.cart) =>
        /\ Cardinality(carts[r.customer].lines) < MAX_LINES_PER_CART
        /\ \A l \in carts[r.customer].lines : l.dish # r.dish

BasketsTidy ==
    /\ Alone
    /\ \A c \in Customers : B!Has(c) => Tidy(carts[c].lines)
    /\ \A h \in Handlers : HasPlace(req[h])

BasketsInv ==
    /\ BasketsTyped /\ \A h \in Handlers : BasketRequest(req[h])
    /\ ~ overlapped => BasketsTidy

LEMMA BasketsStart == B!Init => BasketsInv
<1> SUFFICES ASSUME B!Init PROVE BasketsInv
  OBVIOUS
<1>1. perUserLimit \in Nat
  BY PlatformAssumption
<1> QED BY <1>1 DEF B!Init, B!NoRequests, B!Idle, Idle, B!Has, RequestsKept, Alone, BasketsInv,
           BasketsTyped, BasketRequest, BasketsTidy, HasPlace

\* A line that gets a new quantity is a line of its dish still.
LEMMA LinesRequantified ==
    ASSUME NEW lines, IsFiniteSet(lines), \A l \in lines : IsLine(l), NEW line, NEW quantity,
           NEW ls, ls = B!Requantified(lines, line, quantity)
    PROVE  /\ IsFiniteSet(ls) /\ \A l \in ls : IsLine(l)
           /\ \A l \in ls : \E k \in lines : l.dish = k.dish
           /\ Tidy(lines) => Tidy(ls)
<1>0. MAX_LINES_PER_CART \in Nat
  BY PlatformAssumption
<1>1. CASE quantity = 0
  <2>1. ls \subseteq lines
    BY <1>1 DEF B!Requantified
  <2>2. IsFiniteSet(ls) /\ Cardinality(ls) <= Cardinality(lines)
    BY <2>1, FS_Subset
  <2>3. Cardinality(lines) \in Nat /\ Cardinality(ls) \in Nat
    BY <2>2, FS_CardinalityType
  <2> QED BY <1>0, <2>1, <2>2, <2>3 DEF Tidy
<1>2. CASE quantity # 0
  <2> DEFINE f == [l \in lines |-> IF l.id = line THEN [l EXCEPT !.quantity = quantity] ELSE l]
  <2>1. \A l \in lines : f[l].dish = l.dish /\ IsLine(f[l])
    BY DEF IsLine
  <2>2. ls = {f[l] : l \in lines}
    BY <1>2 DEF B!Requantified
  <2>3. f \in Surjection(lines, ls)
    BY <2>2 DEF Surjection
  <2>4. IsFiniteSet(ls) /\ Cardinality(ls) <= Cardinality(lines)
    BY <2>3, FS_Surjection DEF ExistsSurjection
  <2>5. Cardinality(lines) \in Nat /\ Cardinality(ls) \in Nat
    BY <2>4, FS_CardinalityType
  <2> HIDE DEF f
  <2>6. Tidy(lines) => Tidy(ls)
    BY <1>0, <2>1, <2>2, <2>4, <2>5 DEF Tidy
  <2> QED BY <2>1, <2>2, <2>4, <2>6
<1> QED BY <1>1, <1>2

\* A basket whose id was given before is what it was: nobody gets it back.
BasketsAge ==
    /\ cartsMade' \in Nat /\ cartsMade <= cartsMade'
    /\ \A c \in Customers : B!Has(c)' /\ carts'[c].id \in 1 .. cartsMade =>
        /\ B!Has(c) /\ carts[c].id = carts'[c].id /\ carts[c].restaurant = carts'[c].restaurant
        /\ redemptions'[c] = redemptions[c]

LEMMA BasketRequestsAge ==
    ASSUME BasketsTyped, BasketsAge, NEW r, BasketRequest(r)
    PROVE  BasketRequest(r)'
<1>1. 1 .. cartsMade \subseteq 1 .. cartsMade'
  BY DEF BasketsTyped, BasketsAge
<1>2. \A cart : IsBasket(cart) => IsBasket(cart)'
  BY <1>1 DEF IsBasket
<1>3. \A c \in Customers, id \in 1 .. cartsMade : B!Holds(c, id)' =>
            /\ B!Holds(c, id) /\ carts[c].restaurant = carts'[c].restaurant
            /\ \A coupon : MayRedeemOn(c, coupon) => MayRedeemOn(c, coupon)'
  BY DEF BasketsAge, B!Holds, B!Has, MayRedeemOn
<1>4. CASE r.kind = "place"
  <2>1. IsBasket(r.basket) /\ r.basket.id \in 1 .. cartsMade /\ r.customer \in Customers
    BY <1>4 DEF BasketRequest, IsBasket
  <2> QED BY <1>2, <1>3, <1>4, <2>1 DEF BasketRequest
<1>5. CASE r.kind # "place"
  BY <1>1, <1>3, <1>5 DEF BasketRequest
<1> QED BY <1>4, <1>5

LEMMA BasketRequestsStay ==
    ASSUME BasketsInv, BasketsAge, NEW h \in Handlers, NEW r, GoesTo(h, r),
           BasketRequest(r) \/ BasketRequest(r)'
    PROVE  RequestsKept' /\ \A g \in Handlers : BasketRequest(req[g])'
<1>1. RequestsKept' /\ \A g \in Handlers : req'[g] = IF g = h THEN r ELSE req[g]
  BY DEF GoesTo, BasketsInv, BasketsTyped, RequestsKept
<1>2. ASSUME NEW g \in Handlers PROVE BasketRequest(req[g])'
  <2>1. PICK x : x = req'[g]
    OBVIOUS
  <2>2. BasketRequest(x)'
    BY <1>1, <2>1, BasketRequestsAge DEF BasketsInv
  <2> QED BY <2>1, <2>2 DEF BasketRequest
<1> QED BY <1>1, <1>2

\* A request begins, or goes on and writes nothing.
LEMMA BasketGoesOn ==
    ASSUME BasketsInv, UNCHANGED B!tables, NEW h \in Handlers, NEW r,
           Begin(h, r) \/ (Continue(h, r) /\ req[h].kind # "idle"),
           BasketRequest(r), ~ overlapped' /\ BasketsTidy => HasPlace(r)
    PROVE  BasketsInv'
<1>1. GoesTo(h, r)
  BY DEF GoesTo, Begin, Continue
<1>2. BasketsAge
  BY DEF BasketsInv, BasketsTyped, BasketsAge, B!tables, B!Has
<1>3. RequestsKept' /\ \A g \in Handlers : BasketRequest(req[g])'
  BY <1>1, <1>2, BasketRequestsStay
<1>4. BasketsTyped'
  BY <1>3 DEF BasketsInv, BasketsTyped, B!tables, B!Has, IsBasket, MayRedeemOn
<1>5. ASSUME ~ overlapped' PROVE BasketsTidy'
  <2>1. BasketsTidy /\ OnlyMoves(h, r)
    <3>1. CASE Begin(h, r)
      BY <1>5, <3>1, BeginsAlone DEF BasketsInv, BasketsTyped
    <3>2. CASE Continue(h, r) /\ req[h].kind # "idle"
      <4>1. ~ overlapped
        BY <1>5, <3>2 DEF Continue
      <4> QED BY <3>2, <4>1, GoesOnAlone DEF BasketsInv, BasketsTyped, BasketsTidy
    <3> QED BY <3>1, <3>2
  <2>2. \A x : HasPlace(x) => HasPlace(x)'
    BY DEF HasPlace, B!Holds, B!Has, B!tables
  <2>3. ASSUME NEW g \in Handlers PROVE HasPlace(req[g])'
    <3>1. PICK x : x = req'[g]
      OBVIOUS
    <3>2. HasPlace(x)
      BY <1>5, <2>1, <3>1 DEF OnlyMoves, HasPlace, Idle
    <3> QED BY <2>2, <3>1, <3>2 DEF HasPlace
  <2>4. \A c \in Customers : B!Has(c)' => Tidy(carts'[c].lines)
    BY <2>1 DEF BasketsTidy, B!Has, B!tables
  <2> QED BY <2>1, <2>3, <2>4 DEF BasketsTidy, OnlyMoves, Tidy
<1> QED BY <1>3, <1>4, <1>5 DEF BasketsInv

\* A request goes on with r after it wrote the basket of its customer.
LEMMA BasketWritten ==
    ASSUME BasketsInv, NEW h \in Handlers, req[h].kind # "idle", NEW r, Continue(h, r),
           NEW c \in Customers, NEW cart, carts' = [carts EXCEPT ![c] = cart],
           cartsMade' \in Nat, cartsMade <= cartsMade',
           UNCHANGED <<redemptions, orders>>,
           cart # NULL =>
                /\ IsBasket(cart)' /\ MayRedeemOn(c, cart.coupon)
                /\ \/ cart.id \notin 1 .. cartsMade
                   \/ B!Has(c) /\ cart.id = carts[c].id /\ cart.restaurant = carts[c].restaurant,
           BasketRequest(r)',
           ~ overlapped /\ BasketsTidy => HasPlace(r)' /\ (cart # NULL => Tidy(cart.lines))
    PROVE  BasketsInv'
<1>1. GoesTo(h, r) /\ UNCHANGED overlapped
  BY DEF GoesTo, Continue
<1>2. \A d \in Customers : carts'[d] = IF d = c THEN cart ELSE carts[d]
  BY DEF BasketsInv, BasketsTyped
<1>3. BasketsAge
  <2>1. ASSUME NEW d \in Customers, B!Has(d)', carts'[d].id \in 1 .. cartsMade
        PROVE  /\ B!Has(d) /\ carts[d].id = carts'[d].id
               /\ carts[d].restaurant = carts'[d].restaurant
    BY <1>2, <2>1 DEF B!Has
  <2> QED BY <2>1 DEF BasketsAge
<1>4. RequestsKept' /\ \A g \in Handlers : BasketRequest(req[g])'
  BY <1>1, <1>3, BasketRequestsStay
<1>5. BasketsTyped'
  <2>1. ASSUME NEW d \in Customers, B!Has(d)'
        PROVE  IsBasket(carts[d])' /\ MayRedeemOn(d, carts[d].coupon)'
    <3>1. CASE d = c
      BY <1>2, <2>1, <3>1 DEF B!Has, IsBasket, MayRedeemOn
    <3>2. CASE d # c
      <4>1. IsBasket(carts[d]) /\ MayRedeemOn(d, carts[d].coupon) /\ carts'[d] = carts[d]
        BY <1>2, <2>1, <3>2 DEF B!Has, BasketsInv, BasketsTyped
      <4>2. 1 .. cartsMade \subseteq 1 .. cartsMade'
        BY DEF BasketsInv, BasketsTyped
      <4> QED BY <4>1, <4>2 DEF IsBasket, MayRedeemOn
    <3> QED BY <3>1, <3>2
  <2> QED BY <1>4, <2>1 DEF BasketsInv, BasketsTyped
<1>6. ASSUME ~ overlapped' PROVE BasketsTidy'
  <2>1. BasketsTidy /\ OnlyMoves(h, r)
    BY <1>1, <1>6, GoesOnAlone DEF BasketsInv, BasketsTyped, BasketsTidy
  <2>2. ASSUME NEW g \in Handlers PROVE HasPlace(req[g])'
    <3>1. CASE g = h
      BY <1>1, <1>6, <2>1, <3>1 DEF OnlyMoves, HasPlace
    <3>2. CASE g # h
      BY <2>1, <3>2 DEF OnlyMoves, HasPlace, Idle
    <3> QED BY <3>1, <3>2
  <2>3. ASSUME NEW d \in Customers, B!Has(d)' PROVE Tidy(carts'[d].lines)
    BY <1>1, <1>2, <1>6, <2>1, <2>3 DEF B!Has, BasketsTidy
  <2> QED BY <2>1, <2>2, <2>3 DEF BasketsTidy, OnlyMoves, Tidy
<1> QED BY <1>4, <1>5, <1>6 DEF BasketsInv

\* Once it has its basket, a request goes on to a line of it.
LEMMA DishPlaced ==
    ASSUME NEW h \in Handlers, NEW c \in Customers, NEW dish, NEW cart,
           B!Placed(h, c, dish, cart),
           IsFiniteSet(cart.lines)
    PROVE  \E r : /\ Continue(h, r)
                  /\ r.kind \in {"idle", "increment", "insert"}
                  /\ r.kind # "idle" => r.customer = c
                  /\ r.kind = "insert" =>
                        /\ r.cart = cart.id /\ r.dish = dish
                        /\ Cardinality(cart.lines) < MAX_LINES_PER_CART
                        /\ \A l \in cart.lines : l.dish # dish
<1>1. Cardinality(cart.lines) \in Nat /\ MAX_LINES_PER_CART \in Nat
      /\ B!Cardinality(cart.lines) = Cardinality(cart.lines)
  BY PlatformAssumption, FS_CardinalityType, BasketCounts
<1>2. CASE Continue(h, Idle)
  BY <1>2 DEF Idle
<1>3. ASSUME NEW l, Continue(h, [kind |-> "increment", customer |-> c, line |-> l.id])
      PROVE  \E r : /\ Continue(h, r) /\ r.kind = "increment" /\ r.customer = c
  BY <1>3
<1>4. ASSUME B!Twin(cart, dish) = {},
             ~ (Cardinality(cart.lines) >= MAX_LINES_PER_CART),
             Continue(h, [kind |-> "insert", customer |-> c, cart |-> cart.id, dish |-> dish])
      PROVE  \E r : /\ Continue(h, r) /\ r.kind = "insert" /\ r.customer = c
                    /\ r.cart = cart.id /\ r.dish = dish
                    /\ Cardinality(cart.lines) < MAX_LINES_PER_CART
                    /\ \A l \in cart.lines : l.dish # dish
  BY <1>1, <1>4 DEF B!Twin
<1> QED BY <1>1, <1>2, <1>3, <1>4 DEF B!Placed, B!Finish, B!Continue, B!Idle, Continue, Idle

LEMMA CartFound ==
    ASSUME BasketsInv, NEW h \in Handlers, B!FindCart(h)
    PROVE  BasketsInv'
<1> PICK c, dish : c = req[h].customer /\ dish = req[h].dish
  OBVIOUS
<1>1. UNCHANGED B!tables /\ req[h].kind = "add" /\ c \in Customers
  BY DEF B!FindCart, BasketsInv, BasketRequest
<1>2. CASE B!Has(c) /\ carts[c].restaurant = KitchenOf[dish]
  <2>1. B!Placed(h, c, dish, carts[c])
    BY <1>2 DEF B!FindCart
  <2>2. IsFiniteSet(carts[c].lines) /\ carts[c].id \in 1 .. cartsMade
    BY <1>1, <1>2 DEF BasketsInv, BasketsTyped, IsBasket
  <2>3. PICK r : /\ Continue(h, r)
                 /\ r.kind \in {"idle", "increment", "insert"}
                 /\ r.kind # "idle" => r.customer = c
                 /\ r.kind = "insert" =>
                        /\ r.cart = carts[c].id /\ r.dish = dish
                        /\ Cardinality(carts[c].lines) < MAX_LINES_PER_CART
                        /\ \A l \in carts[c].lines : l.dish # dish
    BY <1>1, <1>2, <2>1, <2>2, DishPlaced
  <2>4. BasketRequest(r) /\ HasPlace(r)
    BY <1>1, <1>2, <2>2, <2>3 DEF BasketRequest, HasPlace
  <2> QED BY <1>1, <2>3, <2>4, BasketGoesOn
<1>3. CASE ~ (B!Has(c) /\ carts[c].restaurant = KitchenOf[dish])
  <2> PICK r : r = [kind |-> "open", customer |-> c, dish |-> dish,
                    old |-> IF B!Has(c) THEN carts[c].id ELSE NULL]
    OBVIOUS
  <2>1. Continue(h, r)
    BY <1>3 DEF B!FindCart, B!Continue, Continue
  <2>2. BasketRequest(r) /\ HasPlace(r)
    BY <1>1 DEF BasketRequest, HasPlace
  <2> QED BY <1>1, <2>1, <2>2, BasketGoesOn
<1> QED BY <1>2, <1>3

\* A request ends and writes nothing.
LEMMA BasketRefused ==
    ASSUME BasketsInv, NEW h \in Handlers, req[h].kind # "idle", Continue(h, Idle),
           UNCHANGED B!tables
    PROVE  BasketsInv'
<1>1. BasketRequest(Idle) /\ HasPlace(Idle)
  BY DEF BasketRequest, HasPlace, Idle
<1> QED BY <1>1, BasketGoesOn

LEMMA CartOpened ==
    ASSUME BasketsInv, NEW h \in Handlers, B!OpenCart(h)
    PROVE  BasketsInv'
<1> PICK c, dish : c = req[h].customer /\ dish = req[h].dish
  OBVIOUS
<1>1. req[h].kind = "open" /\ c \in Customers
  BY DEF B!OpenCart, BasketsInv, BasketRequest
<1>2. CASE B!Refuse(h)
  BY <1>1, <1>2, BasketRefused
     DEF B!Refuse, B!Finish, B!Continue, B!Idle, Continue, Idle
<1>3. CASE ~ B!Refuse(h)
  <2> PICK cart : cart = B!EmptyCart(cartsMade + 1, KitchenOf[dish])
    OBVIOUS
  <2>1. /\ carts' = [carts EXCEPT ![c] = cart] /\ cartsMade' = cartsMade + 1
        /\ B!Placed(h, c, dish, cart) /\ UNCHANGED <<redemptions, orders>>
    BY <1>3 DEF B!OpenCart
  <2>2. cartsMade \in Nat /\ cartsMade' \in Nat /\ cartsMade <= cartsMade'
    BY <2>1 DEF BasketsInv, BasketsTyped
  <2>3. /\ cart.lines = {} /\ cart.id = cartsMade + 1 /\ cart.restaurant = KitchenOf[dish]
        /\ cart.coupon = FALSE
        /\ cart = [id |-> cart.id, restaurant |-> cart.restaurant, coupon |-> cart.coupon,
                   pickup |-> cart.pickup, rider |-> cart.rider, lines |-> cart.lines]
    BY DEF B!EmptyCart
  <2>4. cart.id \in 1 .. cartsMade' /\ cart.id \notin 1 .. cartsMade
    BY <2>1, <2>2, <2>3
  <2>5. IsFiniteSet({}) /\ Cardinality({}) = 0
    BY FS_EmptySet
  <2>6. IsBasket(cart)' /\ MayRedeemOn(c, cart.coupon) /\ Tidy(cart.lines)
    <3>1. IsFiniteSet(cart.lines) /\ Cardinality(cart.lines) = 0 /\ MAX_LINES_PER_CART \in Nat
      BY <2>3, <2>5, PlatformAssumption
    <3>2. IsBasket(cart)'
      BY <2>3, <2>4, <3>1 DEF IsBasket
    <3> QED BY <2>3, <3>1, <3>2 DEF MayRedeemOn, Tidy
  <2>7. PICK r : /\ Continue(h, r)
                 /\ r.kind \in {"idle", "increment", "insert"}
                 /\ r.kind # "idle" => r.customer = c
                 /\ r.kind = "insert" =>
                        /\ r.cart = cart.id /\ r.dish = dish
                        /\ Cardinality(cart.lines) < MAX_LINES_PER_CART
                        /\ \A l \in cart.lines : l.dish # dish
    <3>1. IsFiniteSet(cart.lines)
      BY <2>3, <2>5
    <3> QED BY <1>1, <2>1, <3>1, DishPlaced
  <2>8. carts'[c] = cart
    BY <1>1, <2>1 DEF BasketsInv, BasketsTyped
  <2>9. BasketRequest(r)' /\ HasPlace(r)'
    BY <1>1, <2>3, <2>4, <2>7, <2>8 DEF BasketRequest, HasPlace
  <2>10. req[h].kind # "idle" /\ UNCHANGED <<redemptions, orders>>
    BY <1>1, <2>1
  <2>11. carts' = [carts EXCEPT ![c] = cart] /\ Continue(h, r)
    BY <2>1, <2>7
  <2> QED BY <1>1, <2>2, <2>4, <2>6, <2>9, <2>10, <2>11, BasketWritten
<1> QED BY <1>2, <1>3

\* The customer's basket with what a statement writes into it.
Corrected(cart, old) ==
    /\ cart = [id |-> old.id, restaurant |-> old.restaurant, coupon |-> cart.coupon,
               pickup |-> cart.pickup, rider |-> cart.rider, lines |-> cart.lines]
    /\ cart.coupon \in BOOLEAN
    /\ IsFiniteSet(cart.lines)
    /\ \A l \in cart.lines : IsLine(l) /\ KitchenOf[l.dish] = old.restaurant

LEMMA BasketCorrected ==
    ASSUME BasketsInv, NEW h \in Handlers, req[h].kind # "idle", NEW r, Continue(h, r),
           NEW c \in Customers, B!Has(c), NEW cart, carts' = [carts EXCEPT ![c] = cart],
           UNCHANGED <<cartsMade, redemptions, orders>>,
           Corrected(cart, carts[c]), MayRedeemOn(c, cart.coupon),
           BasketRequest(r), r.kind # "insert",
           ~ overlapped /\ BasketsTidy => Tidy(cart.lines)
    PROVE  BasketsInv'
<1>1. cartsMade \in Nat /\ carts[c].id \in 1 .. cartsMade
  BY DEF BasketsInv, BasketsTyped, IsBasket
<1>2. cart.id = carts[c].id /\ cart.restaurant = carts[c].restaurant /\ IsBasket(cart)'
  BY <1>1 DEF Corrected, IsBasket
<1>3. HasPlace(r)'
  BY DEF HasPlace
<1>4. BasketsAge
  <2>1. carts'[c] = cart /\ \A d \in Customers \ {c} : carts'[d] = carts[d]
    BY DEF BasketsInv, BasketsTyped
  <2> QED BY <1>1, <1>2, <2>1 DEF BasketsAge, B!Has
<1>5. BasketRequest(r)'
  BY <1>4, BasketRequestsAge DEF BasketsInv
<1>6. cartsMade' \in Nat /\ cartsMade <= cartsMade' /\ UNCHANGED <<redemptions, orders>>
  BY <1>1
<1> QED BY <1>2, <1>3, <1>5, <1>6, BasketWritten

LEMMA LineInserted ==
    ASSUME BasketsInv, NEW h \in Handlers, B!InsertLine(h)
    PROVE  BasketsInv'
<1> PICK c, dish : c = req[h].customer /\ dish = req[h].dish
  OBVIOUS
<1>1. req[h].kind = "insert" /\ c \in Customers
  BY DEF B!InsertLine, BasketsInv, BasketRequest
<1>2. CASE B!Refuse(h)
  BY <1>1, <1>2, BasketRefused DEF B!Refuse, B!Finish, B!Continue, B!Idle, Continue, Idle
<1>3. CASE ~ B!Refuse(h)
  <2> PICK new : new = [id |-> linesMade + 1, dish |-> dish, quantity |-> 1]
    OBVIOUS
  <2> PICK old : old = carts[c]
    OBVIOUS
  <2> PICK cart : cart = [old EXCEPT !.lines = old.lines \cup {new}]
    OBVIOUS
  <2>1. /\ B!Holds(c, req[h].cart)
        /\ carts' = [carts EXCEPT ![c].lines = @ \cup {new}]
        /\ Continue(h, Idle) /\ UNCHANGED <<cartsMade, redemptions, orders>>
    BY <1>3 DEF B!InsertLine, B!Addable, B!Finish, B!Continue, B!Idle, Continue, Idle
  <2>2. B!Has(c) /\ IsBasket(old) /\ MayRedeemOn(c, old.coupon) /\ KitchenOf[dish] = old.restaurant
    BY <1>1, <2>1 DEF BasketsInv, BasketsTyped, BasketRequest, B!Holds
  <2>3. carts' = [carts EXCEPT ![c] = cart]
    BY <1>1, <2>1, <2>2 DEF BasketsInv, BasketsTyped, IsBasket
  <2>4. /\ cart = [id |-> old.id, restaurant |-> old.restaurant, coupon |-> old.coupon,
                   pickup |-> old.pickup, rider |-> old.rider, lines |-> cart.lines]
        /\ cart.lines = old.lines \cup {new} /\ cart.coupon = old.coupon
    BY <2>2 DEF IsBasket
  <2>5. /\ IsFiniteSet(cart.lines)
        /\ Cardinality(cart.lines) =
                IF new \in old.lines THEN Cardinality(old.lines) ELSE Cardinality(old.lines) + 1
    BY <2>2, <2>4, FS_AddElement DEF IsBasket
  <2>6. IsLine(new) /\ new.dish = dish
    BY DEF IsLine
  <2>7. \A l \in cart.lines : IsLine(l) /\ KitchenOf[l.dish] = old.restaurant
    BY <2>2, <2>4, <2>6 DEF IsBasket
  <2>8. Corrected(cart, old)
    <3>1. cart = [id |-> old.id, restaurant |-> old.restaurant, coupon |-> cart.coupon,
                  pickup |-> cart.pickup, rider |-> cart.rider, lines |-> cart.lines]
      BY <2>4
    <3>2. cart.coupon \in BOOLEAN
      BY <2>2, <2>4 DEF IsBasket
    <3> QED BY <2>5, <2>7, <3>1, <3>2 DEF Corrected
  <2>9. ASSUME ~ overlapped, BasketsTidy PROVE Tidy(cart.lines)
    <3>1. /\ Tidy(old.lines) /\ Cardinality(old.lines) < MAX_LINES_PER_CART
          /\ \A l \in old.lines : l.dish # dish
      BY <1>1, <2>1, <2>2, <2>9 DEF BasketsTidy, HasPlace
    <3>2. new \notin old.lines /\ Cardinality(old.lines) \in Nat /\ MAX_LINES_PER_CART \in Nat
      BY <2>2, <2>6, <3>1, FS_CardinalityType, PlatformAssumption DEF IsBasket
    <3>3. Cardinality(cart.lines) <= MAX_LINES_PER_CART
      BY <2>5, <3>1, <3>2
    <3>4. \A k, l \in cart.lines : k.dish = l.dish => k = l
      BY <2>4, <2>6, <3>1 DEF Tidy
    <3> QED BY <3>3, <3>4 DEF Tidy
  <2>10. BasketRequest(Idle) /\ Idle.kind # "insert" /\ MayRedeemOn(c, cart.coupon)
    BY <2>2, <2>4 DEF BasketRequest, Idle
  <2> QED BY <1>1, <2>1, <2>2, <2>3, <2>8, <2>9, <2>10, BasketCorrected
<1> QED BY <1>2, <1>3

\* A line of the basket has a new quantity, or is taken out.
LEMMA LineWritten ==
    ASSUME BasketsInv, NEW h \in Handlers, req[h].kind # "idle", NEW r, Continue(h, r),
           NEW c \in Customers, B!Has(c), NEW line, NEW quantity,
           B!WriteCart(c, [carts[c] EXCEPT !.lines = B!Requantified(@, line, quantity)]),
           BasketRequest(r), r.kind # "insert"
    PROVE  BasketsInv'
<1> PICK old : old = carts[c]
  OBVIOUS
<1> PICK ls : ls = B!Requantified(old.lines, line, quantity)
  OBVIOUS
<1> PICK cart : cart = [old EXCEPT !.lines = ls]
  OBVIOUS
<1>1. IsBasket(old) /\ MayRedeemOn(c, old.coupon)
  BY DEF BasketsInv, BasketsTyped
<1>2. carts' = [carts EXCEPT ![c] = cart] /\ UNCHANGED <<cartsMade, redemptions, orders>>
  BY DEF B!WriteCart
<1>3. /\ IsFiniteSet(ls) /\ \A l \in ls : IsLine(l)
      /\ \A l \in ls : \E k \in old.lines : l.dish = k.dish
      /\ Tidy(old.lines) => Tidy(ls)
  <2>1. IsFiniteSet(old.lines) /\ \A l \in old.lines : IsLine(l)
    BY <1>1 DEF IsBasket
  <2> QED BY <2>1, LinesRequantified
<1>4. /\ cart = [id |-> old.id, restaurant |-> old.restaurant, coupon |-> cart.coupon,
                 pickup |-> cart.pickup, rider |-> cart.rider, lines |-> cart.lines]
      /\ cart.lines = ls /\ cart.coupon = old.coupon
  BY <1>1 DEF IsBasket
<1>5. Corrected(cart, old)
  <2>1. \A l \in ls : KitchenOf[l.dish] = old.restaurant
    BY <1>1, <1>3 DEF IsBasket
  <2>2. cart.coupon \in BOOLEAN
    BY <1>1, <1>4 DEF IsBasket
  <2> QED BY <1>3, <1>4, <2>1, <2>2 DEF Corrected
<1>6. ASSUME ~ overlapped, BasketsTidy PROVE Tidy(cart.lines)
  BY <1>3, <1>4, <1>6 DEF BasketsTidy
<1>7. MayRedeemOn(c, cart.coupon)
  BY <1>1, <1>4
<1> QED BY <1>2, <1>5, <1>6, <1>7, BasketCorrected

\* A field of the basket is set.
LEMMA FieldWritten ==
    ASSUME BasketsInv, NEW h \in Handlers, req[h].kind # "idle", NEW r, Continue(h, r),
           NEW c \in Customers, B!Has(c), NEW field \in {"coupon", "rider", "pickup"}, NEW to,
           B!WriteCart(c, [carts[c] EXCEPT ![field] = to]),
           field = "coupon" => to \in BOOLEAN /\ MayRedeemOn(c, to),
           BasketRequest(r), r.kind # "insert"
    PROVE  BasketsInv'
<1> PICK old : old = carts[c]
  OBVIOUS
<1> PICK cart : cart = [old EXCEPT ![field] = to]
  OBVIOUS
<1>1. IsBasket(old) /\ MayRedeemOn(c, old.coupon)
  BY DEF BasketsInv, BasketsTyped
<1>2. carts' = [carts EXCEPT ![c] = cart] /\ UNCHANGED <<cartsMade, redemptions, orders>>
  BY DEF B!WriteCart
<1>3. /\ cart = [id |-> old.id, restaurant |-> old.restaurant, coupon |-> cart.coupon,
                 pickup |-> cart.pickup, rider |-> cart.rider, lines |-> cart.lines]
      /\ cart.lines = old.lines
      /\ cart.coupon = IF field = "coupon" THEN to ELSE old.coupon
  <2>1. CASE field = "coupon"
    BY <1>1, <2>1 DEF IsBasket
  <2>2. CASE field = "rider"
    BY <1>1, <2>2 DEF IsBasket
  <2>3. CASE field = "pickup"
    BY <1>1, <2>3 DEF IsBasket
  <2> QED BY <2>1, <2>2, <2>3
<1>4. cart.coupon \in BOOLEAN /\ MayRedeemOn(c, cart.coupon)
  BY <1>1, <1>3 DEF IsBasket
<1>5. Corrected(cart, old)
  BY <1>1, <1>3, <1>4 DEF Corrected, IsBasket
<1>6. ASSUME ~ overlapped, BasketsTidy PROVE Tidy(cart.lines)
  BY <1>3, <1>6 DEF BasketsTidy
<1> QED BY <1>2, <1>4, <1>5, <1>6, BasketCorrected

LEMMA BasketCleared ==
    ASSUME BasketsInv, NEW h \in Handlers, B!Clear(h)
    PROVE  BasketsInv'
<1> PICK c : c = req[h].customer
  OBVIOUS
<1>1. /\ req[h].kind # "idle" /\ c \in Customers /\ Continue(h, Idle)
      /\ carts' = [carts EXCEPT ![c] = NULL] /\ UNCHANGED <<cartsMade, redemptions, orders>>
  BY DEF B!Clear, BasketsInv, BasketRequest, B!WriteCart, B!Finish, B!Continue, B!Idle, Continue,
     Idle
<1>2. cartsMade' \in Nat /\ cartsMade <= cartsMade'
  BY <1>1 DEF BasketsInv, BasketsTyped
<1>3. BasketRequest(Idle)' /\ HasPlace(Idle)'
  BY DEF BasketRequest, HasPlace, Idle
<1> QED BY <1>1, <1>2, <1>3, BasketWritten

\* The order takes the basket, which pays for one redemption.
LEMMA OrderCommitted ==
    ASSUME BasketsInv, NEW h \in Handlers, B!CommitOrder(h)
    PROVE  BasketsInv'
<1> PICK c, cart : c = req[h].customer /\ cart = req[h].basket
  OBVIOUS
<1> PICK used : used = IF cart.coupon THEN 1 ELSE 0
  OBVIOUS
<1>1. /\ req[h].kind = "place" /\ c \in Customers /\ IsBasket(cart) /\ cart.lines # {}
      /\ B!Holds(c, cart.id) => MayRedeemOn(c, cart.coupon)
  BY DEF B!CommitOrder, BasketsInv, BasketRequest
<1>2. CASE B!Refuse(h)
  BY <1>1, <1>2, BasketRefused DEF B!Refuse, B!Finish, B!Continue, B!Idle, Continue, Idle
<1>3. CASE ~ B!Refuse(h)
  <2>1. /\ B!Holds(c, cart.id) /\ carts' = [carts EXCEPT ![c] = NULL]
        /\ redemptions' = [redemptions EXCEPT ![c] = @ + used]
        /\ orders' = orders \cup {[cart |-> cart.id, kitchens |-> B!KitchensOf(cart.lines)]}
        /\ Continue(h, Idle) /\ UNCHANGED cartsMade
    BY <1>3 DEF B!CommitOrder, B!Deletable, B!Finish, B!Continue, B!Idle, Continue, Idle
  <2>2. /\ \A d \in Customers \ {c} : redemptions'[d] = redemptions[d] /\ carts'[d] = carts[d]
        /\ carts'[c] = NULL /\ redemptions \in [Customers -> Nat] /\ cartsMade \in Nat
        /\ redemptions'[c] = redemptions[c] + used
    BY <1>1, <2>1 DEF BasketsInv, BasketsTyped
  <2>3. used \in Nat /\ redemptions[c] + used <= perUserLimit
    <3>1. redemptions[c] \in Nat /\ redemptions[c] <= perUserLimit /\ perUserLimit \in Nat
      BY <1>1, <2>2, PlatformAssumption DEF BasketsInv, BasketsTyped
    <3>2. cart.coupon => redemptions[c] < perUserLimit
      BY <1>1, <2>1 DEF MayRedeemOn
    <3> QED BY <3>1, <3>2
  <2>4. redemptions' \in [Customers -> Nat] /\ \A d \in Customers : redemptions'[d] <= perUserLimit
    BY <1>1, <2>1, <2>2, <2>3 DEF BasketsInv, BasketsTyped
  <2>5. BasketsAge
    BY <1>1, <2>1, <2>2 DEF BasketsAge, B!Has
  <2>6. GoesTo(h, Idle) /\ UNCHANGED overlapped
    BY <2>1 DEF GoesTo, Continue
  <2>7. RequestsKept' /\ \A g \in Handlers : BasketRequest(req[g])'
    <3>1. BasketRequest(Idle)
      BY DEF BasketRequest, Idle
    <3> QED BY <2>5, <2>6, <3>1, BasketRequestsStay
  <2>8. \A d \in Customers : B!Has(d)' =>
            d # c /\ B!Has(d) /\ carts'[d] = carts[d] /\ redemptions'[d] = redemptions[d]
    BY <2>2 DEF B!Has
  <2>9. Cardinality(B!KitchensOf(cart.lines)) = 1
    <3>1. B!KitchensOf(cart.lines) = {cart.restaurant}
      BY <1>1 DEF B!KitchensOf, IsBasket
    <3> QED BY <3>1, FS_Singleton
  <2>10. BasketsTyped'
    <3>1. \A o \in orders' : Cardinality(o.kitchens) = 1
      BY <2>1, <2>9 DEF BasketsInv, BasketsTyped
    <3>2. \A d \in Customers : B!Has(d)' => IsBasket(carts[d])' /\ MayRedeemOn(d, carts[d].coupon)'
      <4>1. ASSUME NEW d \in Customers, B!Has(d)'
            PROVE  IsBasket(carts[d])' /\ MayRedeemOn(d, carts[d].coupon)'
        <5>1. IsBasket(carts[d]) /\ MayRedeemOn(d, carts[d].coupon)
          BY <2>8, <4>1 DEF BasketsInv, BasketsTyped
        <5>2. carts'[d] = carts[d] /\ redemptions'[d] = redemptions[d] /\ cartsMade' = cartsMade
          BY <2>1, <2>8, <4>1
        <5> QED BY <5>1, <5>2 DEF IsBasket, MayRedeemOn
      <4> QED BY <4>1
    <3>3. carts' = [d \in Customers |-> carts'[d]]
      BY <2>1 DEF BasketsInv, BasketsTyped
    <3> QED BY <2>1, <2>2, <2>4, <2>7, <3>1, <3>2, <3>3 DEF BasketsTyped
  <2>11. ASSUME ~ overlapped' PROVE BasketsTidy'
    <3>1. BasketsTidy /\ OnlyMoves(h, Idle)
      BY <1>1, <2>1, <2>6, <2>11, GoesOnAlone DEF BasketsInv, BasketsTyped, BasketsTidy
    <3>2. \A g \in Handlers : HasPlace(req[g])'
      BY <3>1 DEF OnlyMoves, HasPlace, Idle
    <3> QED BY <2>8, <3>1, <3>2 DEF BasketsTidy, OnlyMoves, Tidy
  <2> QED BY <2>7, <2>10, <2>11 DEF BasketsInv
<1> QED BY <1>2, <1>3

LEMMA BasketsKept == BasketsInv /\ [B!Next]_(B!vars) => BasketsInv'
<1> SUFFICES ASSUME BasketsInv, [B!Next]_(B!vars) PROVE BasketsInv'
  OBVIOUS
<1> USE DEF B!Begin, B!Finish, B!Continue, B!Idle
\* What a customer asks for begins with what is read of the basket there is.
<1>1. ASSUME NEW h \in Handlers, NEW r, B!Start(h, r), BasketRequest(r), r.kind # "insert"
      PROVE  BasketsInv'
  <2>1. Begin(h, r) /\ UNCHANGED B!tables
    BY <1>1 DEF B!Start, Begin, Idle
  <2> QED BY <1>1, <2>1, BasketGoesOn DEF HasPlace
<1>2. \A c \in Customers : B!Has(c) =>
        /\ carts[c].id \in 1 .. cartsMade /\ IsBasket(carts[c])
        /\ MayRedeemOn(c, carts[c].coupon)
  BY DEF BasketsInv, BasketsTyped, IsBasket
<1>3. ASSUME NEW h \in Handlers, NEW c \in Customers, NEW dish \in Dishes,
             B!AddCartItem(h, c, dish)
      PROVE  BasketsInv'
  BY <1>1, <1>3 DEF B!AddCartItem, BasketRequest
<1>4. ASSUME NEW h \in Handlers, NEW c \in Customers, NEW line, NEW quantity,
             B!UpdateCartItem(h, c, line, quantity)
      PROVE  BasketsInv'
  BY <1>1, <1>4 DEF B!UpdateCartItem, BasketRequest
<1>5. ASSUME NEW h \in Handlers, NEW c \in Customers, B!ClearCart(h, c)
      PROVE  BasketsInv'
  BY <1>1, <1>5 DEF B!ClearCart, BasketRequest
<1>6. ASSUME NEW h \in Handlers, NEW c \in Customers, B!ApplyCoupon(h, c)
      PROVE  BasketsInv'
  BY <1>1, <1>2, <1>6 DEF B!ApplyCoupon, BasketRequest
<1>7. ASSUME NEW h \in Handlers, NEW c \in Customers, B!RemoveCoupon(h, c)
      PROVE  BasketsInv'
  BY <1>1, <1>2, <1>7 DEF B!RemoveCoupon, BasketRequest, MayRedeemOn
<1>8. ASSUME NEW h \in Handlers, NEW c \in Customers, NEW chosen \in BOOLEAN,
             B!SetCartRider(h, c, chosen)
      PROVE  BasketsInv'
  BY <1>1, <1>2, <1>8 DEF B!SetCartRider, BasketRequest
<1>9. ASSUME NEW h \in Handlers, NEW c \in Customers, NEW pickup, B!SetFulfilment(h, c, pickup)
      PROVE  BasketsInv'
  BY <1>1, <1>2, <1>9 DEF B!SetFulfilment, BasketRequest
<1>10. ASSUME NEW h \in Handlers, NEW c \in Customers, B!PlaceOrder(h, c)
       PROVE  BasketsInv'
  <2> PICK r : r = [kind |-> "place", customer |-> c, basket |-> carts[c]]
    OBVIOUS
  <2>1. B!Start(h, r) /\ B!Has(c) /\ carts[c].lines # {}
    BY <1>10 DEF B!PlaceOrder
  <2>2. BasketRequest(r)
    BY <1>2, <2>1 DEF BasketRequest
  <2> QED BY <1>1, <2>1, <2>2
<1>11. \A h \in Handlers : BasketRequest(req[h])
  BY DEF BasketsInv
<1>12. ASSUME NEW h \in Handlers, B!Refuse(h), req[h].kind # "idle" PROVE BasketsInv'
  BY <1>12, BasketRefused DEF B!Refuse, Continue, Idle
<1>13. BasketRequest(Idle) /\ Idle.kind = "idle"
  BY DEF BasketRequest, Idle
<1>14. ASSUME NEW h \in Handlers, B!IncrementLine(h) PROVE BasketsInv'
  <2> PICK c : c = req[h].customer
    OBVIOUS
  <2>1. req[h].kind = "increment" /\ c \in Customers
    BY <1>11, <1>14 DEF B!IncrementLine, BasketRequest
  <2>2. CASE ~ B!Refuse(h)
    <3>1. /\ B!Has(c) /\ Continue(h, Idle)
          /\ \E q : B!WriteCart(c, [carts[c] EXCEPT !.lines =
                                        B!Requantified(@, req[h].line, q)])
      BY <1>14, <2>2 DEF B!IncrementLine, B!HoldsLine, Continue, Idle
    <3> QED BY <1>13, <2>1, <3>1, LineWritten
  <2> QED BY <1>12, <2>1, <2>2
<1>15. ASSUME NEW h \in Handlers, B!WriteLine(h) PROVE BasketsInv'
  <2> PICK c : c = req[h].customer
    OBVIOUS
  <2>1. req[h].kind = "update" /\ c \in Customers
    BY <1>11, <1>15 DEF B!WriteLine, BasketRequest
  <2>2. CASE ~ B!Refuse(h)
    <3> PICK r : r = [kind |-> "refresh", customer |-> c, cart |-> carts[c].id]
      OBVIOUS
    <3>1. /\ B!Has(c) /\ Continue(h, r)
          /\ B!WriteCart(c, [carts[c] EXCEPT !.lines =
                                B!Requantified(@, req[h].line, req[h].quantity)])
      BY <1>15, <2>2 DEF B!WriteLine, B!HoldsLine, Continue, Idle
    <3>2. BasketRequest(r) /\ r.kind # "insert"
      BY <2>1 DEF BasketRequest
    <3> QED BY <2>1, <3>1, <3>2, LineWritten
  <2> QED BY <1>12, <2>1, <2>2
<1>16. ASSUME NEW h \in Handlers, B!Refresh(h) PROVE BasketsInv'
  <2> PICK c : c = req[h].customer
    OBVIOUS
  <2>1. req[h].kind = "refresh" /\ c \in Customers /\ UNCHANGED B!tables
    BY <1>11, <1>16 DEF B!Refresh, BasketRequest
  <2> PICK r : r = [kind |-> "discard", customer |-> c]
    OBVIOUS
  <2>2. Continue(h, r) \/ Continue(h, Idle)
    BY <1>16 DEF B!Refresh, Continue, Idle
  <2>3. BasketRequest(r) /\ r.kind # "insert"
    BY <2>1 DEF BasketRequest
  <2> QED BY <1>13, <2>1, <2>2, <2>3, BasketGoesOn DEF HasPlace
<1>17. ASSUME NEW h \in Handlers, B!CheckCoupon(h) PROVE BasketsInv'
  <2> PICK c : c = req[h].customer
    OBVIOUS
  <2>1. req[h].kind = "coupon" /\ c \in Customers /\ req[h].cart \in 1 .. cartsMade
        /\ UNCHANGED B!tables
    BY <1>11, <1>17 DEF B!CheckCoupon, BasketRequest
  <2> PICK r : r = [kind |-> "set", customer |-> c, cart |-> req[h].cart, field |-> "coupon",
                    to |-> TRUE]
    OBVIOUS
  <2>2. Continue(h, Idle) \/ (Continue(h, r) /\ B!MayRedeem(c))
    BY <1>17 DEF B!CheckCoupon, Continue, Idle
  <2>3. B!MayRedeem(c) => BasketRequest(r)
    BY <2>1 DEF BasketRequest, B!MayRedeem, MayRedeemOn
  <2>4. r.kind # "insert"
    OBVIOUS
  <2> QED BY <1>13, <2>1, <2>2, <2>3, <2>4, BasketGoesOn DEF HasPlace
<1>18. ASSUME NEW h \in Handlers, B!WriteFulfilment(h) PROVE BasketsInv'
  <2> PICK c : c = req[h].customer
    OBVIOUS
  <2>1. req[h].kind = "fulfil" /\ c \in Customers /\ req[h].cart \in 1 .. cartsMade
    BY <1>11, <1>18 DEF B!WriteFulfilment, BasketRequest
  <2>2. CASE ~ B!Refuse(h)
    <3> PICK r : r = [kind |-> "set", customer |-> c, cart |-> req[h].cart, field |-> "rider",
                      to |-> FALSE]
      OBVIOUS
    <3>1. /\ B!Has(c) /\ (Continue(h, r) \/ Continue(h, Idle))
          /\ B!WriteCart(c, [carts[c] EXCEPT !.pickup = req[h].to])
      BY <1>18, <2>2 DEF B!WriteFulfilment, B!Holds, Continue, Idle
    <3>2. BasketRequest(r) /\ r.kind # "insert"
      BY <2>1 DEF BasketRequest
    <3>3. "pickup" \in {"coupon", "rider", "pickup"} /\ "pickup" # "coupon"
      OBVIOUS
    <3>4. B!WriteCart(c, [carts[c] EXCEPT !["pickup"] = req[h].to])
      BY <3>1
    <3> QED BY <1>13, <2>1, <3>1, <3>2, <3>3, <3>4, FieldWritten
  <2> QED BY <1>12, <2>1, <2>2
<1>19. ASSUME NEW h \in Handlers, B!SetField(h) PROVE BasketsInv'
  <2> PICK c : c = req[h].customer
    OBVIOUS
  <2>1. req[h].kind = "set" /\ c \in Customers /\ req[h].field \in {"coupon", "rider"}
        /\ req[h].to \in BOOLEAN
    BY <1>11, <1>19 DEF B!SetField, BasketRequest
  <2>2. CASE ~ B!Refuse(h)
    <3>1. /\ B!Has(c) /\ Continue(h, Idle) /\ B!Holds(c, req[h].cart)
          /\ B!WriteCart(c, [carts[c] EXCEPT ![req[h].field] = req[h].to])
      BY <1>19, <2>2 DEF B!SetField, B!Holds, Continue, Idle
    <3>2. req[h].field = "coupon" => MayRedeemOn(c, req[h].to)
      BY <1>11, <2>1, <3>1 DEF BasketRequest
    <3> QED BY <1>13, <2>1, <3>1, <3>2, FieldWritten
  <2> QED BY <1>12, <2>1, <2>2
<1>20. CASE (B!Restart /\ UNCHANGED B!tables) \/ UNCHANGED B!vars
  <2>1. UNCHANGED <<B!tables, overlapped>>
    BY <1>20 DEF B!Restart, B!vars
  <2>2. RequestsKept' /\ \A h \in Handlers : req'[h] = req[h] \/ req'[h] = Idle
    BY <1>20 DEF B!Restart, B!vars, RequestsKept, BasketsInv, BasketsTyped, Idle
  <2>3. BasketsTyped'
    BY <2>1, <2>2 DEF BasketsInv, BasketsTyped, B!tables, B!Has, IsBasket, MayRedeemOn
  <2>4. \A x : (BasketRequest(x) => BasketRequest(x)') /\ (HasPlace(x) => HasPlace(x)')
    BY <2>1 DEF B!tables, BasketRequest, HasPlace, IsBasket, MayRedeemOn, B!Holds, B!Has
  <2>5. ASSUME NEW h \in Handlers
        PROVE  BasketRequest(req[h])' /\ (~ overlapped => HasPlace(req[h])')
    <3> PICK x : x = req'[h]
      OBVIOUS
    <3>1. BasketRequest(x) /\ (~ overlapped => HasPlace(x))
      BY <1>11, <1>13, <2>2 DEF HasPlace, BasketsInv, BasketsTidy
    <3> QED BY <2>4, <3>1 DEF BasketRequest, HasPlace
  <2>6. ~ overlapped' => BasketsTidy'
    BY <2>1, <2>2, <2>5 DEF BasketsInv, BasketsTidy, B!tables, B!Has, Alone, Tidy
  <2> QED BY <2>3, <2>5, <2>6 DEF BasketsInv
<1> QED BY <1>3, <1>4, <1>5, <1>6, <1>7, <1>8, <1>9, <1>10, <1>14, <1>15, <1>16, <1>17, <1>18,
           <1>19, <1>20, CartFound, CartOpened, LineInserted, BasketCleared, OrderCommitted
        DEF B!Next, B!Proceed, B!Request

\* However a customer's requests overlap, no basket and no order has dishes of
\* two kitchens and no customer redeems a coupon more often than he may; while
\* they do not, the lines of a basket are of different dishes and not too many.
THEOREM BasketsStayFair == Spec => []BasketsAreFair
<1> DEFINE Inv == part = "baskets" => BasketsInv
<1>1. Init => Inv
  BY BasketsStart DEF Init
<1>2. Inv /\ [Next]_vars => Inv'
  BY PartStays, BasketsOnly, BasketsKept
<1>3. Inv => BasketsAreFair
  <2> SUFFICES ASSUME BasketsInv PROVE B!OneKitchenPerBasket /\ B!CouponWithinUser
    BY DEF BasketsAreFair
  <2>1. \A c \in Customers :
            B!Has(c) => B!KitchensOf(carts[c].lines) \subseteq {carts[c].restaurant}
    BY DEF BasketsInv, BasketsTyped, IsBasket, B!KitchensOf
  <2>2. ~ overlapped => \A c \in Customers : B!Has(c) => Tidy(carts[c].lines)
    BY DEF BasketsInv, BasketsTidy
  <2>3. B!OneKitchenPerBasket
    BY <2>1, <2>2, BasketCounts DEF BasketsInv, BasketsTyped, Tidy, B!OneKitchenPerBasket
  <2> QED BY <2>3 DEF BasketsInv, BasketsTyped, B!CouponWithinUser
<1> QED BY <1>1, <1>2, <1>3, PTL DEF Spec

-----------------------------------------------------------------------------
(* Listings: a week that is added beside nothing is what the listing has;  *)
(* and what a request counted is still so when it writes, if it is alone.  *)

LEMMA ListingsOnly == part = "listings" /\ [Next]_vars => [G!Next]_(G!vars)
BY DEF Next, vars, Only, RidersStep, SessionsStep, CodesStep, AddressesStep, BasketsStep,
       CampaignsStep, MenusStep, OptionsStep, ListingsStep, HoursStep, OffersStep, TicketsStep,
       NoticesStep, LiveStep, pages, G!vars, G!pages

LEMMA ListingCounts == \A set : G!Cardinality(set) = Cardinality(set)
BY DEF G!Cardinality, Cardinality

WeeksKept ==
    /\ DOMAIN listings = 1 .. LastListing
    /\ hours = [l \in 1 .. LastListing |-> hours[l]]
    /\ \A l \in 1 .. LastListing :
        hours[l] = {} \/ \E open, save : hours[l] = G!Week(open, save)

ListingsSound ==
    /\ listings = [l \in 1 .. LastListing |-> listings[l]]
    /\ images = [i \in 1 .. LastImage |-> images[i]]
    /\ \A l \in G!Rows(listings) :
        /\ listings[l] = [deleted |-> listings[l].deleted, categories |-> listings[l].categories]
        /\ listings[l].categories # {}
    /\ \A i \in G!Rows(images) :
        images[i] = [listing |-> images[i].listing, place |-> images[i].place]
    /\ \A l : Cardinality(G!Gallery(l)) <= MAX_IMAGES_PER_RESTAURANT
    /\ Cardinality(G!Kept) <= MAX_RESTAURANTS_PER_OWNER

ListingRequest(r) ==
    /\ r.kind = "register" => r.categories # {} /\ Cardinality(G!Kept) < MAX_RESTAURANTS_PER_OWNER
    /\ r.kind \in {"update", "assign"} => r.categories # {} /\ r.listing \in G!Rows(listings)
    /\ r.kind = "category" =>
        \A l \in G!Rows(listings) : r.category \notin listings[l].categories
    /\ r.kind = "image" => Cardinality(G!Gallery(r.listing)) < MAX_IMAGES_PER_RESTAURANT

ListingsKnown == Alone /\ ListingsSound /\ \A h \in Handlers : ListingRequest(req[h])

ListingsInv == RequestsKept /\ WeeksKept /\ (~ overlapped => ListingsKnown)

LEMMA FewRows ==
    ASSUME NEW set, set \subseteq 1 .. LastListing \/ set \subseteq 1 .. LastImage,
           NEW sub, sub \subseteq set
    PROVE  /\ IsFiniteSet(set) /\ IsFiniteSet(sub)
           /\ Cardinality(set) \in Nat /\ Cardinality(sub) \in Nat
           /\ Cardinality(sub) <= Cardinality(set)
<1>1. LastListing \in Nat /\ LastImage \in Nat
  BY PlatformAssumption
<1>2. IsFiniteSet(1 .. LastListing) /\ IsFiniteSet(1 .. LastImage)
  BY <1>1, FS_Interval
<1>3. IsFiniteSet(set)
  BY <1>2, FS_Subset
<1> QED BY <1>3, FS_Subset, FS_CardinalityType

LEMMA ListingsStart == G!Init => ListingsInv
<1> SUFFICES ASSUME G!Init PROVE ListingsInv
  OBVIOUS
<1>1. RequestsKept /\ Alone /\ \A h \in Handlers : req[h] = Idle
  BY DEF G!Init, G!NoRequests, G!Idle, Idle, RequestsKept, Alone
<1>2. \A h \in Handlers : ListingRequest(req[h])
  BY <1>1 DEF ListingRequest, Idle
<1>3. G!Rows(listings) = {} /\ G!Rows(images) = {}
  BY DEF G!Init, G!Rows
<1>4. G!Kept = {} /\ \A l : G!Gallery(l) = {}
  BY <1>3 DEF G!Kept, G!Gallery
<1>5. Cardinality({}) = 0 /\ MAX_IMAGES_PER_RESTAURANT \in Nat /\ MAX_RESTAURANTS_PER_OWNER \in Nat
  BY FS_EmptySet, PlatformAssumption
<1>6. ListingsSound
  <2>1. /\ Cardinality(G!Kept) <= MAX_RESTAURANTS_PER_OWNER
        /\ \A l : Cardinality(G!Gallery(l)) <= MAX_IMAGES_PER_RESTAURANT
    BY <1>4, <1>5
  <2>2. /\ listings = [l \in 1 .. LastListing |-> listings[l]]
        /\ images = [i \in 1 .. LastImage |-> images[i]]
    BY DEF G!Init
  <2> QED BY <1>3, <2>1, <2>2 DEF ListingsSound
<1>7. WeeksKept
  BY DEF G!Init, WeeksKept
<1> QED BY <1>1, <1>2, <1>6, <1>7 DEF ListingsInv, ListingsKnown

\* A request goes on, and what it and the tables then say fits together.
LEMMA ListingGoesOn ==
    ASSUME ListingsInv, NEW h \in Handlers, NEW r,
           Begin(h, r) \/ (Continue(h, r) /\ req[h].kind # "idle"),
           WeeksKept', ListingsKnown => ListingsSound' /\ ListingRequest(r)'
    PROVE  ListingsInv'
<1>1. RequestsKept'
  BY DEF Begin, Continue, RequestsKept, ListingsInv
<1>2. ASSUME ~ overlapped' PROVE ListingsKnown'
  <2>1. ListingsKnown /\ OnlyMoves(h, r)
    <3>1. CASE Begin(h, r)
      BY <1>2, <3>1, BeginsAlone DEF ListingsInv
    <3>2. CASE Continue(h, r) /\ req[h].kind # "idle"
      <4>1. ~ overlapped
        BY <1>2, <3>2 DEF Continue
      <4> QED BY <3>2, <4>1, GoesOnAlone DEF ListingsInv, ListingsKnown
    <3> QED BY <3>1, <3>2
  <2>2. ASSUME NEW g \in Handlers PROVE ListingRequest(req[g])'
    <3>1. CASE g = h
      <4>1. req'[g] = r
        BY <2>1, <3>1 DEF OnlyMoves
      <4> QED BY <2>1, <4>1 DEF ListingRequest
    <3>2. CASE g # h
      BY <2>1, <3>2 DEF OnlyMoves, ListingRequest, Idle
    <3> QED BY <3>1, <3>2
  <2> QED BY <2>1, <2>2 DEF ListingsKnown, OnlyMoves
<1> QED BY <1>1, <1>2 DEF ListingsInv

\* A request ends, with listings that have no more than they had.
LEMMA ListingEnds ==
    ASSUME ListingsInv, NEW h \in Handlers, Continue(h, Idle), req[h].kind # "idle",
           WeeksKept', ListingsKnown => ListingsSound'
    PROVE  ListingsInv'
<1>1. ListingRequest(Idle)'
  BY DEF ListingRequest, Idle
<1> QED BY <1>1, ListingGoesOn

\* The sound rows of either table are so whatever becomes of the other.
LEMMA ListingsRewritten ==
    ASSUME ListingsSound, UNCHANGED images,
           listings' = [l \in 1 .. LastListing |-> listings'[l]],
           \A l \in G!Rows(listings)' :
                /\ listings'[l] =
                    [deleted |-> listings'[l].deleted, categories |-> listings'[l].categories]
                /\ listings'[l].categories # {},
           Cardinality(G!Kept') <= MAX_RESTAURANTS_PER_OWNER
    PROVE  ListingsSound'
<1>1. G!Rows(images)' = G!Rows(images)
  BY DEF G!Rows
<1>2. \A l : G!Gallery(l)' = G!Gallery(l)
  BY <1>1 DEF G!Gallery
<1> QED BY <1>1, <1>2 DEF ListingsSound

LEMMA ImagesRewritten ==
    ASSUME ListingsSound, UNCHANGED listings,
           images' = [i \in 1 .. LastImage |-> images'[i]],
           \A i \in G!Rows(images)' :
                images'[i] = [listing |-> images'[i].listing, place |-> images'[i].place],
           \A l : Cardinality(G!Gallery(l)') <= MAX_IMAGES_PER_RESTAURANT
    PROVE  ListingsSound'
<1>1. G!Rows(listings)' = G!Rows(listings)
  BY DEF G!Rows
<1>2. G!Kept' = G!Kept
  BY <1>1 DEF G!Kept
<1> QED BY <1>1, <1>2 DEF ListingsSound

\* Listings that keep what they had, and are not more.
LEMMA ListingsReduced ==
    ASSUME ListingsSound, UNCHANGED images,
           listings' = [l \in 1 .. LastListing |-> listings'[l]],
           G!Rows(listings)' \subseteq G!Rows(listings),
           \A l \in G!Rows(listings)' :
                /\ listings'[l] =
                    [deleted |-> listings'[l].deleted, categories |-> listings'[l].categories]
                /\ listings'[l].categories # {}
                /\ ~ listings'[l].deleted => ~ listings[l].deleted
    PROVE  ListingsSound'
<1>1. G!Kept' \subseteq G!Kept /\ G!Kept \subseteq 1 .. LastListing
  BY DEF G!Kept, G!Rows, ListingsSound
<1>2. Cardinality(G!Kept') <= Cardinality(G!Kept) /\ Cardinality(G!Kept') \in Nat
      /\ Cardinality(G!Kept) \in Nat
  BY <1>1, FewRows
<1>3. Cardinality(G!Kept) <= MAX_RESTAURANTS_PER_OWNER /\ MAX_RESTAURANTS_PER_OWNER \in Nat
  BY PlatformAssumption DEF ListingsSound
<1> QED BY <1>2, <1>3, ListingsRewritten

\* Images that keep their listing, and are not more.
LEMMA ImagesReduced ==
    ASSUME ListingsSound, UNCHANGED listings,
           images' = [i \in 1 .. LastImage |-> images'[i]],
           G!Rows(images)' \subseteq G!Rows(images),
           \A i \in G!Rows(images)' :
                /\ images'[i] = [listing |-> images'[i].listing, place |-> images'[i].place]
                /\ images'[i].listing = images[i].listing
    PROVE  ListingsSound'
<1>1. ASSUME NEW l PROVE Cardinality(G!Gallery(l)') <= MAX_IMAGES_PER_RESTAURANT
  <2>1. G!Gallery(l)' \subseteq G!Gallery(l) /\ G!Gallery(l) \subseteq 1 .. LastImage
    BY DEF G!Gallery, G!Rows, ListingsSound
  <2>2. Cardinality(G!Gallery(l)') <= Cardinality(G!Gallery(l))
        /\ Cardinality(G!Gallery(l)') \in Nat /\ Cardinality(G!Gallery(l)) \in Nat
    BY <2>1, FewRows
  <2>3. Cardinality(G!Gallery(l)) <= MAX_IMAGES_PER_RESTAURANT /\ MAX_IMAGES_PER_RESTAURANT \in Nat
    BY PlatformAssumption DEF ListingsSound
  <2> QED BY <2>2, <2>3
<1> QED BY <1>1, ImagesRewritten

LEMMA ListingsStay ==
    ASSUME ListingsSound, UNCHANGED <<listings, images>>
    PROVE  ListingsSound'
<1>1. G!Rows(listings)' = G!Rows(listings) /\ G!Rows(images)' = G!Rows(images)
  BY DEF G!Rows
<1>2. G!Kept' = G!Kept /\ \A l : G!Gallery(l)' = G!Gallery(l)
  BY <1>1 DEF G!Kept, G!Gallery
<1> QED BY <1>1, <1>2 DEF ListingsSound

\* There is room for one more, or for no more.
LEMMA OneAdded ==
    ASSUME NEW set, IsFiniteSet(set), NEW n \in Nat, NEW x, NEW sub,
           \/ sub \subseteq set \cup {x} /\ Cardinality(set) < n
           \/ sub \subseteq set /\ Cardinality(set) <= n
    PROVE  Cardinality(sub) <= n
<1>1. /\ Cardinality(set) \in Nat /\ IsFiniteSet(set \cup {x})
      /\ Cardinality(set \cup {x}) =
            IF x \in set THEN Cardinality(set) ELSE Cardinality(set) + 1
  BY FS_CardinalityType, FS_AddElement
<1>2. CASE sub \subseteq set \cup {x} /\ Cardinality(set) < n
  <2>1. IsFiniteSet(sub) /\ Cardinality(sub) <= Cardinality(set \cup {x})
    BY <1>1, <1>2, FS_Subset
  <2>2. Cardinality(sub) \in Nat
    BY <2>1, FS_CardinalityType
  <2> QED BY <1>1, <1>2, <2>1, <2>2
<1>3. CASE sub \subseteq set /\ Cardinality(set) <= n
  <2>1. IsFiniteSet(sub) /\ Cardinality(sub) <= Cardinality(set)
    BY <1>3, FS_Subset
  <2>2. Cardinality(sub) \in Nat
    BY <2>1, FS_CardinalityType
  <2> QED BY <1>1, <1>3, <2>1, <2>2
<1> QED BY <1>2, <1>3

LEMMA RestaurantInserted ==
    ASSUME ListingsInv, NEW h \in Handlers, G!InsertRestaurant(h)
    PROVE  ListingsInv'
<1> PICK cs : cs = req[h].categories
  OBVIOUS
<1>1. /\ req[h].kind = "register" /\ Continue(h, Idle) /\ UNCHANGED <<hours, images>>
  BY DEF G!InsertRestaurant, G!Finish, G!Continue, G!Idle, Continue, Idle
<1>2. \/ UNCHANGED listings
      \/ \E l \in G!Fresh(listings) :
            listings' = [listings EXCEPT ![l] = [deleted |-> FALSE, categories |-> cs]]
  BY DEF G!InsertRestaurant
<1>3. WeeksKept'
  BY <1>1, <1>2 DEF ListingsInv, WeeksKept
<1>4. ASSUME ListingsKnown PROVE ListingsSound'
  <2>1. ListingsSound /\ cs # {} /\ Cardinality(G!Kept) < MAX_RESTAURANTS_PER_OWNER
    BY <1>1, <1>4 DEF ListingsKnown, ListingRequest
  <2>2. CASE UNCHANGED listings
    BY <1>1, <2>1, <2>2, ListingsStay
  <2>3. ASSUME NEW l \in G!Fresh(listings),
               listings' = [listings EXCEPT ![l] = [deleted |-> FALSE, categories |-> cs]]
        PROVE  ListingsSound'
    <3>1. /\ l \in 1 .. LastListing
          /\ listings'[l] = [deleted |-> FALSE, categories |-> cs]
          /\ \A k \in 1 .. LastListing : k # l => listings'[k] = listings[k]
          /\ listings' = [k \in 1 .. LastListing |-> listings'[k]]
      BY <2>1, <2>3 DEF G!Fresh, ListingsSound
    <3>2. \A k \in G!Rows(listings)' :
              k = l \/ (k \in G!Rows(listings) /\ listings'[k] = listings[k])
      BY <2>1, <3>1 DEF G!Rows, ListingsSound
    <3>3. \A k \in G!Rows(listings)' :
            /\ listings'[k] =
                    [deleted |-> listings'[k].deleted, categories |-> listings'[k].categories]
            /\ listings'[k].categories # {}
      BY <2>1, <3>1, <3>2 DEF ListingsSound
    <3>4. G!Kept' \subseteq G!Kept \cup {l} /\ G!Kept \subseteq 1 .. LastListing
      BY <2>1, <3>1, <3>2 DEF G!Kept, G!Rows, ListingsSound
    <3>5. IsFiniteSet(G!Kept)
      BY <3>4, FewRows
    <3>6. MAX_RESTAURANTS_PER_OWNER \in Nat
      BY PlatformAssumption
    <3>7. Cardinality(G!Kept') <= MAX_RESTAURANTS_PER_OWNER
      BY <2>1, <3>4, <3>5, <3>6, OneAdded
    <3> QED BY <1>1, <2>1, <3>1, <3>3, <3>7, ListingsRewritten
  <2> QED BY <1>2, <2>2, <2>3
<1> QED BY <1>1, <1>3, <1>4, ListingEnds

LEMMA AssignmentsCommitted ==
    ASSUME ListingsInv, NEW h \in Handlers, G!CommitAssignments(h)
    PROVE  ListingsInv'
<1> PICK l : l = req[h].listing
  OBVIOUS
<1>1. /\ req[h].kind = "assign" /\ Continue(h, Idle) /\ UNCHANGED <<hours, images>>
  BY DEF G!CommitAssignments, G!Finish, G!Continue, G!Idle, Continue, Idle
<1>2. PICK others : listings' = listings \/
            listings' = [listings EXCEPT ![l].categories = req[h].categories \cup others]
  BY DEF G!CommitAssignments
<1> PICK cs : cs = req[h].categories \cup others
  OBVIOUS
<1>3. WeeksKept'
  BY <1>1, <1>2 DEF ListingsInv, WeeksKept
<1>4. ASSUME ListingsKnown PROVE ListingsSound'
  <2>1. ListingsSound /\ cs # {} /\ l \in G!Rows(listings)
    BY <1>1, <1>4 DEF ListingsKnown, ListingRequest
  <2>2. CASE UNCHANGED listings
    BY <1>1, <2>1, <2>2, ListingsStay
  <2>3. CASE listings' = [listings EXCEPT ![l].categories = cs]
    <3>1. /\ l \in 1 .. LastListing
          /\ listings[l] = [deleted |-> listings[l].deleted, categories |-> listings[l].categories]
      BY <2>1 DEF G!Rows, ListingsSound
    <3>2. listings'[l] = [deleted |-> listings[l].deleted, categories |-> cs]
      BY <2>1, <2>3, <3>1 DEF ListingsSound
    <3>3. /\ \A k \in 1 .. LastListing : k # l => listings'[k] = listings[k]
          /\ listings' = [k \in 1 .. LastListing |-> listings'[k]]
      BY <2>1, <2>3 DEF ListingsSound
    <3>4. \A k \in G!Rows(listings)' :
              k \in G!Rows(listings) /\ (k = l \/ listings'[k] = listings[k])
      BY <2>1, <3>3 DEF G!Rows, ListingsSound
    <3>5. \A k \in G!Rows(listings)' :
            /\ listings'[k] =
                    [deleted |-> listings'[k].deleted, categories |-> listings'[k].categories]
            /\ listings'[k].categories # {}
            /\ ~ listings'[k].deleted => ~ listings[k].deleted
      BY <2>1, <3>2, <3>4 DEF ListingsSound
    <3> QED BY <1>1, <2>1, <3>3, <3>4, <3>5, ListingsReduced
  <2> QED BY <1>2, <2>2, <2>3
<1> QED BY <1>1, <1>3, <1>4, ListingEnds

LEMMA CategoryCascaded ==
    ASSUME ListingsInv, NEW h \in Handlers, G!CascadeCategory(h)
    PROVE  ListingsInv'
<1> PICK c : c = req[h].category
  OBVIOUS
<1>1. /\ req[h].kind = "category" /\ Continue(h, Idle) /\ UNCHANGED <<hours, images>>
      /\ listings' = [l \in DOMAIN listings |->
                IF l \in G!Rows(listings)
                THEN [listings[l] EXCEPT !.categories = @ \ {c}] ELSE listings[l]]
  BY DEF G!CascadeCategory, G!Finish, G!Continue, G!Idle, Continue, Idle
<1>2. WeeksKept'
  BY <1>1 DEF ListingsInv, WeeksKept
<1>3. ASSUME ListingsKnown PROVE ListingsSound'
  <2>1. ListingsSound /\ \A l \in G!Rows(listings) : c \notin listings[l].categories
    BY <1>1, <1>3 DEF ListingsKnown, ListingRequest
  <2>2. \A l \in G!Rows(listings) :
            [listings[l] EXCEPT !.categories = @ \ {c}] =
                [deleted |-> listings[l].deleted, categories |-> listings[l].categories \ {c}]
    <3> SUFFICES ASSUME NEW l \in G!Rows(listings)
                 PROVE  [listings[l] EXCEPT !.categories = @ \ {c}] =
                            [deleted |-> listings[l].deleted,
                             categories |-> listings[l].categories \ {c}]
      OBVIOUS
    <3> PICK x : x = listings[l]
      OBVIOUS
    <3>1. x = [deleted |-> x.deleted, categories |-> x.categories]
      BY <2>1 DEF ListingsSound
    <3> QED BY <3>1
  <2>3. \A l \in G!Rows(listings) : listings[l].categories \ {c} = listings[l].categories
    BY <2>1
  <2>4. \A l \in G!Rows(listings) : l \in 1 .. LastListing /\ listings'[l] = listings[l]
    BY <1>1, <2>1, <2>2, <2>3 DEF ListingsSound, G!Rows
  <2>5. \A l \in 1 .. LastListing : l \notin G!Rows(listings) => listings'[l] = listings[l]
    BY <1>1, <2>1 DEF ListingsSound
  <2>6. listings' = listings
    BY <1>1, <2>1, <2>4, <2>5 DEF ListingsSound
  <2> QED BY <1>1, <2>1, <2>6, ListingsStay
<1> QED BY <1>1, <1>2, <1>3, ListingEnds

\* The day of a row that is there already undoes a whole week.
LEMMA HoursCommitted ==
    ASSUME ListingsInv, NEW h \in Handlers, G!CommitHours(h)
    PROVE  ListingsInv'
<1> PICK l : l = req[h].listing
  OBVIOUS
<1> PICK fresh : fresh = G!Week(req[h].open, saves + 1)
  OBVIOUS
<1> PICK others : others = hours[l] \ req[h].seen
  OBVIOUS
<1>1. /\ req[h].kind = "week" /\ Continue(h, Idle) /\ UNCHANGED <<listings, images>>
      /\ \/ UNCHANGED hours
         \/ G!Clash(others, fresh) = {} /\ hours' = [hours EXCEPT ![l] = others \cup fresh]
  BY DEF G!CommitHours, G!Finish, G!Continue, G!Idle, Continue, Idle
<1>2. WeeksKept'
  <2>1. WeeksKept
    BY DEF ListingsInv
  <2>2. CASE UNCHANGED hours
    BY <1>1, <2>1, <2>2 DEF WeeksKept
  <2>3. CASE G!Clash(others, fresh) = {} /\ hours' = [hours EXCEPT ![l] = others \cup fresh]
    <3>1. ASSUME l \in 1 .. LastListing PROVE others = {}
      <4> SUFFICES ASSUME NEW row \in others PROVE FALSE
        OBVIOUS
      <4>1. row.day \in Days
        BY <2>1, <3>1 DEF WeeksKept, G!Week
      <4>2. row.day \in {x.day : x \in fresh}
        <5> PICK x : x = [day |-> row.day, closed |-> row.day \notin req[h].open,
                          save |-> saves + 1]
          OBVIOUS
        <5>1. x \in fresh /\ x.day = row.day
          BY <4>1 DEF G!Week
        <5> QED BY <5>1
      <4> QED BY <2>3, <4>2 DEF G!Clash
    <3>2. \A k \in 1 .. LastListing : k = l => hours'[k] = fresh
      BY <2>1, <2>3, <3>1 DEF WeeksKept
    <3>3. \A k \in 1 .. LastListing : k # l => hours'[k] = hours[k]
      BY <2>1, <2>3 DEF WeeksKept
    <3>4. hours' = [k \in 1 .. LastListing |-> hours'[k]] /\ DOMAIN listings' = 1 .. LastListing
      BY <1>1, <2>1, <2>3 DEF WeeksKept
    <3>5. ASSUME NEW k \in 1 .. LastListing
          PROVE  hours'[k] = {} \/ \E open, save : hours'[k] = G!Week(open, save)
      <4>1. CASE k = l
        BY <3>2, <4>1
      <4>2. CASE k # l
        BY <2>1, <3>3, <4>2 DEF WeeksKept
      <4> QED BY <4>1, <4>2
    <3> QED BY <3>4, <3>5 DEF WeeksKept, G!Week
  <2> QED BY <1>1, <2>2, <2>3
<1>3. ListingsKnown => ListingsSound'
  BY <1>1, ListingsStay DEF ListingsKnown
<1> QED BY <1>1, <1>2, <1>3, ListingEnds

LEMMA ImageInserted ==
    ASSUME ListingsInv, NEW h \in Handlers, G!InsertImage(h)
    PROVE  ListingsInv'
<1>1. /\ req[h].kind = "image" /\ Continue(h, Idle) /\ UNCHANGED <<listings, hours>>
  BY DEF G!InsertImage, G!Finish, G!Continue, G!Idle, Continue, Idle
<1> PICK own : own = req[h].listing
  OBVIOUS
<1>2. PICK i \in G!Fresh(images) :
        images' = [images EXCEPT ![i] = [listing |-> own, place |-> req[h].place]]
  BY DEF G!InsertImage
<1>3. WeeksKept'
  BY <1>1 DEF ListingsInv, WeeksKept
<1>4. ASSUME ListingsKnown PROVE ListingsSound'
  <2>1. ListingsSound /\ Cardinality(G!Gallery(own)) < MAX_IMAGES_PER_RESTAURANT
    BY <1>1, <1>4 DEF ListingsKnown, ListingRequest
  <2>2. /\ i \in 1 .. LastImage
        /\ images'[i] = [listing |-> own, place |-> req[h].place]
        /\ \A j \in 1 .. LastImage : j # i => images'[j] = images[j]
        /\ images' = [j \in 1 .. LastImage |-> images'[j]]
    BY <1>2, <2>1 DEF G!Fresh, ListingsSound
  <2>3. \A j \in G!Rows(images)' : j = i \/ (j \in G!Rows(images) /\ images'[j] = images[j])
    BY <2>1, <2>2 DEF G!Rows, ListingsSound
  <2>4. \A j \in G!Rows(images)' :
            images'[j] = [listing |-> images'[j].listing, place |-> images'[j].place]
    BY <2>1, <2>2, <2>3 DEF ListingsSound
  <2>5. MAX_IMAGES_PER_RESTAURANT \in Nat
    BY PlatformAssumption
  <2>6. ASSUME NEW l PROVE Cardinality(G!Gallery(l)') <= MAX_IMAGES_PER_RESTAURANT
    <3>1. /\ G!Gallery(l)' \subseteq G!Gallery(l) \cup {i}
          /\ l # own => G!Gallery(l)' \subseteq G!Gallery(l)
          /\ G!Gallery(l) \subseteq 1 .. LastImage
      BY <2>1, <2>2, <2>3 DEF G!Gallery, G!Rows, ListingsSound
    <3>2. IsFiniteSet(G!Gallery(l)) /\ Cardinality(G!Gallery(l)) <= MAX_IMAGES_PER_RESTAURANT
      BY <2>1, <3>1, FewRows DEF ListingsSound
    <3>3. CASE l = own
      BY <2>1, <2>5, <3>1, <3>2, <3>3, OneAdded
    <3>4. CASE l # own
      BY <2>5, <3>1, <3>2, <3>4, OneAdded
    <3> QED BY <3>3, <3>4
  <2> QED BY <1>1, <2>1, <2>2, <2>4, <2>6, ImagesRewritten
<1> QED BY <1>1, <1>3, <1>4, ListingEnds

LEMMA ImagesReordered ==
    ASSUME ListingsInv, NEW h \in Handlers, G!ReorderImages(h)
    PROVE  ListingsInv'
<1> PICK order : order = req[h].order
  OBVIOUS
<1>1. /\ req[h].kind = "reorder" /\ Continue(h, Idle) /\ UNCHANGED <<listings, hours>>
      /\ \/ UNCHANGED images
         \/ /\ DOMAIN order \subseteq G!Rows(images)
            /\ images' = [i \in DOMAIN images |->
                            IF i \in DOMAIN order THEN [images[i] EXCEPT !.place = order[i]]
                            ELSE images[i]]
  BY DEF G!ReorderImages, G!Finish, G!Continue, G!Idle, Continue, Idle
<1>2. WeeksKept'
  BY <1>1 DEF ListingsInv, WeeksKept
<1>3. ASSUME ListingsKnown PROVE ListingsSound'
  <2>1. ListingsSound
    BY <1>3 DEF ListingsKnown
  <2>2. CASE UNCHANGED images
    BY <1>1, <2>1, <2>2, ListingsStay
  <2>3. CASE /\ DOMAIN order \subseteq G!Rows(images)
             /\ images' = [i \in DOMAIN images |->
                            IF i \in DOMAIN order THEN [images[i] EXCEPT !.place = order[i]]
                            ELSE images[i]]
    <3>1. images' = [i \in 1 .. LastImage |-> images'[i]]
      BY <2>1, <2>3 DEF ListingsSound
    <3>2. \A i \in DOMAIN order : i \in G!Rows(images) /\ i \in 1 .. LastImage
            /\ images'[i] = [listing |-> images[i].listing, place |-> order[i]]
      BY <2>1, <2>3 DEF ListingsSound, G!Rows
    <3>3. \A i \in 1 .. LastImage : i \notin DOMAIN order => images'[i] = images[i]
      BY <2>1, <2>3 DEF ListingsSound
    <3>4. G!Rows(images)' \subseteq G!Rows(images)
      BY <2>1, <3>1, <3>2, <3>3 DEF G!Rows, ListingsSound
    <3>5. ASSUME NEW i \in G!Rows(images)'
          PROVE  /\ images'[i] = [listing |-> images'[i].listing, place |-> images'[i].place]
                 /\ images'[i].listing = images[i].listing
      <4>1. i \in G!Rows(images) /\ i \in 1 .. LastImage
        BY <2>1, <3>4, <3>5 DEF G!Rows, ListingsSound
      <4>2. images[i] = [listing |-> images[i].listing, place |-> images[i].place]
        BY <2>1, <4>1 DEF ListingsSound
      <4>3. CASE i \in DOMAIN order
        <5> PICK own, place : own = images[i].listing /\ place = order[i]
          OBVIOUS
        <5>1. images'[i] = [listing |-> own, place |-> place]
          BY <3>2, <4>3
        <5> QED BY <5>1
      <4>4. CASE i \notin DOMAIN order
        <5>1. images'[i] = images[i]
          BY <3>3, <4>1, <4>4
        <5> QED BY <4>2, <5>1
      <4> QED BY <4>3, <4>4
    <3> QED BY <1>1, <2>1, <3>1, <3>4, <3>5, ImagesReduced
  <2> QED BY <1>1, <2>2, <2>3
<1> QED BY <1>1, <1>2, <1>3, ListingEnds

LEMMA ListingsKept == ListingsInv /\ [G!Next]_(G!vars) => ListingsInv'
<1> SUFFICES ASSUME ListingsInv, [G!Next]_(G!vars) PROVE ListingsInv'
  OBVIOUS
<1> USE DEF G!Begin, G!Finish, G!Continue, G!Idle
<1>1. WeeksKept
  BY DEF ListingsInv
\* A request begins, or goes on, and writes nothing.
<1>2. ASSUME UNCHANGED G!pages
      PROVE  WeeksKept' /\ (ListingsSound => ListingsSound')
             /\ \A r : ListingRequest(r) => ListingRequest(r)'
  <2>1. UNCHANGED <<listings, images, hours>>
    BY <1>2 DEF G!pages
  <2>2. G!Rows(listings)' = G!Rows(listings) /\ G!Rows(images)' = G!Rows(images)
    BY <2>1 DEF G!Rows
  <2>3. G!Kept' = G!Kept /\ \A l : G!Gallery(l)' = G!Gallery(l)
    BY <2>1, <2>2 DEF G!Kept, G!Gallery
  <2>4. \A r : ListingRequest(r) => ListingRequest(r)'
    BY <2>1, <2>2, <2>3 DEF ListingRequest
  <2> QED BY <1>1, <2>1, <2>4, ListingsStay DEF WeeksKept
<1>3. ASSUME NEW h \in Handlers, NEW r, G!Start(h, r), ListingsKnown => ListingRequest(r)
      PROVE  ListingsInv'
  <2>1. Begin(h, r) /\ UNCHANGED G!pages
    BY <1>3 DEF G!Start, Begin, Idle
  <2> QED BY <1>2, <1>3, <2>1, ListingGoesOn DEF ListingsKnown
<1>4. ASSUME NEW h \in Handlers, NEW cs \in SUBSET Categories, G!RegisterRestaurant(h, cs)
      PROVE  ListingsInv'
  <2> PICK r : r = [kind |-> "register", categories |-> cs]
    OBVIOUS
  <2>1. G!Start(h, r) /\ cs # {} /\ Cardinality(G!Kept) < MAX_RESTAURANTS_PER_OWNER
    BY <1>4, ListingCounts DEF G!RegisterRestaurant
  <2>2. ListingRequest(r)
    BY <2>1 DEF ListingRequest
  <2> QED BY <1>3, <2>1, <2>2
<1>5. ASSUME NEW h \in Handlers, NEW l \in G!Rows(listings), NEW cs, G!UpdateRestaurant(h, l, cs)
      PROVE  ListingsInv'
  BY <1>3, <1>5 DEF G!UpdateRestaurant, ListingRequest
<1>6. ASSUME NEW h \in Handlers, NEW c, G!DeleteCategory(h, c) PROVE ListingsInv'
  BY <1>3, <1>6 DEF G!DeleteCategory, ListingRequest
<1>7. ASSUME NEW h \in Handlers, NEW l, NEW open, G!SetBusinessHours(h, l, open)
      PROVE  ListingsInv'
  BY <1>3, <1>7 DEF G!SetBusinessHours, ListingRequest
<1>8. ASSUME NEW h \in Handlers, NEW l, G!AddRestaurantImage(h, l) PROVE ListingsInv'
  <2> PICK r : r = [kind |-> "image", listing |-> l, place |-> G!Cardinality(G!Gallery(l))]
    OBVIOUS
  <2>1. G!Start(h, r) /\ Cardinality(G!Gallery(l)) < MAX_IMAGES_PER_RESTAURANT
    BY <1>8, ListingCounts DEF G!AddRestaurantImage
  <2>2. ListingRequest(r)
    BY <2>1 DEF ListingRequest
  <2> QED BY <1>3, <2>1, <2>2
<1>9. ASSUME NEW h \in Handlers, NEW l, NEW order, G!ReorderRestaurantImages(h, l, order)
      PROVE  ListingsInv'
  BY <1>3, <1>9 DEF G!ReorderRestaurantImages, ListingRequest
<1>10. ASSUME NEW h \in Handlers, NEW r, Continue(h, r), UNCHANGED G!pages,
              req[h].kind # "idle", ListingsKnown => ListingRequest(r)
       PROVE  ListingsInv'
  BY <1>2, <1>10, ListingGoesOn DEF ListingsKnown
<1>11. ASSUME NEW h \in Handlers, G!DeleteAssignments(h) PROVE ListingsInv'
  <2> PICK r : r = [kind |-> "assign", listing |-> req[h].listing,
                    categories |-> req[h].categories,
                    seen |-> listings[req[h].listing].categories]
    OBVIOUS
  <2>1. Continue(h, r) /\ UNCHANGED G!pages /\ req[h].kind = "update"
    BY <1>11 DEF G!DeleteAssignments, Continue
  <2>2. ListingsKnown => ListingRequest(r)
    BY <2>1 DEF ListingsKnown, ListingRequest
  <2> QED BY <1>10, <2>1, <2>2
<1>12. ASSUME NEW h \in Handlers, G!DeleteHours(h) PROVE ListingsInv'
  <2> PICK r : r = [kind |-> "week", listing |-> req[h].listing, open |-> req[h].open,
                    seen |-> hours[req[h].listing]]
    OBVIOUS
  <2>1. Continue(h, r) /\ UNCHANGED G!pages /\ req[h].kind = "hours"
    BY <1>12 DEF G!DeleteHours, Continue
  <2>2. ListingRequest(r)
    BY DEF ListingRequest
  <2> QED BY <1>10, <2>1, <2>2
\* A statement of its own, while nothing else is under way.
<1>13. ASSUME UNCHANGED req, WeeksKept',
              overlapped' = (overlapped \/ \E h \in Handlers : req[h] # Idle),
              ListingsSound => ListingsSound'
       PROVE  ListingsInv'
  <2>1. RequestsKept' /\ (Alone => Alone')
    BY <1>13 DEF ListingsInv, RequestsKept, Alone
  <2>2. ASSUME ~ overlapped' PROVE ~ overlapped /\ \A h \in Handlers : req'[h] = Idle
    BY <1>13, <2>2, Zenon
  <2>3. ASSUME ~ overlapped', NEW h \in Handlers PROVE ListingRequest(req[h])'
    BY <2>2, <2>3 DEF ListingRequest, Idle
  <2> QED BY <1>13, <2>1, <2>2, <2>3 DEF ListingsInv, ListingsKnown
<1>14. ASSUME NEW l \in G!Rows(listings), G!DeleteRestaurant(l)
       PROVE  WeeksKept' /\ (ListingsSound => ListingsSound')
  <2>1. listings' = [listings EXCEPT ![l].deleted = TRUE] /\ UNCHANGED <<hours, images>>
    BY <1>14 DEF G!DeleteRestaurant
  <2>2. WeeksKept'
    BY <1>1, <2>1 DEF WeeksKept
  <2>3. ASSUME ListingsSound PROVE ListingsSound'
    <3>1. /\ l \in 1 .. LastListing
          /\ listings[l] = [deleted |-> listings[l].deleted, categories |-> listings[l].categories]
      BY <2>3 DEF G!Rows, ListingsSound
    <3>2. listings'[l] = [deleted |-> TRUE, categories |-> listings[l].categories]
      BY <2>1, <2>3, <3>1 DEF ListingsSound
    <3>3. /\ \A k \in 1 .. LastListing : k # l => listings'[k] = listings[k]
          /\ listings' = [k \in 1 .. LastListing |-> listings'[k]]
      BY <2>1, <2>3 DEF ListingsSound
    <3>4. \A k \in G!Rows(listings)' :
              k \in G!Rows(listings) /\ (k = l \/ listings'[k] = listings[k])
      BY <1>14, <2>3, <3>3 DEF G!Rows, ListingsSound
    <3>5. \A k \in G!Rows(listings)' :
            /\ listings'[k] =
                    [deleted |-> listings'[k].deleted, categories |-> listings'[k].categories]
            /\ listings'[k].categories # {}
            /\ ~ listings'[k].deleted => ~ listings[k].deleted
      <4> SUFFICES ASSUME NEW k \in G!Rows(listings)'
                   PROVE  /\ listings'[k] = [deleted |-> listings'[k].deleted,
                                             categories |-> listings'[k].categories]
                          /\ listings'[k].categories # {}
                          /\ ~ listings'[k].deleted => ~ listings[k].deleted
        OBVIOUS
      <4>1. l \in G!Rows(listings) /\ k \in G!Rows(listings)
        BY <1>14, <3>4
      <4>2. CASE k = l
        <5>1. listings[l].categories # {}
          BY <2>3, <4>1 DEF ListingsSound
        <5> QED BY <3>2, <4>2, <5>1
      <4>3. CASE k # l
        <5>1. listings'[k] = listings[k]
          BY <3>4, <4>3
        <5> QED BY <2>3, <4>1, <5>1 DEF ListingsSound
      <4> QED BY <4>2, <4>3
    <3> QED BY <2>1, <2>3, <3>3, <3>4, <3>5, ListingsReduced
  <2> QED BY <2>2, <2>3
<1>15. ASSUME NEW i \in G!Rows(images), G!DeleteRestaurantImage(i)
       PROVE  WeeksKept' /\ (ListingsSound => ListingsSound')
  <2>1. images' = [images EXCEPT ![i] = NULL] /\ UNCHANGED <<hours, listings>>
    BY <1>15 DEF G!DeleteRestaurantImage
  <2>2. WeeksKept'
    BY <1>1, <2>1 DEF WeeksKept
  <2>3. ASSUME ListingsSound PROVE ListingsSound'
    <3>1. /\ \A k \in 1 .. LastImage : images'[k] = IF k = i THEN NULL ELSE images[k]
          /\ images' = [k \in 1 .. LastImage |-> images'[k]]
      BY <2>1, <2>3 DEF ListingsSound
    <3>2. \A k \in G!Rows(images)' : k \in G!Rows(images) /\ images'[k] = images[k]
      BY <2>3, <3>1 DEF G!Rows, ListingsSound
    <3>3. \A k \in G!Rows(images)' :
            /\ images'[k] = [listing |-> images'[k].listing, place |-> images'[k].place]
            /\ images'[k].listing = images[k].listing
      BY <2>3, <3>2 DEF ListingsSound
    <3> QED BY <2>1, <2>3, <3>1, <3>2, <3>3, ImagesReduced
  <2> QED BY <2>2, <2>3
<1>16. ASSUME NEW c, G!CreateCategory(c) PROVE WeeksKept' /\ (ListingsSound => ListingsSound')
  BY <1>1, <1>16, ListingsStay DEF G!CreateCategory, WeeksKept
<1>17. CASE G!Statement
  <2>1. UNCHANGED req /\ overlapped' = (overlapped \/ \E h \in Handlers : req[h] # Idle)
    BY <1>17 DEF G!Statement, Idle
  <2> QED BY <1>13, <1>14, <1>15, <1>16, <1>17, <2>1 DEF G!Statement
<1>18. CASE G!Restart /\ UNCHANGED G!pages
  <2>1. RequestsKept' /\ Alone' /\ UNCHANGED overlapped /\ \A h \in Handlers : req'[h] = Idle
    BY <1>18, RestartsAlone DEF G!Restart, Restart, Idle
  <2>2. \A h \in Handlers : ListingRequest(req[h])'
    BY <2>1 DEF ListingRequest, Idle
  <2> QED BY <1>2, <1>18, <2>1, <2>2 DEF ListingsInv, ListingsKnown
<1>19. CASE UNCHANGED G!vars
  <2>1. UNCHANGED G!pages /\ UNCHANGED <<req, overlapped>>
    BY <1>19 DEF G!vars
  <2>2. ASSUME ListingsKnown, NEW h \in Handlers PROVE ListingRequest(req[h])'
    <3> PICK r : r = req[h]
      OBVIOUS
    <3>1. ListingRequest(r)' /\ req'[h] = r
      BY <1>2, <2>1, <2>2 DEF ListingsKnown
    <3> QED BY <3>1 DEF ListingRequest
  <2> QED BY <1>2, <2>1, <2>2 DEF ListingsInv, ListingsKnown, RequestsKept, Alone
<1> QED BY <1>4, <1>5, <1>6, <1>7, <1>8, <1>9, <1>11, <1>12, <1>17, <1>18, <1>19,
           RestaurantInserted, AssignmentsCommitted, CategoryCascaded, HoursCommitted,
           ImageInserted, ImagesReordered
        DEF G!Next, G!Request

\* However two saves of a week overlap, every listing has the whole week of one
\* of them, although each deletes before it adds.  One request at a time, a
\* listing is never without a category, and neither the owner nor a gallery has
\* more than is allowed.
THEOREM ListingsStayWhole == Spec => []ListingIsWhole
<1> DEFINE Inv == part = "listings" => ListingsInv
<1>1. Init => Inv
  BY ListingsStart DEF Init
<1>2. Inv /\ [Next]_vars => Inv'
  BY PartStays, ListingsOnly, ListingsKept
<1>3. Inv => ListingIsWhole
  <2> SUFFICES ASSUME ListingsInv PROVE G!ListingIsWhole
    BY DEF ListingIsWhole
  <2>1. ASSUME NEW l \in G!Rows(listings), hours[l] # {}
        PROVE  /\ {row.day : row \in hours[l]} = Days
               /\ Cardinality({row.save : row \in hours[l]}) = 1
    <3>1. PICK open, save : hours[l] = G!Week(open, save)
      BY <2>1 DEF ListingsInv, WeeksKept, G!Rows
    <3>2. \A row \in hours[l] : row.day \in Days /\ row.save = save
      BY <3>1 DEF G!Week
    <3>3. ASSUME NEW d \in Days PROVE d \in {row.day : row \in hours[l]}
      <4> PICK row : row = [day |-> d, closed |-> d \notin open, save |-> save]
        OBVIOUS
      <4>1. row \in hours[l] /\ row.day = d
        BY <3>1 DEF G!Week
      <4> QED BY <4>1
    <3>4. {row.save : row \in hours[l]} = {save}
      BY <2>1, <3>2
    <3>5. Cardinality({row.save : row \in hours[l]}) = 1
      BY <3>4, FS_Singleton
    <3>6. {row.day : row \in hours[l]} = Days
      BY <3>2, <3>3
    <3> QED BY <3>5, <3>6
  <2>2. ~ overlapped => ListingsSound
    BY DEF ListingsInv, ListingsKnown
  <2> QED BY <2>1, <2>2, ListingCounts DEF ListingsSound, G!ListingIsWhole
<1> QED BY <1>1, <1>2, <1>3, PTL DEF Spec

-----------------------------------------------------------------------------
(* Options: alone, a request writes the variants and the group it looked   *)
(* at; the range of a group is checked once more when it is written.       *)

LEMMA OptionsOnly == part = "options" /\ [Next]_vars => [O!Next]_(O!vars)
BY DEF Next, vars, Only, RidersStep, SessionsStep, CodesStep, AddressesStep, BasketsStep,
       CampaignsStep, MenusStep, OptionsStep, ListingsStep, HoursStep, OffersStep, TicketsStep,
       NoticesStep, LiveStep, choices, O!vars, O!choices

\* A dish with variants has one preselected, unless its first was asked not to.
Preselected == O!Rows(variants) # {} /\ ~ plain => O!Defaults # {}

OptionRequest(r) ==
    /\ r.kind = "create" =>
        /\ r.isDefault \in BOOLEAN
        /\ r.isFirst = (O!Rows(variants) = {})
    /\ r.kind = "remove" => r.variant \in O!Rows(variants) /\ O!Removable(r.variant)
    /\ r.kind = "group" /\ group # NULL => O!assertSelectionRules(O!Patched(group, r.patch))
    /\ r.kind = "drop" /\ group # NULL /\ group.isRequired =>
        \E o \in O!Rows(options) : o # r.option

OptionsKnown ==
    /\ RequestsKept /\ Alone
    /\ variants = [v \in 1 .. LastVariant |-> variants[v]]
    /\ \A v \in O!Rows(variants) : variants[v] \in BOOLEAN
    /\ options = [o \in 1 .. LastOption |-> options[o]]
    /\ Preselected
    /\ group # NULL /\ group.isRequired => group.minSelect >= 1
    /\ \A h \in Handlers : OptionRequest(req[h])

OptionsInv ==
    /\ group # NULL => group.minSelect <= group.maxSelect
    /\ ~ overlapped => OptionsKnown

LEMMA OptionCounts == \A set : O!Cardinality(set) = Cardinality(set)
BY DEF O!Cardinality, Cardinality

LEMMA IdleOption == OptionRequest(Idle)
BY DEF OptionRequest, Idle

LEMMA OptionsStart == O!Init => OptionsInv
<1> SUFFICES ASSUME O!Init PROVE OptionsKnown /\ group = NULL
  BY DEF OptionsInv
<1>1. RequestsKept /\ Alone /\ \A h \in Handlers : req[h] = Idle
  BY DEF O!Init, O!NoRequests, O!Idle, Idle, RequestsKept, Alone
<1>2. O!Rows(variants) = {}
  BY DEF O!Rows, O!Init
<1> QED BY <1>1, <1>2, IdleOption DEF O!Init, OptionsKnown, Preselected

\* A request begins that read what it carries.
LEMMA OptionReads ==
    ASSUME OptionsInv, NEW h \in Handlers, NEW r, O!Start(h, r),
           OptionsKnown => OptionRequest(r)
    PROVE  OptionsInv' /\ O!NeverEmptied
<1>1. Begin(h, r) /\ UNCHANGED <<variants, group, options, plain>>
  BY DEF O!Start, O!Begin, O!Idle, O!choices, Begin, Idle
<1>2. ASSUME ~ overlapped' PROVE OptionsKnown'
  <2>1. ~ overlapped
    <3>1. overlapped' = (overlapped \/ \E g \in Handlers : req[g] # Idle)
      BY <1>1 DEF Begin
    <3> QED BY <1>2, <3>1, Zenon
  <2>2. OptionsKnown
    BY <2>1 DEF OptionsInv
  <2>3. OnlyMoves(h, r)
    BY <1>1, <1>2, <2>2, BeginsAlone DEF OptionsKnown
  <2>4. \A g \in Handlers : req'[g] \in {r, Idle}
    BY <2>3 DEF OnlyMoves
  <2>5. \A g \in Handlers : OptionRequest(req[g])'
    BY <1>1, <2>2, <2>4, IdleOption DEF OptionRequest, O!Rows, O!Removable
  <2> QED BY <1>1, <2>2, <2>3, <2>5
          DEF OptionsKnown, OnlyMoves, O!Rows, O!Defaults, Preselected
<1>3. O!NeverEmptied
  BY <1>1 DEF O!NeverEmptied, O!Rows
<1> QED BY <1>1, <1>2, <1>3 DEF OptionsInv

\* A request goes on or ends after it wrote its row.
LEMMA OptionWritten ==
    ASSUME OptionsKnown, NEW h \in Handlers, NEW r, O!Continue(h, r), req[h].kind # "idle",
           OptionRequest(r)',
           variants' = [v \in 1 .. LastVariant |-> variants'[v]],
           \A v \in O!Rows(variants)' : variants'[v] \in BOOLEAN,
           options' = [o \in 1 .. LastOption |-> options'[o]],
           Preselected',
           group' # NULL /\ group'.isRequired => group'.minSelect >= 1
    PROVE  OptionsKnown'
<1>1. OnlyMoves(h, r)
  <2>1. Continue(h, r)
    BY DEF O!Continue, Continue
  <2> QED BY <2>1, GoesOnAlone DEF OptionsKnown
<1>2. \A g \in Handlers : OptionRequest(req[g])'
  <2>1. OptionRequest(Idle)'
    BY DEF OptionRequest, Idle
  <2>2. \A g \in Handlers : req'[g] \in {r, Idle}
    BY <1>1 DEF OnlyMoves
  <2> QED BY <2>1, <2>2 DEF OptionRequest
<1> QED BY <1>1, <1>2 DEF OptionsKnown, OnlyMoves

LEMMA VariantInserted ==
    ASSUME OptionsKnown, NEW h \in Handlers, O!InsertVariant(h)
    PROVE  OptionsKnown'
<1>1. PICK v \in O!Fresh(variants) :
        /\ variants' = [variants EXCEPT ![v] = req[h].isDefault]
        /\ O!Continue(h, IF req[h].isDefault THEN [kind |-> "promote", variant |-> v]
                         ELSE O!Idle)
  BY DEF O!InsertVariant
<1>2. /\ req[h].kind = "create" /\ UNCHANGED <<group, options>>
      /\ plain' = IF req[h].isFirst THEN ~ req[h].isDefault ELSE plain
  BY DEF O!InsertVariant
<1>3. req[h].isDefault \in BOOLEAN /\ req[h].isFirst = (O!Rows(variants) = {})
  BY <1>2 DEF OptionsKnown, OptionRequest
<1> PICK isDefault : isDefault = req[h].isDefault
  OBVIOUS
<1>4. v \in 1 .. LastVariant /\ v \notin O!Rows(variants)
  BY <1>1 DEF OptionsKnown, O!Fresh, O!Rows
<1>5. \A u \in 1 .. LastVariant : variants'[u] = IF u = v THEN isDefault ELSE variants[u]
  BY <1>1 DEF OptionsKnown
<1>6. variants' = [u \in 1 .. LastVariant |-> variants'[u]]
  BY <1>1 DEF OptionsKnown
<1>7. O!Rows(variants)' = O!Rows(variants) \cup {v}
  <2>1. isDefault \notin {UNUSED, NULL}
    BY <1>3, RowsAssumption
  <2>2. DOMAIN variants = 1 .. LastVariant /\ DOMAIN variants' = 1 .. LastVariant
    BY <1>6 DEF OptionsKnown
  <2> QED BY <1>4, <1>5, <2>1, <2>2 DEF O!Rows
<1>8. \A u \in O!Rows(variants)' : variants'[u] \in BOOLEAN
  <2>1. \A u \in O!Rows(variants) : variants[u] \in BOOLEAN /\ u \in 1 .. LastVariant
    BY DEF OptionsKnown, O!Rows
  <2> QED BY <1>3, <1>4, <1>5, <1>7, <2>1
<1>9. Preselected'
  <2>1. CASE isDefault
    <3>1. v \in O!Rows(variants)' /\ variants'[v]
      BY <1>4, <1>5, <1>7, <2>1
    <3>2. v \in O!Defaults'
      BY <3>1, Zenon DEF O!Defaults
    <3> QED BY <3>2 DEF Preselected
  <2>2. CASE ~ isDefault /\ O!Rows(variants) = {}
    BY <1>2, <1>3, <2>2 DEF Preselected
  <2>3. CASE ~ isDefault /\ O!Rows(variants) # {}
    <3>1. plain' = plain
      BY <1>2, <1>3, <2>3
    <3>2. ASSUME ~ plain PROVE O!Defaults' # {}
      <4>1. PICK u \in O!Defaults : TRUE
        BY <2>3, <3>2 DEF OptionsKnown, Preselected
      <4>2. u \in O!Rows(variants) /\ variants[u]
        BY <4>1, Zenon DEF O!Defaults
      <4>3. u # v /\ u \in 1 .. LastVariant
        BY <1>4, <4>2 DEF OptionsKnown, O!Rows
      <4>4. u \in O!Rows(variants)' /\ variants'[u]
        BY <1>5, <1>7, <4>2, <4>3
      <4>5. u \in O!Defaults'
        BY <4>4, Zenon DEF O!Defaults
      <4> QED BY <4>5
    <3> QED BY <3>1, <3>2 DEF Preselected
  <2> QED BY <2>1, <2>2, <2>3
<1>10. ASSUME NEW r, O!Continue(h, r), r \in {[kind |-> "promote", variant |-> v], O!Idle}
       PROVE  OptionsKnown'
  <2>1. OptionRequest(r)'
    <3>1. r.kind \in {"promote", "idle"}
      BY <1>10 DEF O!Idle
    <3> QED BY <3>1 DEF OptionRequest
  <2>2. req[h].kind # "idle"
    BY <1>2
  <2> QED BY <1>2, <1>6, <1>8, <1>9, <1>10, <2>1, <2>2, OptionWritten DEF OptionsKnown
<1> QED BY <1>1, <1>10

LEMMA IdleNext == OptionRequest(Idle)'
BY DEF OptionRequest, Idle

LEMMA DefaultSet ==
    ASSUME OptionsKnown, NEW h \in Handlers, O!SetDefaultVariant(h)
    PROVE  OptionsKnown'
<1> PICK v : v = req[h].variant
  OBVIOUS
<1>1. /\ O!Continue(h, Idle) /\ req[h].kind # "idle" /\ UNCHANGED <<group, options, plain>>
      /\ variants' = IF v \in O!Rows(variants)
                     THEN [u \in DOMAIN variants |->
                            IF u \in O!Rows(variants) THEN u = v ELSE variants[u]]
                     ELSE variants
  BY DEF O!SetDefaultVariant, O!Finish, O!Idle, Idle
<1>2. DOMAIN variants = 1 .. LastVariant
  BY DEF OptionsKnown
<1>3. CASE v \notin O!Rows(variants)
  <2>1. UNCHANGED variants
    BY <1>1, <1>3
  <2>2. Preselected'
    BY <1>1, <2>1 DEF OptionsKnown, Preselected, O!Rows, O!Defaults
  <2> QED BY <1>1, <2>1, <2>2, IdleNext, OptionWritten DEF OptionsKnown, O!Rows
<1>4. CASE v \in O!Rows(variants)
  <2>1. variants' = [u \in 1 .. LastVariant |-> variants'[u]]
    BY <1>1, <1>2, <1>4
  <2>2. \A u \in 1 .. LastVariant :
            variants'[u] = IF u \in O!Rows(variants) THEN u = v ELSE variants[u]
    BY <1>1, <1>2, <1>4
  <2>3. \A u \in O!Rows(variants) : (u = v) \in BOOLEAN /\ (u = v) \notin {UNUSED, NULL}
    BY RowsAssumption
  <2>4. O!Rows(variants)' = O!Rows(variants)
    BY <1>2, <2>1, <2>2, <2>3 DEF O!Rows
  <2>5. \A u \in O!Rows(variants)' : variants'[u] \in BOOLEAN
    BY <1>2, <2>2, <2>3, <2>4 DEF O!Rows
  <2>6. Preselected'
    <3>1. v \in 1 .. LastVariant
      BY <1>2, <1>4 DEF O!Rows
    <3>2. variants'[v]
      BY <1>4, <2>2, <3>1
    <3>3. v \in O!Defaults'
      BY <1>4, <2>4, <3>2, Zenon DEF O!Defaults
    <3> QED BY <3>3 DEF Preselected
  <2> QED BY <1>1, <2>1, <2>5, <2>6, IdleNext, OptionWritten DEF OptionsKnown
<1> QED BY <1>3, <1>4

LEMMA VariantDeleted ==
    ASSUME OptionsKnown, NEW h \in Handlers, O!DeleteVariant(h)
    PROVE  OptionsKnown'
<1> PICK v : v = req[h].variant
  OBVIOUS
<1>1. /\ O!Continue(h, Idle) /\ req[h].kind = "remove" /\ UNCHANGED <<group, options, plain>>
      /\ variants' = [variants EXCEPT ![v] = NULL]
  BY DEF O!DeleteVariant, O!Finish, O!Idle, Idle
<1>2. v \in O!Rows(variants) /\ O!Removable(v)
  BY <1>1 DEF OptionsKnown, OptionRequest
<1>3. /\ variants' = [u \in 1 .. LastVariant |-> variants'[u]]
      /\ DOMAIN variants = 1 .. LastVariant
      /\ \A u \in 1 .. LastVariant : variants'[u] = IF u = v THEN NULL ELSE variants[u]
  BY <1>1 DEF OptionsKnown
<1>4. O!Rows(variants)' = O!Rows(variants) \ {v}
  BY <1>3 DEF O!Rows
<1>5. \A u \in O!Rows(variants)' : variants'[u] = variants[u] /\ variants[u] \in BOOLEAN
  <2>1. \A u \in O!Rows(variants) : u \in 1 .. LastVariant /\ variants[u] \in BOOLEAN
    BY <1>3 DEF O!Rows, OptionsKnown
  <2> QED BY <1>3, <1>4, <2>1
<1>6. Preselected'
  <2> SUFFICES ASSUME O!Rows(variants)' # {}, ~ plain' PROVE O!Defaults' # {}
    BY DEF Preselected
  <2>1. PICK u \in O!Defaults : TRUE
    BY <1>1, <1>2 DEF OptionsKnown, Preselected
  <2>2. u \in O!Rows(variants) /\ variants[u]
    BY <2>1, Zenon DEF O!Defaults
  <2>3. u # v
    BY <1>2, <1>4, <2>2 DEF O!Removable
  <2>4. u \in O!Rows(variants)' /\ variants'[u]
    BY <1>4, <1>5, <2>2, <2>3
  <2>5. u \in O!Defaults'
    BY <2>4, Zenon DEF O!Defaults
  <2> QED BY <2>5
<1>7. req[h].kind # "idle"
  BY <1>1
<1>8. \A u \in O!Rows(variants)' : variants'[u] \in BOOLEAN
  BY <1>5
<1> QED BY <1>1, <1>3, <1>6, <1>7, <1>8, IdleNext, OptionWritten DEF OptionsKnown

\* Requests that leave the variants alone.
LEMMA VariantsStay ==
    ASSUME OptionsKnown, NEW h \in Handlers, O!Finish(h), req[h].kind # "idle",
           UNCHANGED <<variants, plain>>, options' = [o \in 1 .. LastOption |-> options'[o]],
           group' # NULL /\ group'.isRequired => group'.minSelect >= 1
    PROVE  OptionsKnown'
<1>1. O!Continue(h, Idle)
  BY DEF O!Finish, O!Idle, Idle
<1>2. Preselected' /\ O!Rows(variants)' = O!Rows(variants)
  BY DEF OptionsKnown, Preselected, O!Rows, O!Defaults
<1> QED BY <1>1, <1>2, IdleNext, OptionWritten DEF OptionsKnown

LEMMA GroupWritten ==
    ASSUME OptionsInv, NEW h \in Handlers, O!WriteGroup(h)
    PROVE  OptionsInv' /\ O!NeverEmptied
<1>1. /\ O!Finish(h) /\ req[h].kind = "group" /\ UNCHANGED <<variants, options, plain>>
      /\ overlapped' = overlapped
  BY DEF O!WriteGroup, O!Finish, O!Continue
<1> PICK g : g = O!Patched(group, req[h].patch)
  OBVIOUS
<1>2. group' = IF group = NULL THEN NULL ELSE IF O!SelectRange(g) THEN g ELSE group
  BY DEF O!WriteGroup
<1>3. group' # NULL => group'.minSelect <= group'.maxSelect
  BY <1>2 DEF O!SelectRange, OptionsInv
<1>4. ASSUME ~ overlapped PROVE OptionsKnown'
  <2>1. OptionsKnown
    BY <1>4 DEF OptionsInv
  <2>2. group # NULL => O!assertSelectionRules(g)
    BY <1>1, <2>1 DEF OptionsKnown, OptionRequest
  <2>3. group' # NULL /\ group'.isRequired => group'.minSelect >= 1
    BY <1>2, <2>1, <2>2 DEF O!assertSelectionRules, OptionsKnown
  <2> QED BY <1>1, <2>1, <2>3, VariantsStay DEF OptionsKnown
<1>5. O!NeverEmptied
  BY <1>1 DEF O!NeverEmptied, O!Rows
<1> QED BY <1>1, <1>3, <1>4, <1>5 DEF OptionsInv

LEMMA AddOnInserted ==
    ASSUME OptionsInv, NEW h \in Handlers, O!InsertAddOn(h)
    PROVE  OptionsInv' /\ O!NeverEmptied
<1>1. /\ O!Finish(h) /\ req[h].kind = "option" /\ UNCHANGED <<variants, group, plain>>
      /\ overlapped' = overlapped
  BY DEF O!InsertAddOn, O!Finish, O!Continue
<1>2. PICK o \in O!Fresh(options) :
        options' = IF group # NULL THEN [options EXCEPT ![o] = "offered"] ELSE options
  BY DEF O!InsertAddOn
<1>3. ASSUME ~ overlapped PROVE OptionsKnown'
  <2>1. OptionsKnown
    BY <1>3 DEF OptionsInv
  <2>2. options' = [p \in 1 .. LastOption |-> options'[p]]
    BY <1>2, <2>1 DEF OptionsKnown
  <2> QED BY <1>1, <2>1, <2>2, VariantsStay DEF OptionsKnown
<1>4. O!NeverEmptied
  <2>1. \A p \in O!Rows(options) : p \in O!Rows(options)'
    BY <1>2 DEF O!Rows, O!Fresh
  <2> QED BY <2>1 DEF O!NeverEmptied
<1> QED BY <1>1, <1>3, <1>4 DEF OptionsInv

LEMMA AddOnDeleted ==
    ASSUME OptionsInv, NEW h \in Handlers, O!DeleteAddOn(h)
    PROVE  OptionsInv' /\ O!NeverEmptied
<1>1. /\ O!Finish(h) /\ req[h].kind = "drop" /\ UNCHANGED <<variants, group, plain>>
      /\ overlapped' = overlapped
      /\ options' = [options EXCEPT ![req[h].option] = NULL]
  BY DEF O!DeleteAddOn, O!Finish, O!Continue
<1>2. ASSUME ~ overlapped PROVE OptionsKnown'
  <2>1. OptionsKnown
    BY <1>2 DEF OptionsInv
  <2>2. options' = [p \in 1 .. LastOption |-> options'[p]]
    BY <1>1, <2>1 DEF OptionsKnown
  <2> QED BY <1>1, <2>1, <2>2, VariantsStay DEF OptionsKnown
<1>3. O!NeverEmptied
  <2> SUFFICES ASSUME ~ overlapped, group # NULL, group.isRequired
               PROVE  O!Rows(options)' # {}
    BY <1>1 DEF O!NeverEmptied
  <2>1. PICK o \in O!Rows(options) : o # req[h].option
    BY <1>1 DEF OptionsInv, OptionsKnown, OptionRequest
  <2>2. o \in O!Rows(options)'
    BY <1>1, <2>1 DEF O!Rows
  <2> QED BY <2>2
<1> QED BY <1>1, <1>2, <1>3 DEF OptionsInv

LEMMA GroupStatement ==
    ASSUME OptionsInv, O!Statement
    PROVE  OptionsInv' /\ O!NeverEmptied
<1>1. /\ UNCHANGED <<variants, plain, req>>
      /\ overlapped' = (overlapped \/ req # [h \in Handlers |-> O!Idle])
  BY DEF O!Statement
<1>2. /\ group' # NULL => O!assertSelectionRules(group')
      /\ group = NULL \/ group' = NULL
      /\ options' \in {options, [o \in DOMAIN options |-> IF o \in O!Rows(options) THEN NULL
                                                          ELSE options[o]]}
  BY DEF O!Statement, O!CreateGroup, O!RemoveGroup
<1>3. ASSUME ~ overlapped' PROVE OptionsKnown'
  <2>1. ~ overlapped /\ req = [h \in Handlers |-> Idle]
    BY <1>1, <1>3 DEF O!Idle, Idle
  <2>2. OptionsKnown
    BY <2>1 DEF OptionsInv
  <2>3. options' = [o \in 1 .. LastOption |-> options'[o]]
    BY <1>2, <2>2 DEF OptionsKnown
  <2>4. \A h \in Handlers : req'[h] = Idle
    BY <1>1, <2>1
  <2>5. \A h \in Handlers : OptionRequest(req[h])'
    BY <2>4, IdleNext DEF OptionRequest
  <2> QED BY <1>1, <1>2, <2>2, <2>3, <2>5
          DEF OptionsKnown, RequestsKept, Alone, Preselected, O!Rows, O!Defaults,
              O!assertSelectionRules
<1>4. O!NeverEmptied
  BY <1>2 DEF O!NeverEmptied
<1> QED BY <1>2, <1>3, <1>4 DEF OptionsInv, O!assertSelectionRules

LEMMA OptionsKept ==
    OptionsInv /\ [O!Next]_(O!vars) => OptionsInv' /\ [O!NeverEmptied]_(O!vars)
<1> SUFFICES ASSUME OptionsInv, [O!Next]_(O!vars) PROVE OptionsInv' /\ [O!NeverEmptied]_(O!vars)
  OBVIOUS
<1>1. ASSUME NEW h \in Handlers, O!InsertVariant(h) \/ O!SetDefaultVariant(h) \/ O!DeleteVariant(h)
      PROVE  OptionsInv' /\ O!NeverEmptied
  <2>1. UNCHANGED <<group, options, overlapped>>
    BY <1>1 DEF O!InsertVariant, O!SetDefaultVariant, O!DeleteVariant, O!Finish, O!Continue
  <2>2. O!NeverEmptied
    BY <2>1 DEF O!NeverEmptied, O!Rows
  <2>3. ~ overlapped => OptionsKnown'
    BY <1>1, VariantInserted, DefaultSet, VariantDeleted DEF OptionsInv
  <2> QED BY <2>1, <2>2, <2>3 DEF OptionsInv
<1>2. ASSUME NEW h \in Handlers, NEW asked \in BOOLEAN \cup {NULL}, O!CreateVariant(h, asked)
      PROVE  OptionsInv' /\ O!NeverEmptied
  <2> PICK isFirst : isFirst = (O!Rows(variants) = {})
    OBVIOUS
  <2> PICK isDefault : isDefault = IF asked = NULL THEN isFirst ELSE asked
    OBVIOUS
  <2> PICK r : r = [kind |-> "create", isFirst |-> isFirst, isDefault |-> isDefault]
    OBVIOUS
  <2>1. O!Start(h, r)
    BY <1>2 DEF O!CreateVariant
  <2>2. isDefault \in BOOLEAN
    OBVIOUS
  <2>3. OptionRequest(r)
    BY <2>2 DEF OptionRequest
  <2> QED BY <2>1, <2>3, OptionReads
<1>3. ASSUME NEW h \in Handlers, NEW v, O!UpdateVariant(h, v) \/ O!RemoveVariant(h, v)
      PROVE  OptionsInv' /\ O!NeverEmptied
  <2>1. \/ O!Start(h, [kind |-> "promote", variant |-> v])
        \/ /\ v \in O!Rows(variants) /\ O!Removable(v)
           /\ O!Start(h, [kind |-> "remove", variant |-> v])
    BY <1>3 DEF O!UpdateVariant, O!RemoveVariant
  <2>2. OptionRequest([kind |-> "promote", variant |-> v])
    BY DEF OptionRequest
  <2>3. v \in O!Rows(variants) /\ O!Removable(v)
            => OptionRequest([kind |-> "remove", variant |-> v])
    BY DEF OptionRequest
  <2> QED BY <2>1, <2>2, <2>3, OptionReads
<1>4. ASSUME NEW h \in Handlers, NEW p, O!UpdateGroup(h, p)
      PROVE  OptionsInv' /\ O!NeverEmptied
  <2>1. /\ O!Start(h, [kind |-> "group", patch |-> p])
        /\ O!assertSelectionRules(O!Patched(group, p))
    BY <1>4 DEF O!UpdateGroup
  <2>2. OptionRequest([kind |-> "group", patch |-> p])
    BY <2>1 DEF OptionRequest
  <2> QED BY <2>1, <2>2, OptionReads
<1>5. ASSUME NEW h \in Handlers, O!CreateAddOn(h)
      PROVE  OptionsInv' /\ O!NeverEmptied
  <2>1. O!Start(h, [kind |-> "option"])
    BY <1>5 DEF O!CreateAddOn
  <2>2. OptionRequest([kind |-> "option"])
    BY DEF OptionRequest
  <2> QED BY <2>1, <2>2, OptionReads
<1>6. ASSUME NEW h \in Handlers, NEW o \in O!Rows(options), O!RemoveAddOn(h, o)
      PROVE  OptionsInv' /\ O!NeverEmptied
  <2>1. /\ O!Start(h, [kind |-> "drop", option |-> o])
        /\ ~ (group.isRequired /\ Cardinality(O!Rows(options)) <= 1)
    BY <1>6, OptionCounts DEF O!RemoveAddOn
  <2>2. group.isRequired => \E p \in O!Rows(options) : p # o
    <3> SUFFICES ASSUME \A p \in O!Rows(options) : p = o
                 PROVE  Cardinality(O!Rows(options)) <= 1
      BY <2>1
    <3>1. O!Rows(options) = {o}
      OBVIOUS
    <3>2. Cardinality(O!Rows(options)) = 1
      BY <3>1, FS_Singleton
    <3> QED BY <3>2
  <2>3. OptionRequest([kind |-> "drop", option |-> o])
    BY <2>2 DEF OptionRequest
  <2> QED BY <2>1, <2>3, OptionReads
<1>7. CASE (O!Restart /\ UNCHANGED O!choices) \/ UNCHANGED O!vars
  <2>1. UNCHANGED <<variants, group, options, plain, overlapped>>
    BY <1>7 DEF O!Restart, O!vars, O!choices
  <2>2. OptionsKnown => OptionsKnown'
    <3>1. CASE UNCHANGED O!vars
      BY <2>1, <3>1 DEF O!vars, OptionsKnown, RequestsKept, Alone, OptionRequest, O!Rows,
                        O!Defaults, Preselected, O!Removable
    <3>2. CASE O!Restart
      <4>1. RequestsKept' /\ Alone' /\ \A h \in Handlers : req'[h] = Idle
        BY <3>2, RestartsAlone DEF O!Restart, O!Idle, Restart, Idle
      <4>2. \A h \in Handlers : OptionRequest(req[h])'
        BY <4>1, IdleNext DEF OptionRequest
      <4> QED BY <2>1, <4>1, <4>2 DEF OptionsKnown, O!Rows, O!Defaults, Preselected
    <3> QED BY <1>7, <3>1, <3>2
  <2>3. O!NeverEmptied
    BY <2>1 DEF O!NeverEmptied, O!Rows
  <2> QED BY <2>1, <2>2, <2>3 DEF OptionsInv
<1> QED BY <1>1, <1>2, <1>3, <1>4, <1>5, <1>6, <1>7, GroupStatement, GroupWritten, AddOnInserted,
           AddOnDeleted
        DEF O!Next, O!Request, O!Proceed

\* A group never asks for more than it allows, whatever requests overlap; one
\* at a time, a dish with variants has one preselected unless its first was
\* asked not to be, a required group asks for something, and one that had
\* options keeps one.
THEOREM DishesStayOrderable == Spec => DishIsOrderable
<1> DEFINE Inv == part = "options" => OptionsInv
           Can == part = "options" => O!Satisfiable
           Keeps == part = "options" => O!NeverEmptied
<1>1. Init => Inv
  BY OptionsStart DEF Init
<1>2. Inv /\ [Next]_vars => Inv' /\ [Keeps]_vars
  <2> SUFFICES ASSUME Inv, [Next]_vars PROVE Inv' /\ (Keeps \/ UNCHANGED vars)
    OBVIOUS
  <2>1. UNCHANGED O!vars => O!NeverEmptied
    BY DEF O!vars, O!choices, O!NeverEmptied, O!Rows
  <2> QED BY <2>1, PartStays, OptionsOnly, OptionsKept
<1>3. Inv => Can
  BY DEF OptionsInv, OptionsKnown, Preselected, O!Satisfiable
<1> QED BY <1>1, <1>2, <1>3, PTL DEF Spec, DishIsOrderable

-----------------------------------------------------------------------------
(* Menus: ids are not used twice, so what a correction looked at is as it  *)
(* was or gone, however requests overlap; and alone, what is deleted still *)
(* holds nothing that is served.                                           *)

LEMMA MenusOnly == part = "menus" /\ [Next]_vars => [M!Next]_(M!vars)
BY DEF Next, vars, Only, RidersStep, SessionsStep, CodesStep, AddressesStep, BasketsStep,
       CampaignsStep, MenusStep, OptionsStep, ListingsStep, HoursStep, OffersStep, TicketsStep,
       NoticesStep, LiveStep, shelf, M!vars, M!shelf

DishRows ==
    [section : 1 .. LastSection, kitchen : Kitchens, deleted : BOOLEAN, base : Prices,
     discount : Offers \cup {NULL}]

\* A correction moves a dish to a section of its own kitchen, while both are there.
MenuRequest(r) ==
    /\ r.kind \in {"update", "bulk"} =>
        /\ r.patch.section \in (1 .. LastSection) \cup {KEEP}
        /\ r.patch.base \in Prices \cup {KEEP}
        /\ r.patch.discount \in Offers \cup {NULL, KEEP}
    /\ r.kind = "update" /\ r.patch.section # KEEP =>
        /\ r.dish \in 1 .. LastDish
        /\ sections[r.patch.section] # UNUSED /\ dishes[r.dish] # UNUSED
        /\ r.patch.section \in M!Rows(sections) /\ r.dish \in M!Rows(dishes)
            => M!KitchenOfSection(r.patch.section) = dishes[r.dish].kitchen
    /\ r.kind = "bulk" => r.patch.section = KEEP

\* The tables, and the menu each section is of.
ShelfTyped ==
    /\ menus = [m \in 1 .. LastMenu |-> menus[m]]
    /\ sections = [s \in 1 .. LastSection |-> sections[s]]
    /\ dishes = [d \in 1 .. LastDish |-> dishes[d]]
    /\ \A m \in M!Rows(menus) : menus[m] \in Kitchens
    /\ \A s \in M!Rows(sections) : sections[s] \in M!Rows(menus)
    /\ \A d \in M!Rows(dishes) : dishes[d] \in DishRows

NothingLost(r) ==
    /\ r.kind = "deleteMenu" => M!NothingServed(M!SectionsOf(r.menu))
    /\ r.kind = "deleteSection" => M!NothingServed({r.section})

MenusSeen == Alone /\ \A h \in Handlers : NothingLost(req[h])

MenusInv ==
    /\ RequestsKept /\ ShelfTyped /\ M!InPlace
    /\ \A h \in Handlers : MenuRequest(req[h])
    /\ ~ overlapped => MenusSeen

\* What is there stays where it is until it is gone, and is never back.
Settled ==
    /\ \A m \in M!Rows(menus) \cap M!Rows(menus)' : menus'[m] = menus[m]
    /\ \A s \in 1 .. LastSection : sections[s] # UNUSED =>
        /\ sections'[s] # UNUSED
        /\ s \in M!Rows(sections)' => s \in M!Rows(sections) /\ sections'[s] = sections[s]
    /\ \A d \in 1 .. LastDish : dishes[d] # UNUSED =>
        /\ dishes'[d] # UNUSED
        /\ d \in M!Rows(dishes)' => d \in M!Rows(dishes) /\ dishes'[d].kitchen = dishes[d].kitchen

LEMMA MenuRequestStays ==
    ASSUME ShelfTyped, ShelfTyped', Settled, NEW r, MenuRequest(r)
    PROVE  MenuRequest(r)'
<1> SUFFICES ASSUME r.kind = "update", r.patch.section # KEEP, MenuRequest(r)
             PROVE  /\ sections'[r.patch.section] # UNUSED /\ dishes'[r.dish] # UNUSED
                    /\ r.patch.section \in M!Rows(sections)' /\ r.dish \in M!Rows(dishes)'
                        => menus'[sections'[r.patch.section]] = dishes'[r.dish].kitchen
  BY DEF MenuRequest, M!KitchenOfSection
<1> PICK s : s = r.patch.section
  OBVIOUS
<1> PICK d : d = r.dish
  OBVIOUS
<1>1. /\ s \in 1 .. LastSection /\ d \in 1 .. LastDish
      /\ sections[s] # UNUSED /\ dishes[d] # UNUSED
      /\ s \in M!Rows(sections) /\ d \in M!Rows(dishes) => menus[sections[s]] = dishes[d].kitchen
  BY DEF MenuRequest, M!KitchenOfSection
<1>2. sections'[s] # UNUSED /\ dishes'[d] # UNUSED
  BY <1>1 DEF Settled
<1>3. ASSUME s \in M!Rows(sections)', d \in M!Rows(dishes)'
      PROVE  menus'[sections'[s]] = dishes'[d].kitchen
  <2>1. /\ s \in M!Rows(sections) /\ sections'[s] = sections[s]
        /\ d \in M!Rows(dishes) /\ dishes'[d].kitchen = dishes[d].kitchen
    BY <1>1, <1>3 DEF Settled
  <2>2. sections[s] \in M!Rows(menus) /\ sections'[s] \in M!Rows(menus)'
    BY <1>3, <2>1 DEF ShelfTyped
  <2>3. menus'[sections[s]] = menus[sections[s]]
    BY <2>1, <2>2 DEF Settled
  <2> QED BY <1>1, <2>1, <2>3
<1> QED BY <1>2, <1>3

LEMMA IdleMenu == MenuRequest(Idle)' /\ NothingLost(Idle)'
BY DEF MenuRequest, NothingLost, Idle

LEMMA MenusStart == M!Init => MenusInv
<1> SUFFICES ASSUME M!Init PROVE MenusInv
  OBVIOUS
<1>1. RequestsKept /\ Alone /\ \A h \in Handlers : req[h] = Idle
  BY DEF M!Init, M!NoRequests, M!Idle, Idle, RequestsKept, Alone
<1>2. M!Rows(menus) = {} /\ M!Rows(sections) = {} /\ M!Rows(dishes) = {}
  BY DEF M!Rows, M!Init
<1>3. MenuRequest(Idle) /\ NothingLost(Idle)
  BY DEF MenuRequest, NothingLost, Idle
<1>4. ShelfTyped /\ M!InPlace
  BY <1>2 DEF M!Init, ShelfTyped, M!InPlace
<1> QED BY <1>1, <1>3, <1>4 DEF MenusInv, MenusSeen

\* A request begins that read what it carries.
LEMMA MenuReads ==
    ASSUME MenusInv, NEW h \in Handlers, NEW r, M!Start(h, r), MenuRequest(r), NothingLost(r)
    PROVE  MenusInv' /\ M!ServedStay
<1>1. Begin(h, r) /\ UNCHANGED <<menus, sections, dishes>>
  BY DEF M!Start, M!Begin, M!Idle, M!shelf, Begin, Idle
<1>2. RequestsKept' /\ \A g \in Handlers : req'[g] = IF g = h THEN r ELSE req[g]
  BY <1>1 DEF Begin, RequestsKept, MenusInv
<1>3. ShelfTyped' /\ M!InPlace'
  BY <1>1 DEF MenusInv, ShelfTyped, M!InPlace, M!Rows, M!KitchenOfSection
<1>4. \A g \in Handlers : MenuRequest(req[g])'
  <2>1. MenuRequest(r)' /\ \A g \in Handlers : MenuRequest(req[g])
    BY <1>1 DEF MenuRequest, MenusInv, M!Rows, M!KitchenOfSection
  <2> QED BY <1>1, <1>2, <2>1 DEF MenuRequest, M!Rows, M!KitchenOfSection
<1>5. ASSUME ~ overlapped' PROVE MenusSeen'
  <2>1. OnlyMoves(h, r)
    BY <1>1, <1>5, BeginsAlone DEF MenusInv
  <2>2. NothingLost(r)' /\ \A g \in Handlers : req'[g] \in {r, Idle}
    BY <1>1, <2>1 DEF OnlyMoves, NothingLost, M!NothingServed, M!SectionsOf, M!Served,
                      M!DishesOf, M!Rows
  <2>3. \A g \in Handlers : NothingLost(req[g])'
    BY <2>2, IdleMenu DEF NothingLost
  <2> QED BY <2>1, <2>3 DEF MenusSeen, OnlyMoves
<1>6. M!ServedStay
  BY <1>1 DEF M!ServedStay, M!Served, M!Rows
<1> QED BY <1>2, <1>3, <1>4, <1>5, <1>6 DEF MenusInv

\* A request ends after it wrote the tables.
LEMMA MenuEnds ==
    ASSUME MenusInv, NEW h \in Handlers, M!Finish(h), req[h].kind # "idle",
           Settled, ShelfTyped', M!InPlace'
    PROVE  MenusInv'
<1>1. Continue(h, Idle)
  BY DEF M!Finish, M!Continue, M!Idle, Continue, Idle
<1>2. RequestsKept' /\ \A g \in Handlers : req'[g] = IF g = h THEN Idle ELSE req[g]
  BY <1>1 DEF Continue, RequestsKept, MenusInv
<1>3. ASSUME NEW g \in Handlers PROVE MenuRequest(req[g])'
  <2>1. MenuRequest(req[g])
    BY DEF MenusInv
  <2> PICK r : r = req[g]
    OBVIOUS
  <2>2. MenuRequest(r)'
    BY <2>1, MenuRequestStays DEF MenusInv
  <2> QED BY <1>2, <2>2, IdleMenu DEF MenuRequest
<1>4. ASSUME ~ overlapped' PROVE MenusSeen'
  <2>1. ~ overlapped
    BY <1>1, <1>4 DEF Continue
  <2>2. OnlyMoves(h, Idle)
    BY <1>1, <2>1, GoesOnAlone DEF MenusInv, MenusSeen
  <2>3. \A g \in Handlers : req'[g] = Idle
    BY <2>2 DEF OnlyMoves
  <2>4. \A g \in Handlers : NothingLost(req[g])'
    BY <2>3, IdleMenu DEF NothingLost
  <2> QED BY <2>2, <2>4 DEF MenusSeen, OnlyMoves
<1> QED BY <1>2, <1>3, <1>4 DEF MenusInv

\* Rows below what is deleted go with it.
LEMMA ShelfCascades ==
    ASSUME MenusInv, NEW h \in Handlers, M!Cascade(h)
    PROVE  MenusInv' /\ M!ServedStay
<1> PICK r : r = req[h]
  OBVIOUS
<1> PICK gone : gone = IF r.kind = "deleteMenu" THEN M!SectionsOf(r.menu)
                       ELSE {r.section} \cap M!Rows(sections)
  OBVIOUS
<1> PICK lost : lost = IF r.kind = "deleteMenu" THEN {r.menu} ELSE {}
  OBVIOUS
<1>1. /\ r.kind \in {"deleteMenu", "deleteSection"} /\ M!Finish(h)
      /\ menus' = IF r.kind = "deleteMenu" THEN M!Without(menus, {r.menu}) ELSE menus
      /\ sections' = M!Without(sections, gone)
      /\ dishes' = M!Without(dishes, M!DishesOf(gone))
  BY DEF M!Cascade
<1>2. /\ menus = [m \in 1 .. LastMenu |-> menus[m]]
      /\ sections = [s \in 1 .. LastSection |-> sections[s]]
      /\ dishes = [d \in 1 .. LastDish |-> dishes[d]]
  BY DEF MenusInv, ShelfTyped
<1>3. /\ menus' = [m \in 1 .. LastMenu |-> IF m \in lost THEN NULL ELSE menus[m]]
      /\ sections' = [s \in 1 .. LastSection |-> IF s \in gone THEN NULL ELSE sections[s]]
      /\ dishes' = [d \in 1 .. LastDish |-> IF d \in M!DishesOf(gone) THEN NULL ELSE dishes[d]]
  BY <1>1, <1>2 DEF M!Without
<1>4. /\ M!Rows(menus)' = M!Rows(menus) \ lost
      /\ M!Rows(sections)' = M!Rows(sections) \ gone
      /\ M!Rows(dishes)' = M!Rows(dishes) \ M!DishesOf(gone)
  BY <1>2, <1>3 DEF M!Rows
<1>5. /\ \A m \in 1 .. LastMenu : menus'[m] = IF m \in lost THEN NULL ELSE menus[m]
      /\ \A s \in 1 .. LastSection : sections'[s] = IF s \in gone THEN NULL ELSE sections[s]
      /\ \A d \in 1 .. LastDish :
            dishes'[d] = IF d \in M!DishesOf(gone) THEN NULL ELSE dishes[d]
  BY <1>3
<1>6. /\ \A m \in M!Rows(menus) : m \in 1 .. LastMenu
      /\ \A s \in M!Rows(sections) : s \in 1 .. LastSection
      /\ \A d \in M!Rows(dishes) : d \in 1 .. LastDish
  BY <1>2 DEF M!Rows
<1>7. \A s \in M!Rows(sections)' : sections[s] \notin lost
  BY <1>1, <1>4 DEF M!SectionsOf
<1>8. Settled
  <2>1. NULL # UNUSED
    BY PlatformAssumption
  <2> QED BY <1>4, <1>5, <1>6, <2>1 DEF Settled
<1>9. ShelfTyped'
  <2>1. \A m \in M!Rows(menus)' : menus'[m] \in Kitchens
    BY <1>4, <1>5, <1>6 DEF MenusInv, ShelfTyped
  <2>2. \A s \in M!Rows(sections)' : sections'[s] \in M!Rows(menus)'
    BY <1>4, <1>5, <1>6, <1>7 DEF MenusInv, ShelfTyped
  <2>3. \A d \in M!Rows(dishes)' : dishes'[d] \in DishRows
    BY <1>4, <1>5, <1>6 DEF MenusInv, ShelfTyped
  <2> QED BY <1>3, <1>5, <2>1, <2>2, <2>3 DEF ShelfTyped
<1>10. M!InPlace'
  <2> SUFFICES ASSUME NEW d \in M!Rows(dishes)'
               PROVE  /\ dishes'[d].section \in M!Rows(sections)'
                      /\ menus'[sections'[dishes'[d].section]] = dishes'[d].kitchen
                      /\ M!PricedRight(dishes'[d].base, dishes'[d].discount)
    BY DEF M!InPlace, M!KitchenOfSection
  <2>1. d \in M!Rows(dishes) /\ d \notin M!DishesOf(gone) /\ dishes'[d] = dishes[d]
    BY <1>4, <1>5, <1>6
  <2>2. /\ dishes[d].section \in M!Rows(sections) \ gone
        /\ menus[sections[dishes[d].section]] = dishes[d].kitchen
        /\ M!PricedRight(dishes[d].base, dishes[d].discount)
    BY <2>1 DEF MenusInv, M!InPlace, M!KitchenOfSection, M!DishesOf
  <2>3. sections'[dishes[d].section] = sections[dishes[d].section]
    BY <1>5, <1>6, <2>2
  <2>4. sections[dishes[d].section] \in M!Rows(menus) \ lost
    BY <1>4, <1>7, <2>2 DEF MenusInv, ShelfTyped
  <2> QED BY <1>4, <1>5, <1>6, <2>1, <2>2, <2>3, <2>4
<1>11. M!ServedStay
  <2> SUFFICES ASSUME ~ overlapped', NEW d \in M!Served(M!Rows(dishes))
               PROVE  d \in M!Rows(dishes)'
    BY DEF M!ServedStay
  <2>1. ~ overlapped
    BY <1>1 DEF M!Finish, M!Continue
  <2>2. NothingLost(r)
    BY <2>1 DEF MenusInv, MenusSeen
  <2>3. d \in M!Rows(dishes) /\ ~ dishes[d].deleted
    BY Zenon DEF M!Served
  <2>4. d \notin M!DishesOf(gone)
    <3>1. CASE r.kind = "deleteMenu"
      <4>1. M!Served(M!DishesOf(gone)) = {}
        BY <2>2, <3>1 DEF NothingLost, M!NothingServed
      <4> QED BY <2>3, <4>1, Zenon DEF M!Served
    <3>2. CASE r.kind = "deleteSection"
      <4>1. M!Served(M!DishesOf({r.section})) = {} /\ gone \subseteq {r.section}
        BY <2>2, <3>2 DEF NothingLost, M!NothingServed
      <4>2. M!DishesOf(gone) \subseteq M!DishesOf({r.section})
        BY <4>1 DEF M!DishesOf
      <4> QED BY <2>3, <4>1, <4>2, Zenon DEF M!Served
    <3> QED BY <1>1, <3>1, <3>2
  <2> QED BY <1>4, <2>3, <2>4
<1>12. req[h].kind # "idle"
  BY <1>1
<1> QED BY <1>1, <1>8, <1>9, <1>10, <1>11, <1>12, MenuEnds

LEMMA OfferPatched ==
    ASSUME NEW dish \in DishRows, NEW discount
    PROVE  [dish EXCEPT !.discount = discount]
            = [section |-> dish.section, kitchen |-> dish.kitchen, deleted |-> dish.deleted,
               base |-> dish.base, discount |-> discount]
BY DEF DishRows

\* A patch writes what a row may store, in the same kitchen.
LEMMA DishPatched ==
    ASSUME NEW dish \in DishRows, NEW p,
           p.section \in (1 .. LastSection) \cup {KEEP}, p.base \in Prices \cup {KEEP},
           p.discount \in Offers \cup {NULL, KEEP}
    PROVE  /\ M!Patched(dish, p) \in DishRows
           /\ M!Patched(dish, p).kitchen = dish.kitchen
           /\ M!Patched(dish, p).section = M!Or(p.section, dish.section)
<1> PICK section : section = M!Or(p.section, dish.section)
  OBVIOUS
<1> PICK base : base = M!Or(p.base, dish.base)
  OBVIOUS
<1> PICK discount : discount = M!Or(p.discount, dish.discount)
  OBVIOUS
<1>1. section \in 1 .. LastSection /\ base \in Prices /\ discount \in Offers \cup {NULL}
  BY DEF M!Or, DishRows
<1> PICK x : x = [section |-> section, kitchen |-> dish.kitchen, deleted |-> dish.deleted,
                  base |-> base, discount |-> discount]
  OBVIOUS
<1>2. M!Patched(dish, p)
        = [dish EXCEPT !.section = section, !.base = base, !.discount = discount]
  BY DEF M!Patched
<1>3. [dish EXCEPT !.section = section, !.base = base, !.discount = discount] = x
  <2> PICK y : y = [dish EXCEPT !.section = section]
    OBVIOUS
  <2>1. y = [section |-> section, kitchen |-> dish.kitchen, deleted |-> dish.deleted,
             base |-> dish.base, discount |-> dish.discount]
    BY DEF DishRows
  <2>2. y \in DishRows
    BY <1>1, <2>1 DEF DishRows
  <2> PICK z : z = [y EXCEPT !.base = base]
    OBVIOUS
  <2>3. z = [section |-> y.section, kitchen |-> y.kitchen, deleted |-> y.deleted,
             base |-> base, discount |-> y.discount]
    BY <2>2 DEF DishRows
  <2>4. z \in DishRows
    BY <1>1, <2>2, <2>3 DEF DishRows
  <2>5. [z EXCEPT !.discount = discount]
            = [section |-> z.section, kitchen |-> z.kitchen, deleted |-> z.deleted,
               base |-> z.base, discount |-> discount]
    BY <2>4, OfferPatched
  <2>6. y.section = section /\ y.kitchen = dish.kitchen /\ y.deleted = dish.deleted
    BY <2>1
  <2>7. z.section = section /\ z.kitchen = dish.kitchen /\ z.deleted = dish.deleted /\ z.base = base
    BY <2>3, <2>6
  <2> QED BY <2>5, <2>7
<1>4. x \in DishRows /\ x.kitchen = dish.kitchen /\ x.section = section
  BY <1>1 DEF DishRows
<1> QED BY <1>2, <1>3, <1>4

\* Nothing is deleted: rows of dishes are written, and nothing else.
LEMMA DishesWritten ==
    ASSUME MenusInv, UNCHANGED <<menus, sections>>,
           dishes' = [d \in 1 .. LastDish |-> dishes'[d]],
           \A d \in 1 .. LastDish : dishes'[d] # dishes[d] =>
            /\ dishes'[d] \in DishRows
            /\ dishes'[d].section \in M!Rows(sections)
            /\ M!KitchenOfSection(dishes'[d].section) = dishes'[d].kitchen
            /\ M!PricedRight(dishes'[d].base, dishes'[d].discount)
            /\ \/ dishes[d] = UNUSED
               \/ dishes'[d].kitchen = dishes[d].kitchen /\ d \in M!Rows(dishes)
    PROVE  Settled /\ ShelfTyped' /\ M!InPlace' /\ M!ServedStay
<1>1. DOMAIN dishes = 1 .. LastDish /\ DOMAIN dishes' = 1 .. LastDish
  BY DEF MenusInv, ShelfTyped
<1>2. M!Rows(menus)' = M!Rows(menus) /\ M!Rows(sections)' = M!Rows(sections)
  BY DEF M!Rows
<1>3. \A x \in DishRows : x \notin {UNUSED, NULL}
  BY RowsAssumption DEF DishRows
<1>4. \A d \in M!Rows(dishes) : d \in M!Rows(dishes)' /\ d \in 1 .. LastDish
  BY <1>1, <1>3 DEF M!Rows
<1>5. \A d \in M!Rows(dishes)' : d \in 1 .. LastDish
  BY <1>1 DEF M!Rows
<1>6. \A d \in M!Rows(dishes)' : dishes'[d] # dishes[d] \/ d \in M!Rows(dishes)
  BY <1>1 DEF M!Rows
<1>7. Settled
  <2>1. \A d \in 1 .. LastDish : dishes[d] # UNUSED =>
            /\ dishes'[d] # UNUSED
            /\ d \in M!Rows(dishes)' =>
                d \in M!Rows(dishes) /\ dishes'[d].kitchen = dishes[d].kitchen
    BY <1>3, <1>6
  <2>2. UNCHANGED menus /\ UNCHANGED sections
    OBVIOUS
  <2> QED BY <1>2, <2>1, <2>2 DEF Settled
<1>8. ShelfTyped'
  <2>1. \A d \in M!Rows(dishes)' : dishes'[d] \in DishRows
    BY <1>5, <1>6 DEF MenusInv, ShelfTyped
  <2> QED BY <1>2, <2>1 DEF MenusInv, ShelfTyped
<1>9. M!InPlace'
  <2> SUFFICES ASSUME NEW d \in M!Rows(dishes)'
               PROVE  /\ dishes'[d].section \in M!Rows(sections)
                      /\ M!KitchenOfSection(dishes'[d].section) = dishes'[d].kitchen
                      /\ M!PricedRight(dishes'[d].base, dishes'[d].discount)
    BY <1>2 DEF M!InPlace, M!KitchenOfSection
  <2> QED BY <1>5, <1>6 DEF MenusInv, M!InPlace
<1>10. M!ServedStay
  BY <1>4, Zenon DEF M!ServedStay, M!Served
<1> QED BY <1>7, <1>8, <1>9, <1>10

LEMMA PatchWritten ==
    ASSUME MenusInv, NEW h \in Handlers, M!WritePatch(h)
    PROVE  MenusInv' /\ M!ServedStay
<1> PICK r : r = req[h]
  OBVIOUS
<1> PICK found : found = IF r.kind = "update" THEN {r.dish} \cap M!Rows(dishes)
                         ELSE M!Served(r.dishes \cap M!Rows(dishes))
  OBVIOUS
<1>1. /\ r.kind \in {"update", "bulk"} /\ M!Finish(h) /\ UNCHANGED <<menus, sections>>
      /\ dishes' = IF \A d \in found : M!Storable(M!Patched(dishes[d], r.patch))
                   THEN [d \in DOMAIN dishes |->
                            IF d \in found THEN M!Patched(dishes[d], r.patch) ELSE dishes[d]]
                   ELSE dishes
  BY DEF M!WritePatch
<1>2. DOMAIN dishes = 1 .. LastDish /\ dishes = [d \in 1 .. LastDish |-> dishes[d]]
  BY DEF MenusInv, ShelfTyped
<1>3. dishes' = [d \in 1 .. LastDish |-> dishes'[d]]
  BY <1>1, <1>2
<1>4. found \subseteq M!Rows(dishes)
  BY DEF M!Served
<1>5. MenuRequest(r)
  BY DEF MenusInv
<1>6. ASSUME NEW d \in 1 .. LastDish, dishes'[d] # dishes[d]
      PROVE  /\ dishes'[d] \in DishRows
             /\ dishes'[d].section \in M!Rows(sections)
             /\ M!KitchenOfSection(dishes'[d].section) = dishes'[d].kitchen
             /\ M!PricedRight(dishes'[d].base, dishes'[d].discount)
             /\ dishes'[d].kitchen = dishes[d].kitchen /\ d \in M!Rows(dishes)
  <2>1. /\ d \in found /\ dishes'[d] = M!Patched(dishes[d], r.patch)
        /\ M!Storable(M!Patched(dishes[d], r.patch))
    BY <1>1, <1>2, <1>6
  <2>2. d \in M!Rows(dishes) /\ dishes[d] \in DishRows
    BY <1>4, <2>1 DEF MenusInv, ShelfTyped
  <2>3. /\ dishes'[d] \in DishRows /\ dishes'[d].kitchen = dishes[d].kitchen
        /\ dishes'[d].section = M!Or(r.patch.section, dishes[d].section)
    <3> PICK p : p = r.patch
      OBVIOUS
    <3>1. /\ p.section \in (1 .. LastSection) \cup {KEEP} /\ p.base \in Prices \cup {KEEP}
          /\ p.discount \in Offers \cup {NULL, KEEP}
      BY <1>1, <1>5 DEF MenuRequest
    <3> PICK dish : dish = dishes[d]
      OBVIOUS
    <3>2. dish \in DishRows /\ dishes'[d] = M!Patched(dish, p)
      BY <2>1, <2>2
    <3>3. /\ M!Patched(dish, p) \in DishRows
          /\ M!Patched(dish, p).kitchen = dish.kitchen
          /\ M!Patched(dish, p).section = M!Or(p.section, dish.section)
      BY <3>1, <3>2, DishPatched
    <3> QED BY <3>2, <3>3
  <2>4. /\ dishes'[d].section \in M!Rows(sections)
        /\ M!PricedRight(dishes'[d].base, dishes'[d].discount)
    BY <2>1 DEF M!Storable, M!StoresPrice
  <2>5. CASE r.patch.section = KEEP
    BY <2>2, <2>3, <2>4, <2>5 DEF M!Or, MenusInv, M!InPlace
  <2>6. CASE r.patch.section # KEEP
    <3>1. r.kind = "update" /\ d = r.dish /\ dishes'[d].section = r.patch.section
      BY <1>1, <1>5, <2>1, <2>3, <2>6 DEF MenuRequest, M!Or
    <3> QED BY <1>5, <2>2, <2>3, <2>4, <2>6, <3>1 DEF MenuRequest
  <2> QED BY <2>5, <2>6
<1>7. Settled /\ ShelfTyped' /\ M!InPlace' /\ M!ServedStay
  BY <1>1, <1>3, <1>6, DishesWritten
<1>8. req[h].kind # "idle"
  BY <1>1
<1> QED BY <1>1, <1>7, <1>8, MenuEnds

LEMMA ShelfStatement ==
    ASSUME MenusInv, M!Statement
    PROVE  MenusInv' /\ M!ServedStay
<1>1. req' = req /\ overlapped' = (overlapped \/ req # [h \in Handlers |-> M!Idle])
  BY DEF M!Statement
<1>2. /\ DOMAIN menus = 1 .. LastMenu /\ DOMAIN sections = 1 .. LastSection
      /\ DOMAIN dishes = 1 .. LastDish
  BY DEF MenusInv, ShelfTyped
<1>3. ASSUME Settled, ShelfTyped', M!InPlace', M!ServedStay PROVE MenusInv' /\ M!ServedStay
  <2>1. ASSUME NEW g \in Handlers PROVE MenuRequest(req[g])'
    <3> PICK r : r = req[g]
      OBVIOUS
    <3>1. MenuRequest(r)'
      BY <1>3, MenuRequestStays DEF MenusInv
    <3> QED BY <1>1, <3>1 DEF MenuRequest
  <2>2. ASSUME ~ overlapped' PROVE MenusSeen'
    <3>1. req = [h \in Handlers |-> Idle] /\ ~ overlapped
      BY <1>1, <2>2 DEF M!Idle, Idle
    <3>2. \A h \in Handlers : req'[h] = Idle
      BY <1>1, <3>1
    <3>3. \A h \in Handlers : NothingLost(req[h])'
      BY <3>2, IdleMenu DEF NothingLost
    <3> QED BY <3>2, <3>3 DEF MenusSeen, Alone
  <2> QED BY <1>1, <1>3, <2>1, <2>2 DEF MenusInv, RequestsKept
<1>4. CASE \E k \in Kitchens : M!CreateMenu(k)
  <2>1. PICK k \in Kitchens, m \in M!Fresh(menus) :
            menus' = [menus EXCEPT ![m] = k] /\ UNCHANGED <<sections, dishes>>
    BY <1>4 DEF M!CreateMenu
  <2>2. /\ menus' = [n \in 1 .. LastMenu |-> menus'[n]] /\ m \notin M!Rows(menus)
        /\ \A n \in 1 .. LastMenu : menus'[n] = IF n = m THEN k ELSE menus[n]
    BY <2>1 DEF MenusInv, ShelfTyped, M!Fresh, M!Rows
  <2>3. /\ M!Rows(sections)' = M!Rows(sections) /\ M!Rows(dishes)' = M!Rows(dishes)
        /\ \A n \in M!Rows(menus) : n \in M!Rows(menus)' /\ n \in 1 .. LastMenu
        /\ \A n \in M!Rows(menus)' : (n = m \/ n \in M!Rows(menus)) /\ n \in 1 .. LastMenu
    BY <1>2, <2>1, <2>2 DEF M!Rows
  <2>4. \A n \in M!Rows(menus) : menus'[n] = menus[n]
    BY <2>2, <2>3
  <2>5. Settled
    BY <2>1, <2>3, <2>4 DEF Settled
  <2>6. \A n \in M!Rows(menus)' : menus'[n] \in Kitchens
    BY <2>2, <2>3 DEF MenusInv, ShelfTyped
  <2>7. ShelfTyped'
    BY <2>1, <2>2, <2>3, <2>6 DEF MenusInv, ShelfTyped
  <2>8. M!InPlace'
    BY <2>1, <2>3, <2>4 DEF MenusInv, ShelfTyped, M!InPlace, M!KitchenOfSection
  <2>9. M!ServedStay
    BY <2>3, Zenon DEF M!ServedStay, M!Served
  <2> QED BY <1>3, <2>5, <2>7, <2>8, <2>9
<1>5. CASE \E m \in M!Rows(menus) : M!CreateMenuCategory(m)
  <2>1. PICK m \in M!Rows(menus), s \in M!Fresh(sections) :
            sections' = [sections EXCEPT ![s] = m] /\ UNCHANGED <<menus, dishes>>
    BY <1>5 DEF M!CreateMenuCategory
  <2>2. /\ sections' = [n \in 1 .. LastSection |-> sections'[n]]
        /\ s \notin M!Rows(sections) /\ sections[s] = UNUSED
        /\ \A n \in 1 .. LastSection : sections'[n] = IF n = s THEN m ELSE sections[n]
    BY <2>1 DEF MenusInv, ShelfTyped, M!Fresh, M!Rows
  <2>3. /\ M!Rows(menus)' = M!Rows(menus) /\ M!Rows(dishes)' = M!Rows(dishes)
        /\ \A n \in M!Rows(sections) : n \in M!Rows(sections)' /\ n \in 1 .. LastSection
        /\ \A n \in M!Rows(sections)' : (n = s \/ n \in M!Rows(sections)) /\ n \in 1 .. LastSection
    BY <1>2, <2>1, <2>2 DEF M!Rows
  <2>4. \A n \in M!Rows(sections) : sections'[n] = sections[n]
    BY <2>2, <2>3
  <2>5. Settled
    BY <2>1, <2>2, <2>3, <2>4 DEF Settled
  <2>6. \A n \in M!Rows(sections)' : sections'[n] \in M!Rows(menus)'
    BY <2>2, <2>3 DEF MenusInv, ShelfTyped
  <2>7. ShelfTyped'
    BY <2>1, <2>2, <2>3, <2>6 DEF MenusInv, ShelfTyped
  <2>8. M!InPlace'
    BY <2>1, <2>3, <2>4 DEF MenusInv, ShelfTyped, M!InPlace, M!KitchenOfSection
  <2>9. M!ServedStay
    BY <2>3, Zenon DEF M!ServedStay, M!Served, M!Rows
  <2> QED BY <1>3, <2>5, <2>7, <2>8, <2>9
<1>6. ASSUME NEW s \in M!Rows(sections), NEW base \in Prices, NEW discount \in Offers \cup {NULL},
             M!CreateMenuItem(s, base, discount)
      PROVE  MenusInv' /\ M!ServedStay
  <2> PICK x : x = [section |-> s, kitchen |-> M!KitchenOfSection(s), deleted |-> FALSE,
                    base |-> base, discount |-> discount]
    OBVIOUS
  <2>1. PICK d \in M!Fresh(dishes) : dishes' = [dishes EXCEPT ![d] = x]
    BY <1>6 DEF M!CreateMenuItem
  <2>2. M!PricedRight(base, discount) /\ UNCHANGED <<menus, sections>>
    BY <1>6 DEF M!CreateMenuItem
  <2>3. x \in DishRows
    <3>1. s \in 1 .. LastSection /\ M!KitchenOfSection(s) \in Kitchens
      BY <1>2 DEF MenusInv, ShelfTyped, M!Rows, M!KitchenOfSection
    <3> QED BY <3>1 DEF DishRows
  <2>4. /\ dishes' = [n \in 1 .. LastDish |-> dishes'[n]] /\ dishes[d] = UNUSED
        /\ \A n \in 1 .. LastDish : n # d => dishes'[n] = dishes[n]
        /\ dishes'[d] = x
    BY <2>1 DEF MenusInv, ShelfTyped, M!Fresh
  <2>5. /\ x.section = s /\ x.kitchen = M!KitchenOfSection(s)
        /\ M!PricedRight(x.base, x.discount)
    BY <2>2
  <2>6. M!KitchenOfSection(x.section) = x.kitchen /\ x.section \in M!Rows(sections)
    BY <2>5
  <2>7. \A n \in 1 .. LastDish : dishes'[n] # dishes[n] => n = d
    BY <2>4
  <2>8. \A n \in 1 .. LastDish : dishes'[n] # dishes[n] =>
            /\ dishes'[n] \in DishRows
            /\ dishes'[n].section \in M!Rows(sections)
            /\ M!KitchenOfSection(dishes'[n].section) = dishes'[n].kitchen
            /\ M!PricedRight(dishes'[n].base, dishes'[n].discount)
            /\ dishes[n] = UNUSED
    BY <2>3, <2>4, <2>5, <2>6, <2>7
  <2>9. Settled /\ ShelfTyped' /\ M!InPlace' /\ M!ServedStay
    BY <2>2, <2>4, <2>8, DishesWritten
  <2> QED BY <1>3, <2>9
<1>7. ASSUME NEW d \in M!Rows(dishes), M!DeleteMenuItem(d)
      PROVE  MenusInv' /\ M!ServedStay
  <2> PICK x : x = [dishes[d] EXCEPT !.deleted = TRUE]
    OBVIOUS
  <2>1. dishes' = [dishes EXCEPT ![d] = x] /\ UNCHANGED <<menus, sections>>
    BY <1>7 DEF M!DeleteMenuItem
  <2>2. dishes[d] \in DishRows
    BY DEF MenusInv, ShelfTyped
  <2>3. /\ x \in DishRows /\ x.section = dishes[d].section /\ x.kitchen = dishes[d].kitchen
        /\ x.base = dishes[d].base /\ x.discount = dishes[d].discount
    BY <2>2 DEF DishRows
  <2>4. /\ dishes' = [n \in 1 .. LastDish |-> dishes'[n]]
        /\ \A n \in 1 .. LastDish : n # d => dishes'[n] = dishes[n]
        /\ d \in 1 .. LastDish /\ dishes'[d] = x
    BY <1>2, <2>1 DEF MenusInv, ShelfTyped, M!Rows
  <2>5. /\ dishes[d].section \in M!Rows(sections)
        /\ M!KitchenOfSection(dishes[d].section) = dishes[d].kitchen
        /\ M!PricedRight(dishes[d].base, dishes[d].discount)
    BY DEF MenusInv, M!InPlace
  <2> QED BY <1>3, <2>1, <2>3, <2>4, <2>5, DishesWritten
<1> QED BY <1>4, <1>5, <1>6, <1>7 DEF M!Statement

LEMMA MenusKept == MenusInv /\ [M!Next]_(M!vars) => MenusInv' /\ [M!ServedStay]_(M!vars)
<1> SUFFICES ASSUME MenusInv, [M!Next]_(M!vars) PROVE MenusInv' /\ [M!ServedStay]_(M!vars)
  OBVIOUS
<1>1. ASSUME NEW p \in M!Patches
      PROVE  /\ p.section \in (1 .. LastSection) \cup {KEEP}
             /\ p.base \in Prices \cup {KEEP}
             /\ p.discount \in Offers \cup {NULL, KEEP}
  BY <1>1 DEF M!Patches
<1>2. ASSUME NEW h \in Handlers, NEW d \in M!Rows(dishes), NEW p \in M!Patches,
             M!UpdateMenuItem(h, d, p)
      PROVE  MenusInv' /\ M!ServedStay
  <2> PICK r : r = [kind |-> "update", dish |-> d, patch |-> p]
    OBVIOUS
  <2>1. M!Start(h, r) /\ M!MayJoin(d, p.section)
    BY <1>2 DEF M!UpdateMenuItem
  <2>2. p.section # KEEP =>
            /\ p.section \in M!Rows(sections) /\ sections[p.section] # UNUSED
            /\ M!KitchenOfSection(p.section) = dishes[d].kitchen
    BY <2>1 DEF M!MayJoin, M!Rows
  <2>3. d \in 1 .. LastDish /\ dishes[d] # UNUSED
    BY DEF MenusInv, ShelfTyped, M!Rows
  <2>4. MenuRequest(r) /\ NothingLost(r)
    BY <1>1, <2>2, <2>3 DEF MenuRequest, NothingLost
  <2> QED BY <2>1, <2>4, MenuReads
<1>3. ASSUME NEW h \in Handlers, NEW ds, NEW p \in M!Patches, M!BulkUpdateItems(h, ds, p)
      PROVE  MenusInv' /\ M!ServedStay
  <2> PICK r : r = [kind |-> "bulk", dishes |-> ds, patch |-> p]
    OBVIOUS
  <2>1. M!Start(h, r) /\ p.section = KEEP
    BY <1>3 DEF M!BulkUpdateItems
  <2>2. MenuRequest(r) /\ NothingLost(r)
    BY <1>1, <2>1 DEF MenuRequest, NothingLost
  <2> QED BY <2>1, <2>2, MenuReads
<1>4. ASSUME NEW h \in Handlers, NEW m, M!DeleteMenu(h, m)
      PROVE  MenusInv' /\ M!ServedStay
  <2> PICK r : r = [kind |-> "deleteMenu", menu |-> m]
    OBVIOUS
  <2>1. M!Start(h, r) /\ M!NothingServed(M!SectionsOf(m))
    BY <1>4 DEF M!DeleteMenu
  <2>2. MenuRequest(r) /\ NothingLost(r)
    BY <2>1 DEF MenuRequest, NothingLost
  <2> QED BY <2>1, <2>2, MenuReads
<1>5. ASSUME NEW h \in Handlers, NEW s, M!DeleteMenuCategory(h, s)
      PROVE  MenusInv' /\ M!ServedStay
  <2> PICK r : r = [kind |-> "deleteSection", section |-> s]
    OBVIOUS
  <2>1. M!Start(h, r) /\ M!NothingServed({s})
    BY <1>5 DEF M!DeleteMenuCategory
  <2>2. MenuRequest(r) /\ NothingLost(r)
    BY <2>1 DEF MenuRequest, NothingLost
  <2> QED BY <2>1, <2>2, MenuReads
<1>6. CASE (M!Restart /\ UNCHANGED M!shelf) \/ UNCHANGED M!vars
  <2>1. UNCHANGED <<menus, sections, dishes, overlapped>>
    BY <1>6 DEF M!Restart, M!vars, M!shelf
  <2>2. /\ M!Rows(menus)' = M!Rows(menus) /\ M!Rows(sections)' = M!Rows(sections)
        /\ M!Rows(dishes)' = M!Rows(dishes)
    BY <2>1 DEF M!Rows
  <2>3. ShelfTyped' /\ M!InPlace'
    BY <2>1, <2>2 DEF MenusInv, ShelfTyped, M!InPlace, M!KitchenOfSection
  <2>4. M!ServedStay
    BY <2>2, Zenon DEF M!ServedStay, M!Served
  <2>5. CASE UNCHANGED M!vars
    <3>1. req' = req
      BY <2>5 DEF M!vars
    <3>2. \A h \in Handlers : MenuRequest(req[h])'
      BY <2>1, <2>2, <3>1 DEF MenusInv, MenuRequest, M!KitchenOfSection
    <3>3. MenusSeen => MenusSeen'
      BY <2>1, <2>2, <3>1
         DEF MenusSeen, Alone, NothingLost, M!NothingServed, M!SectionsOf, M!Served, M!DishesOf
    <3> QED BY <2>1, <2>3, <2>4, <3>1, <3>2, <3>3 DEF MenusInv, RequestsKept
  <2>6. CASE M!Restart
    <3>1. RequestsKept' /\ Alone' /\ \A h \in Handlers : req'[h] = Idle
      BY <2>6, RestartsAlone DEF M!Restart, M!Idle, Restart, Idle
    <3>2. \A h \in Handlers : MenuRequest(req[h])' /\ NothingLost(req[h])'
      BY <3>1, IdleMenu DEF MenuRequest, NothingLost
    <3> QED BY <2>3, <2>4, <3>1, <3>2 DEF MenusInv, MenusSeen
  <2> QED BY <1>6, <2>5, <2>6
<1> QED BY <1>2, <1>3, <1>4, <1>5, <1>6, ShelfStatement, PatchWritten, ShelfCascades
        DEF M!Next, M!Request

\* However the requests of a kitchen overlap, a dish is in a section of a menu
\* of its own kitchen and its offer is no dearer than its price; alone, none
\* that is still served is deleted with the menu or the section it was in.
THEOREM MenusStand == Spec => MenuStands
<1> DEFINE Inv == part = "menus" => MenusInv
           Place == part = "menus" => M!InPlace
           Stay == part = "menus" => M!ServedStay
<1>1. Init => Inv
  BY MenusStart DEF Init
<1>2. Inv /\ [Next]_vars => Inv' /\ [Stay]_vars
  <2> SUFFICES ASSUME Inv, [Next]_vars PROVE Inv' /\ (Stay \/ UNCHANGED vars)
    OBVIOUS
  <2>1. UNCHANGED M!vars => M!ServedStay
    BY Zenon DEF M!vars, M!shelf, M!ServedStay, M!Served, M!Rows
  <2> QED BY <2>1, PartStays, MenusOnly, MenusKept
<1>3. Inv => Place
  BY DEF MenusInv
<1> QED BY <1>1, <1>2, <1>3, PTL DEF Spec, MenuStands

-----------------------------------------------------------------------------
(* Promotions: a correction writes in full what it checked, however        *)
(* requests overlap; and alone, what it checked it against is as it was.   *)

LEMMA OffersOnly == part = "offers" /\ [Next]_vars => [D!Next]_(D!vars)
BY DEF Next, vars, Only, RidersStep, SessionsStep, CodesStep, AddressesStep, BasketsStep,
       CampaignsStep, MenusStep, OptionsStep, ListingsStep, HoursStep, OffersStep, TicketsStep,
       NoticesStep, LiveStep, offers, D!vars, D!offers

CouponRows ==
    [code : Codes, type : D!Types, maxDiscountAmount : {1, NULL}, covered : BOOLEAN,
     usageLimit : Limits \cup {NULL}, perUserLimit : Limits \cup {NULL}, usageCount : Nat,
     isActive : BOOLEAN]

\* What a correction writes of one.
Terms ==
    [code : Codes, type : D!Types, maxDiscountAmount : {1, NULL}, covered : BOOLEAN,
     usageLimit : Limits \cup {NULL}, perUserLimit : Limits \cup {NULL}]

Sound(x) ==
    /\ x.type = "PERCENTAGE" => x.maxDiscountAmount # NULL
    /\ D!assertLimits(x)

\* The fields of what a request says.
IsSent(dto) ==
    dto \in [code : Codes, type : D!Types, maxDiscountAmount : {1, KEEP},
             covered : BOOLEAN \cup {KEEP}, usageLimit : Limits \cup {KEEP},
             perUserLimit : Limits \cup {KEEP}]

\* The row that a creation inserts.
Created(dto) ==
    [code |-> dto.code, type |-> dto.type,
     maxDiscountAmount |-> D!Or(dto.maxDiscountAmount, NULL),
     covered |-> D!Or(dto.covered, FALSE),
     usageLimit |-> D!Or(dto.usageLimit, NULL), perUserLimit |-> D!Or(dto.perUserLimit, NULL),
     usageCount |-> 0, isActive |-> TRUE]

OfferRequest(r) ==
    /\ r.kind = "create" => IsSent(r.dto) /\ Sound(Created(r.dto))
    /\ r.kind = "update" => r.with \in Terms /\ Sound(r.with)

OffersTyped ==
    /\ RequestsKept
    /\ coupons = [c \in 1 .. LastCoupon |-> coupons[c]]
    /\ banners = [b \in 1 .. LastBanner |-> banners[b]]
    /\ \A c \in D!Rows(coupons) : coupons[c] \in CouponRows /\ Sound(coupons[c])
    /\ \A h \in Handlers : OfferRequest(req[h])

\* A correction keeps what was promised, and dates a banner ends by.
Keeping(r) ==
    /\ r.kind = "update" =>
        /\ coupons[r.coupon].usageCount > 0 => r.with.code = coupons[r.coupon].code
        /\ r.with.usageLimit # NULL => r.with.usageLimit >= coupons[r.coupon].usageCount
    /\ r.kind = "delete" => ~ coupons[r.coupon].usageCount > 0
    /\ r.kind = "banner" =>
        D!assertWindow(D!Or(r.startsAt, banners[r.banner].startsAt),
                       D!Or(r.endsAt, banners[r.banner].endsAt))

Windows == \A b \in D!Rows(banners) : D!assertWindow(banners[b].startsAt, banners[b].endsAt)

OffersSeen == Alone /\ Windows /\ \A h \in Handlers : Keeping(req[h])

OffersInv == OffersTyped /\ (~ overlapped => OffersSeen)

LEMMA IdleOffer == OfferRequest(Idle)' /\ Keeping(Idle)'
BY DEF OfferRequest, Keeping, Idle

LEMMA OffersStart == D!Init => OffersInv
<1> SUFFICES ASSUME D!Init PROVE OffersInv
  OBVIOUS
<1>1. RequestsKept /\ Alone /\ \A h \in Handlers : req[h] = Idle
  BY DEF D!Init, D!NoRequests, D!Idle, Idle, RequestsKept, Alone
<1>2. D!Rows(coupons) = {} /\ D!Rows(banners) = {}
  BY DEF D!Rows, D!Init
<1>3. OfferRequest(Idle) /\ Keeping(Idle)
  BY DEF OfferRequest, Keeping, Idle
<1>4. OffersTyped /\ Windows
  BY <1>1, <1>2, <1>3 DEF D!Init, OffersTyped, Windows
<1> QED BY <1>1, <1>3, <1>4 DEF OffersInv, OffersSeen

\* A request begins that read what it carries.
LEMMA OfferReads ==
    ASSUME OffersInv, NEW h \in Handlers, NEW r, D!Start(h, r), OfferRequest(r), Keeping(r)
    PROVE  OffersInv' /\ D!PromiseKept
<1>1. Begin(h, r) /\ UNCHANGED <<coupons, banners>>
  BY DEF D!Start, D!Begin, D!Idle, D!offers, Begin, Idle
<1>2. RequestsKept' /\ \A g \in Handlers : req'[g] = IF g = h THEN r ELSE req[g]
  BY <1>1 DEF Begin, RequestsKept, OffersInv, OffersTyped
<1>3. D!Rows(coupons)' = D!Rows(coupons) /\ D!Rows(banners)' = D!Rows(banners)
  BY <1>1 DEF D!Rows
<1>4. \A g \in Handlers : OfferRequest(req[g])'
  BY <1>2 DEF OffersInv, OffersTyped, OfferRequest
<1>5. OffersTyped'
  BY <1>1, <1>2, <1>3, <1>4 DEF OffersInv, OffersTyped
<1>6. ASSUME ~ overlapped' PROVE OffersSeen'
  <2>1. OnlyMoves(h, r) /\ ~ overlapped
    BY <1>1, <1>6, BeginsAlone DEF OffersInv, OffersTyped
  <2>2. Keeping(r)' /\ \A g \in Handlers : req'[g] \in {r, Idle}
    BY <1>1, <2>1 DEF OnlyMoves, Keeping
  <2>3. \A g \in Handlers : Keeping(req[g])'
    BY <2>2, IdleOffer DEF Keeping
  <2>4. Windows'
    BY <1>1, <1>3, <2>1 DEF OffersInv, OffersSeen, Windows
  <2> QED BY <2>1, <2>3, <2>4 DEF OffersSeen, OnlyMoves
<1>7. D!PromiseKept
  BY <1>1, <1>3 DEF D!PromiseKept
<1> QED BY <1>5, <1>6, <1>7 DEF OffersInv

\* A request ends after it wrote the tables.
LEMMA OfferEnds ==
    ASSUME OffersInv, NEW h \in Handlers, D!Finish(h), req[h].kind # "idle",
           coupons' = [c \in 1 .. LastCoupon |-> coupons'[c]],
           banners' = [b \in 1 .. LastBanner |-> banners'[b]],
           \A c \in D!Rows(coupons)' : coupons'[c] \in CouponRows /\ Sound(coupons'[c]),
           ~ overlapped => Windows'
    PROVE  OffersInv'
<1>1. Continue(h, Idle)
  BY DEF D!Finish, D!Continue, D!Idle, Continue, Idle
<1>2. RequestsKept' /\ \A g \in Handlers : req'[g] = IF g = h THEN Idle ELSE req[g]
  BY <1>1 DEF Continue, RequestsKept, OffersInv, OffersTyped
<1>3. \A g \in Handlers : OfferRequest(req[g])'
  BY <1>2, IdleOffer DEF OffersInv, OffersTyped, OfferRequest
<1>4. ASSUME ~ overlapped' PROVE OffersSeen'
  <2>1. ~ overlapped
    BY <1>1, <1>4 DEF Continue
  <2>2. OnlyMoves(h, Idle)
    BY <1>1, <2>1, GoesOnAlone DEF OffersInv, OffersTyped, OffersSeen
  <2>3. \A g \in Handlers : req'[g] = Idle
    BY <2>2 DEF OnlyMoves
  <2>4. \A g \in Handlers : Keeping(req[g])'
    BY <2>3, IdleOffer DEF Keeping
  <2> QED BY <2>1, <2>2, <2>4 DEF OffersSeen, OnlyMoves
<1> QED BY <1>2, <1>3, <1>4 DEF OffersInv, OffersTyped

\* One coupon's row is written.
LEMMA CouponRowWritten ==
    ASSUME OffersTyped, NEW c \in 1 .. LastCoupon, NEW x \in CouponRows, Sound(x),
           coupons' = [coupons EXCEPT ![c] = x],
           c \in D!Rows(coupons) /\ ~ overlapped' /\ coupons[c].usageCount > 0 =>
            /\ x.code = coupons[c].code
            /\ x.usageLimit \in {coupons[c].usageLimit, NULL}
                \/ x.usageLimit >= coupons[c].usageCount
    PROVE  /\ coupons' = [d \in 1 .. LastCoupon |-> coupons'[d]]
           /\ \A d \in D!Rows(coupons)' : coupons'[d] \in CouponRows /\ Sound(coupons'[d])
           /\ D!PromiseKept
<1>1. /\ coupons' = [d \in 1 .. LastCoupon |-> coupons'[d]]
      /\ \A d \in 1 .. LastCoupon : coupons'[d] = IF d = c THEN x ELSE coupons[d]
      /\ DOMAIN coupons = 1 .. LastCoupon
  BY DEF OffersTyped
<1>2. x \notin {UNUSED, NULL}
  BY RowsAssumption DEF CouponRows, D!Types
<1>3. /\ \A d \in D!Rows(coupons)' : d \in 1 .. LastCoupon /\ (d = c \/ d \in D!Rows(coupons))
      /\ \A d \in D!Rows(coupons) : d \in 1 .. LastCoupon /\ d \in D!Rows(coupons)'
  BY <1>1, <1>2 DEF D!Rows
<1>4. \A d \in D!Rows(coupons)' : coupons'[d] \in CouponRows /\ Sound(coupons'[d])
  BY <1>1, <1>3 DEF OffersTyped
<1>5. D!PromiseKept
  <2> SUFFICES ASSUME ~ overlapped', NEW d \in D!Rows(coupons), coupons[d].usageCount > 0
               PROVE  /\ d \in D!Rows(coupons)'
                      /\ coupons'[d].code = coupons[d].code
                      /\ \/ coupons'[d].usageLimit \in {coupons[d].usageLimit, NULL}
                         \/ coupons'[d].usageLimit >= coupons[d].usageCount
    BY DEF D!PromiseKept
  <2> QED BY <1>1, <1>3
<1> QED BY <1>1, <1>4, <1>5

LEMMA CouponInserted ==
    ASSUME OffersInv, NEW h \in Handlers, D!InsertCoupon(h)
    PROVE  OffersInv' /\ D!PromiseKept
<1> PICK dto : dto = req[h].dto
  OBVIOUS
<1> PICK x : x = Created(dto)
  OBVIOUS
<1>1. /\ req[h].kind = "create" /\ D!Finish(h) /\ UNCHANGED banners
      /\ \/ UNCHANGED coupons
         \/ \E c \in D!Fresh(coupons) : coupons' = [coupons EXCEPT ![c] = x]
  BY DEF D!InsertCoupon, Created
<1>2. IsSent(dto) /\ Sound(x)
  BY <1>1 DEF OffersInv, OffersTyped, OfferRequest
<1>3. x \in CouponRows
  <2>1. /\ D!Or(dto.maxDiscountAmount, NULL) \in {1, NULL} /\ D!Or(dto.covered, FALSE) \in BOOLEAN
        /\ D!Or(dto.usageLimit, NULL) \in Limits \cup {NULL}
        /\ D!Or(dto.perUserLimit, NULL) \in Limits \cup {NULL}
        /\ dto.code \in Codes /\ dto.type \in D!Types
    BY <1>2 DEF IsSent, D!Or
  <2> QED BY <2>1 DEF Created, CouponRows
<1>4. OffersTyped /\ Windows' = Windows /\ banners' = [b \in 1 .. LastBanner |-> banners'[b]]
  BY <1>1 DEF OffersInv, OffersTyped, Windows, D!Rows
<1>5. req[h].kind # "idle"
  BY <1>1
<1>6. CASE UNCHANGED coupons
  <2>1. D!Rows(coupons)' = D!Rows(coupons)
    BY <1>6 DEF D!Rows
  <2>2. D!PromiseKept
    BY <1>6, <2>1 DEF D!PromiseKept
  <2> QED BY <1>1, <1>4, <1>5, <1>6, <2>1, <2>2, OfferEnds DEF OffersInv, OffersSeen, OffersTyped
<1>7. ASSUME NEW c \in D!Fresh(coupons), coupons' = [coupons EXCEPT ![c] = x]
      PROVE  OffersInv' /\ D!PromiseKept
  <2>1. c \in 1 .. LastCoupon /\ c \notin D!Rows(coupons)
    BY <1>4 DEF OffersTyped, D!Fresh, D!Rows
  <2>2. /\ coupons' = [d \in 1 .. LastCoupon |-> coupons'[d]]
        /\ \A d \in D!Rows(coupons)' : coupons'[d] \in CouponRows /\ Sound(coupons'[d])
        /\ D!PromiseKept
    BY <1>2, <1>3, <1>4, <1>7, <2>1, CouponRowWritten
  <2> QED BY <1>1, <1>4, <1>5, <2>2, OfferEnds DEF OffersInv, OffersSeen
<1> QED BY <1>1, <1>6, <1>7

LEMMA CouponWritten ==
    ASSUME OffersInv, NEW h \in Handlers, D!WriteCoupon(h)
    PROVE  OffersInv' /\ D!PromiseKept
<1> PICK c : c = req[h].coupon
  OBVIOUS
<1> PICK with : with = req[h].with
  OBVIOUS
<1> PICK x : x = [f \in DOMAIN coupons[c] |->
                    IF f \in DOMAIN with THEN D!Or(with[f], coupons[c][f]) ELSE coupons[c][f]]
  OBVIOUS
<1>1. /\ req[h].kind = "update" /\ D!Finish(h) /\ UNCHANGED banners
      /\ \/ UNCHANGED coupons
         \/ c \in D!Rows(coupons) /\ coupons' = [coupons EXCEPT ![c] = x]
      /\ overlapped' = overlapped
  BY DEF D!WriteCoupon, D!Finish, D!Continue
<1>2. with \in Terms /\ Sound(with)
  BY <1>1 DEF OffersInv, OffersTyped, OfferRequest
<1>3. OffersTyped /\ Windows' = Windows /\ banners' = [b \in 1 .. LastBanner |-> banners'[b]]
  BY <1>1 DEF OffersInv, OffersTyped, Windows, D!Rows
<1>4. req[h].kind # "idle"
  BY <1>1
<1>5. CASE UNCHANGED coupons
  <2>1. D!Rows(coupons)' = D!Rows(coupons)
    BY <1>5 DEF D!Rows
  <2>2. D!PromiseKept
    BY <1>5, <2>1 DEF D!PromiseKept
  <2> QED BY <1>1, <1>3, <1>4, <1>5, <2>1, <2>2, OfferEnds DEF OffersInv, OffersSeen, OffersTyped
<1>6. CASE c \in D!Rows(coupons) /\ coupons' = [coupons EXCEPT ![c] = x]
  <2> PICK row : row = coupons[c]
    OBVIOUS
  <2>1. row \in CouponRows /\ c \in 1 .. LastCoupon
    BY <1>3, <1>6 DEF OffersTyped, D!Rows
  <2>2. /\ DOMAIN row = {"code", "type", "maxDiscountAmount", "covered", "usageLimit",
                         "perUserLimit", "usageCount", "isActive"}
        /\ DOMAIN with = {"code", "type", "maxDiscountAmount", "covered", "usageLimit",
                          "perUserLimit"}
    BY <1>2, <2>1 DEF CouponRows, Terms
  <2>3. /\ with.type # KEEP /\ with.maxDiscountAmount # KEEP /\ with.covered # KEEP
        /\ with.usageLimit # KEEP /\ with.perUserLimit # KEEP
    <3>1. NULL # KEEP
      BY PlatformAssumption
    <3> QED BY <1>2, <3>1, RowsAssumption DEF Terms, D!Types
  <2>4. x = [f \in DOMAIN row |->
                IF f \in DOMAIN with THEN D!Or(with[f], row[f]) ELSE row[f]]
    OBVIOUS
  <2>5. /\ x.code \in {with.code, row.code} /\ x.type = with.type
        /\ x.maxDiscountAmount = with.maxDiscountAmount /\ x.covered = with.covered
        /\ x.usageLimit = with.usageLimit /\ x.perUserLimit = with.perUserLimit
        /\ x.usageCount = row.usageCount /\ x.isActive = row.isActive
    BY <2>2, <2>3, <2>4 DEF D!Or
  <2>6. x \in CouponRows
    <3>1. x = [code |-> x.code, type |-> x.type, maxDiscountAmount |-> x.maxDiscountAmount,
               covered |-> x.covered, usageLimit |-> x.usageLimit,
               perUserLimit |-> x.perUserLimit, usageCount |-> x.usageCount,
               isActive |-> x.isActive]
      BY <2>2, <2>4
    <3>2. /\ x.code \in Codes /\ x.type \in D!Types /\ x.maxDiscountAmount \in {1, NULL}
          /\ x.covered \in BOOLEAN /\ x.usageLimit \in Limits \cup {NULL}
          /\ x.perUserLimit \in Limits \cup {NULL} /\ x.usageCount \in Nat
          /\ x.isActive \in BOOLEAN
      BY <1>2, <2>1, <2>5 DEF CouponRows, Terms
    <3> QED BY <3>1, <3>2 DEF CouponRows
  <2>7. Sound(x)
    BY <1>2, <2>5 DEF Sound, D!assertLimits
  <2>8. ~ overlapped' /\ coupons[c].usageCount > 0 =>
            /\ x.code = coupons[c].code
            /\ x.usageLimit \in {coupons[c].usageLimit, NULL}
                \/ x.usageLimit >= coupons[c].usageCount
    <3> SUFFICES ASSUME ~ overlapped', row.usageCount > 0
                 PROVE  x.code = row.code /\ (x.usageLimit = NULL \/ x.usageLimit >= row.usageCount)
      OBVIOUS
    <3>1. Keeping(req[h])
      BY <1>1 DEF OffersInv, OffersSeen
    <3>2. /\ with.code = row.code
          /\ with.usageLimit # NULL => with.usageLimit >= row.usageCount
      BY <1>1, <3>1 DEF Keeping
    <3> QED BY <2>5, <3>2
  <2>9. /\ coupons' = [d \in 1 .. LastCoupon |-> coupons'[d]]
        /\ \A d \in D!Rows(coupons)' : coupons'[d] \in CouponRows /\ Sound(coupons'[d])
        /\ D!PromiseKept
    BY <1>3, <1>6, <2>1, <2>6, <2>7, <2>8, CouponRowWritten
  <2> QED BY <1>1, <1>3, <1>4, <2>9, OfferEnds DEF OffersInv, OffersSeen
<1> QED BY <1>1, <1>5, <1>6

LEMMA CouponRemoved ==
    ASSUME OffersInv, NEW h \in Handlers, D!RemoveCoupon(h)
    PROVE  OffersInv' /\ D!PromiseKept
<1> PICK c : c = req[h].coupon
  OBVIOUS
<1>1. /\ req[h].kind = "delete" /\ D!Finish(h) /\ UNCHANGED banners
      /\ coupons' = [coupons EXCEPT ![c] = NULL] /\ overlapped' = overlapped
  BY DEF D!RemoveCoupon, D!Finish, D!Continue
<1>2. OffersTyped /\ Windows' = Windows /\ banners' = [b \in 1 .. LastBanner |-> banners'[b]]
  BY <1>1 DEF OffersInv, OffersTyped, Windows, D!Rows
<1>3. /\ coupons' = [d \in 1 .. LastCoupon |-> coupons'[d]] /\ DOMAIN coupons = 1 .. LastCoupon
      /\ \A d \in 1 .. LastCoupon : coupons'[d] = IF d = c THEN NULL ELSE coupons[d]
  BY <1>1, <1>2 DEF OffersTyped
<1>4. D!Rows(coupons)' = D!Rows(coupons) \ {c} /\ D!Rows(coupons) \subseteq 1 .. LastCoupon
  BY <1>3 DEF D!Rows
<1>5. \A d \in D!Rows(coupons)' : coupons'[d] = coupons[d]
  BY <1>3, <1>4
<1>6. \A d \in D!Rows(coupons)' : coupons'[d] \in CouponRows /\ Sound(coupons'[d])
  BY <1>2, <1>4, <1>5 DEF OffersTyped
<1>7. D!PromiseKept
  <2> SUFFICES ASSUME ~ overlapped PROVE D!PromiseKept
    BY <1>1 DEF D!PromiseKept
  <2>1. ~ coupons[c].usageCount > 0
    BY <1>1 DEF OffersInv, OffersSeen, Keeping
  <2>2. \A d \in D!Rows(coupons) : coupons[d].usageCount > 0 =>
            d \in D!Rows(coupons)' /\ coupons'[d] = coupons[d]
    BY <1>4, <1>5, <2>1
  <2> QED BY <2>2 DEF D!PromiseKept
<1>8. req[h].kind # "idle"
  BY <1>1
<1> QED BY <1>1, <1>2, <1>3, <1>6, <1>7, <1>8, OfferEnds DEF OffersInv, OffersSeen

LEMMA BannerWritten ==
    ASSUME OffersInv, NEW h \in Handlers, D!WriteBanner(h)
    PROVE  OffersInv' /\ D!PromiseKept
<1> PICK r : r = req[h]
  OBVIOUS
<1> PICK b : b = r.banner
  OBVIOUS
<1> PICK x : x = [startsAt |-> D!Or(r.startsAt, banners[b].startsAt),
                  endsAt |-> D!Or(r.endsAt, banners[b].endsAt)]
  OBVIOUS
<1>1. /\ r.kind = "banner" /\ D!Finish(h) /\ UNCHANGED coupons /\ overlapped' = overlapped
      /\ banners' = IF b \notin D!Rows(banners) THEN banners ELSE [banners EXCEPT ![b] = x]
  BY DEF D!WriteBanner, D!Finish, D!Continue
<1>2. OffersTyped /\ D!Rows(coupons)' = D!Rows(coupons)
  BY <1>1 DEF OffersInv, D!Rows
<1>3. /\ banners' = [a \in 1 .. LastBanner |-> banners'[a]] /\ DOMAIN banners = 1 .. LastBanner
      /\ \A a \in 1 .. LastBanner :
            banners'[a] = IF a = b /\ b \in D!Rows(banners) THEN x ELSE banners[a]
  BY <1>1, <1>2 DEF OffersTyped
<1>4. ASSUME ~ overlapped PROVE Windows'
  <2>1. D!assertWindow(x.startsAt, x.endsAt) /\ Windows
    BY <1>1, <1>4 DEF OffersInv, OffersSeen, Keeping
  <2>2. ASSUME NEW a \in D!Rows(banners)'
        PROVE  D!assertWindow(banners'[a].startsAt, banners'[a].endsAt)
    <3>1. a \in 1 .. LastBanner /\ (a = b \/ a \in D!Rows(banners))
      BY <1>3 DEF D!Rows
    <3>2. CASE banners'[a] = x
      BY <2>1, <3>2
    <3>3. CASE banners'[a] = banners[a]
      <4>1. a \in D!Rows(banners)
        BY <1>3, <3>1, <3>3 DEF D!Rows
      <4> QED BY <2>1, <3>3, <4>1 DEF Windows
    <3> QED BY <1>3, <3>1, <3>2, <3>3
  <2> QED BY <2>2 DEF Windows
<1>5. D!PromiseKept
  BY <1>1, <1>2 DEF D!PromiseKept
<1>6. req[h].kind # "idle"
  BY <1>1
<1> QED BY <1>1, <1>2, <1>3, <1>4, <1>5, <1>6, OfferEnds DEF OffersTyped

LEMMA OfferStatement ==
    ASSUME OffersInv, D!Statement
    PROVE  OffersInv' /\ D!PromiseKept
<1>1. OffersTyped /\ DOMAIN coupons = 1 .. LastCoupon /\ DOMAIN banners = 1 .. LastBanner
  BY DEF OffersInv, OffersTyped
<1>2. /\ req' = req
      /\ ~ overlapped' => ~ overlapped /\ \A h \in Handlers : req[h] = Idle
  <2>1. req' = req /\ overlapped' = (overlapped \/ \E h \in Handlers : req[h] # D!Idle)
    BY DEF D!Statement
  <2> QED BY <2>1, Zenon DEF D!Idle, Idle
<1>3. ASSUME coupons' = [c \in 1 .. LastCoupon |-> coupons'[c]],
             banners' = [b \in 1 .. LastBanner |-> banners'[b]],
             \A c \in D!Rows(coupons)' : coupons'[c] \in CouponRows /\ Sound(coupons'[c]),
             Windows => Windows', D!PromiseKept
      PROVE  OffersInv' /\ D!PromiseKept
  <2>1. OffersTyped'
    BY <1>1, <1>2, <1>3 DEF OffersTyped, RequestsKept, OfferRequest
  <2>2. ASSUME ~ overlapped' PROVE OffersSeen'
    <3>1. \A h \in Handlers : req'[h] = Idle
      BY <1>2, <2>2
    <3>2. \A h \in Handlers : Keeping(req[h])'
      BY <3>1, IdleOffer DEF Keeping
    <3>3. Windows'
      BY <1>2, <1>3, <2>2 DEF OffersInv, OffersSeen
    <3> QED BY <3>1, <3>2, <3>3 DEF OffersSeen, Alone
  <2> QED BY <1>3, <2>1, <2>2 DEF OffersInv
<1>4. ASSUME NEW c \in D!Rows(coupons), NEW x \in CouponRows, UNCHANGED banners,
             coupons' = [coupons EXCEPT ![c] = x], Sound(x),
             x.code = coupons[c].code /\ x.usageLimit = coupons[c].usageLimit
      PROVE  OffersInv' /\ D!PromiseKept
  <2>1. c \in 1 .. LastCoupon /\ Windows' = Windows
    BY <1>1, <1>4 DEF D!Rows, Windows
  <2>2. /\ coupons' = [d \in 1 .. LastCoupon |-> coupons'[d]]
        /\ \A d \in D!Rows(coupons)' : coupons'[d] \in CouponRows /\ Sound(coupons'[d])
        /\ D!PromiseKept
    BY <1>1, <1>4, <2>1, CouponRowWritten
  <2>3. banners' = [b \in 1 .. LastBanner |-> banners'[b]]
    BY <1>1, <1>4 DEF OffersTyped
  <2> QED BY <1>3, <2>1, <2>2, <2>3
<1>5. ASSUME NEW c \in D!Rows(coupons), UNCHANGED banners,
             D!Redeem(c) \/ \E isActive \in BOOLEAN : D!SetCouponActive(c, isActive)
      PROVE  OffersInv' /\ D!PromiseKept
  <2> PICK row : row = coupons[c]
    OBVIOUS
  <2>1. row \in CouponRows /\ Sound(row)
    BY <1>1 DEF OffersTyped
  <2>2. CASE D!Redeem(c)
    <3> PICK x : x = [row EXCEPT !.usageCount = @ + 1]
      OBVIOUS
    <3>1. coupons' = [coupons EXCEPT ![c] = x]
      BY <2>2 DEF D!Redeem
    <3>2. /\ x \in CouponRows /\ x.type = row.type /\ x.code = row.code
          /\ x.maxDiscountAmount = row.maxDiscountAmount
          /\ x.usageLimit = row.usageLimit /\ x.perUserLimit = row.perUserLimit
      BY <2>1 DEF CouponRows
    <3>3. Sound(x)
      BY <2>1, <3>2 DEF Sound, D!assertLimits
    <3> QED BY <1>4, <1>5, <3>1, <3>2, <3>3
  <2>3. ASSUME NEW isActive \in BOOLEAN, D!SetCouponActive(c, isActive)
        PROVE  OffersInv' /\ D!PromiseKept
    <3> PICK x : x = [row EXCEPT !.isActive = isActive]
      OBVIOUS
    <3>1. coupons' = [coupons EXCEPT ![c] = x]
      BY <2>3 DEF D!SetCouponActive
    <3>2. /\ x \in CouponRows /\ x.type = row.type /\ x.code = row.code
          /\ x.maxDiscountAmount = row.maxDiscountAmount
          /\ x.usageLimit = row.usageLimit /\ x.perUserLimit = row.perUserLimit
      BY <2>1 DEF CouponRows
    <3>3. Sound(x)
      BY <2>1, <3>2 DEF Sound, D!assertLimits
    <3> QED BY <1>4, <1>5, <3>1, <3>2, <3>3
  <2> QED BY <1>5, <2>2, <2>3
<1>6. ASSUME UNCHANGED coupons, banners' = [b \in 1 .. LastBanner |-> banners'[b]],
             Windows => Windows'
      PROVE  OffersInv' /\ D!PromiseKept
  <2>1. D!Rows(coupons)' = D!Rows(coupons)
    BY <1>6 DEF D!Rows
  <2>2. D!PromiseKept
    BY <1>6, <2>1 DEF D!PromiseKept
  <2> QED BY <1>1, <1>3, <1>6, <2>1, <2>2 DEF OffersTyped
<1>7. ASSUME UNCHANGED coupons, NEW startsAt, NEW endsAt, D!CreateBanner(startsAt, endsAt)
      PROVE  OffersInv' /\ D!PromiseKept
  <2> PICK x : x = [startsAt |-> startsAt, endsAt |-> endsAt]
    OBVIOUS
  <2>1. PICK b \in D!Fresh(banners) : banners' = [banners EXCEPT ![b] = x]
    BY <1>7 DEF D!CreateBanner
  <2>2. D!assertWindow(x.startsAt, x.endsAt)
    BY <1>7 DEF D!CreateBanner
  <2>3. /\ banners' = [a \in 1 .. LastBanner |-> banners'[a]]
        /\ \A a \in D!Rows(banners)' :
                banners'[a] = x \/ (a \in D!Rows(banners) /\ banners'[a] = banners[a])
    BY <1>1, <2>1 DEF OffersTyped, D!Rows, D!Fresh
  <2>4. Windows => Windows'
    BY <2>2, <2>3 DEF Windows
  <2> QED BY <1>6, <1>7, <2>3, <2>4
<1>8. ASSUME UNCHANGED coupons, NEW b \in D!Rows(banners), D!DeleteBanner(b)
      PROVE  OffersInv' /\ D!PromiseKept
  <2>1. /\ banners' = [a \in 1 .. LastBanner |-> banners'[a]]
        /\ \A a \in D!Rows(banners)' : a \in D!Rows(banners) /\ banners'[a] = banners[a]
    BY <1>1, <1>8 DEF OffersTyped, D!Rows, D!DeleteBanner
  <2>2. Windows => Windows'
    BY <2>1 DEF Windows
  <2> QED BY <1>6, <1>8, <2>1, <2>2
<1> QED BY <1>5, <1>7, <1>8 DEF D!Statement

LEMMA OffersKept == OffersInv /\ [D!Next]_(D!vars) => OffersInv' /\ [D!PromiseKept]_(D!vars)
<1> SUFFICES ASSUME OffersInv, [D!Next]_(D!vars) PROVE OffersInv' /\ [D!PromiseKept]_(D!vars)
  OBVIOUS
<1>1. ASSUME NEW h \in Handlers, NEW dto \in D!Sent, D!CreateCoupon(h, dto)
      PROVE  OffersInv' /\ D!PromiseKept
  <2> PICK r : r = [kind |-> "create", dto |-> dto]
    OBVIOUS
  <2> PICK max : max = D!Or(dto.maxDiscountAmount, NULL)
    OBVIOUS
  <2> PICK limit : limit = D!Or(dto.usageLimit, NULL)
    OBVIOUS
  <2> PICK per : per = D!Or(dto.perUserLimit, NULL)
    OBVIOUS
  <2>1. /\ D!Start(h, r)
        /\ D!assertValid([dto EXCEPT !.maxDiscountAmount = max, !.usageLimit = limit,
                                     !.perUserLimit = per])
    BY <1>1 DEF D!CreateCoupon
  <2>2. IsSent(dto)
    BY DEF D!Sent, IsSent, D!Types
  <2> PICK y : y = [dto EXCEPT !.maxDiscountAmount = max, !.usageLimit = limit,
                               !.perUserLimit = per]
    OBVIOUS
  <2>3. /\ y.type = dto.type /\ y.maxDiscountAmount = max
        /\ y.usageLimit = limit /\ y.perUserLimit = per
    BY <2>2 DEF IsSent
  <2>4. D!assertValid(y)
    BY <2>1
  <2>5. Sound(Created(dto))
    <3> PICK x : x = Created(dto)
      OBVIOUS
    <3>1. /\ x.type = dto.type /\ x.maxDiscountAmount = max
          /\ x.usageLimit = limit /\ x.perUserLimit = per
      BY DEF Created
    <3> QED BY <2>3, <2>4, <3>1 DEF Sound, D!assertValid, D!assertValue, D!assertLimits
  <2>6. OfferRequest(r) /\ Keeping(r)
    BY <2>2, <2>5 DEF OfferRequest, Keeping
  <2> QED BY <2>1, <2>6, OfferReads
<1>2. ASSUME NEW h \in Handlers, NEW dto \in D!Sent, NEW c \in D!Rows(coupons),
             D!UpdateCoupon(h, c, dto)
      PROVE  OffersInv' /\ D!PromiseKept
  <2> PICK row : row = coupons[c]
    OBVIOUS
  <2> PICK merged : merged = D!Merged(row, dto)
    OBVIOUS
  <2> PICK r : r = [kind |-> "update", coupon |-> c, with |-> merged]
    OBVIOUS
  <2>1. /\ D!Start(h, r) /\ D!assertValid(merged)
        /\ dto.code # row.code => row.usageCount = 0
        /\ merged.usageLimit # NULL => merged.usageLimit >= row.usageCount
    BY <1>2 DEF D!UpdateCoupon, D!Written
  <2>2. IsSent(dto) /\ row \in CouponRows
    BY DEF D!Sent, IsSent, D!Types, OffersInv, OffersTyped
  <2>3. merged \in Terms /\ merged.code = dto.code
    <3>1. /\ D!Or(dto.maxDiscountAmount, row.maxDiscountAmount) \in {1, NULL}
          /\ D!Or(dto.covered, row.covered) \in BOOLEAN
          /\ D!Or(dto.usageLimit, row.usageLimit) \in Limits \cup {NULL}
          /\ D!Or(dto.perUserLimit, row.perUserLimit) \in Limits \cup {NULL}
          /\ dto.code \in Codes /\ dto.type \in D!Types
      BY <2>2 DEF IsSent, CouponRows, D!Or
    <3> QED BY <3>1 DEF D!Merged, Terms
  <2>4. Sound(merged)
    BY <2>1 DEF D!assertValid, D!assertValue, Sound
  <2>5. OfferRequest(r)
    BY <2>3, <2>4 DEF OfferRequest
  <2>6. Keeping(r)
    <3>1. row.usageCount > 0 => merged.code = row.code
      BY <2>1, <2>3
    <3> QED BY <2>1, <3>1 DEF Keeping
  <2> QED BY <2>1, <2>5, <2>6, OfferReads
<1>3. ASSUME NEW h \in Handlers, NEW c \in D!Rows(coupons), D!DeleteCoupon(h, c)
      PROVE  OffersInv' /\ D!PromiseKept
  <2> PICK r : r = [kind |-> "delete", coupon |-> c]
    OBVIOUS
  <2>1. D!Start(h, r) /\ ~ coupons[c].usageCount > 0
    BY <1>3 DEF D!DeleteCoupon
  <2>2. OfferRequest(r) /\ Keeping(r)
    BY <2>1 DEF OfferRequest, Keeping
  <2> QED BY <2>1, <2>2, OfferReads
<1>4. ASSUME NEW h \in Handlers, NEW b, NEW startsAt, NEW endsAt,
             D!UpdateBanner(h, b, startsAt, endsAt)
      PROVE  OffersInv' /\ D!PromiseKept
  <2> PICK r : r = [kind |-> "banner", banner |-> b, startsAt |-> startsAt, endsAt |-> endsAt]
    OBVIOUS
  <2>1. /\ D!Start(h, r)
        /\ D!assertWindow(D!Or(startsAt, banners[b].startsAt), D!Or(endsAt, banners[b].endsAt))
    BY <1>4 DEF D!UpdateBanner
  <2>2. OfferRequest(r) /\ Keeping(r)
    BY <2>1 DEF OfferRequest, Keeping
  <2> QED BY <2>1, <2>2, OfferReads
<1>5. CASE (D!Restart /\ UNCHANGED D!offers) \/ UNCHANGED D!vars
  <2>1. UNCHANGED <<coupons, banners, overlapped>>
    BY <1>5 DEF D!Restart, D!vars, D!offers
  <2>2. D!Rows(coupons)' = D!Rows(coupons) /\ D!Rows(banners)' = D!Rows(banners)
    BY <2>1 DEF D!Rows
  <2>3. D!PromiseKept /\ (Windows => Windows')
    BY <2>1, <2>2 DEF D!PromiseKept, Windows
  <2>4. CASE UNCHANGED D!vars
    BY <2>1, <2>2, <2>3, <2>4
       DEF D!vars, OffersInv, OffersTyped, OffersSeen, RequestsKept, Alone, OfferRequest, Keeping
  <2>5. CASE D!Restart
    <3>1. RequestsKept' /\ Alone' /\ \A h \in Handlers : req'[h] = Idle
      BY <2>5, RestartsAlone DEF D!Restart, D!Idle, Restart, Idle
    <3>2. \A h \in Handlers : OfferRequest(req[h])' /\ Keeping(req[h])'
      BY <3>1, IdleOffer DEF OfferRequest, Keeping
    <3> QED BY <2>1, <2>2, <2>3, <3>1, <3>2 DEF OffersInv, OffersTyped, OffersSeen
  <2> QED BY <1>5, <2>4, <2>5
<1>6. ASSUME NEW h \in Handlers, D!Request(h) PROVE OffersInv' /\ D!PromiseKept
  BY <1>1, <1>2, <1>3, <1>4, <1>6 DEF D!Request
<1> QED BY <1>5, <1>6, OfferStatement, CouponInserted, CouponWritten, CouponRemoved, BannerWritten
        DEF D!Next

\* However corrections overlap, a percentage has its ceiling and no customer is
\* promised more than everybody together; alone, a coupon that was redeemed is
\* neither deleted nor renamed, its limit does not fall below its use, and a
\* banner ends after it starts.
THEOREM OffersStayHeld == Spec => OffersHold
<1> DEFINE Inv == part = "offers" => OffersInv
           Whole == part = "offers" => D!Coherent
           Kept == part = "offers" => D!PromiseKept
<1>1. Init => Inv
  BY OffersStart DEF Init
<1>2. Inv /\ [Next]_vars => Inv' /\ [Kept]_vars
  <2> SUFFICES ASSUME Inv, [Next]_vars PROVE Inv' /\ (Kept \/ UNCHANGED vars)
    OBVIOUS
  <2>1. UNCHANGED D!vars => D!PromiseKept
    BY DEF D!vars, D!offers, D!PromiseKept, D!Rows
  <2> QED BY <2>1, PartStays, OffersOnly, OffersKept
<1>3. Inv => Whole
  BY DEF OffersInv, OffersTyped, OffersSeen, Windows, Sound, D!Coherent
<1> QED BY <1>1, <1>2, <1>3, PTL DEF Spec, OffersHold

-----------------------------------------------------------------------------
(* OpeningHours: the clock is a day and a time of it, the days are as far   *)
(* apart as they are long, and every shift starts on its own day.          *)

LEMMA HoursOnly == part = "hours" /\ [Next]_vars => [H!Next]_(H!vars)
BY DEF Next, vars, Only, RidersStep, SessionsStep, CodesStep, AddressesStep, BasketsStep,
       CampaignsStep, MenusStep, OptionsStep, ListingsStep, HoursStep, OffersStep, TicketsStep,
       NoticesStep, LiveStep, face, H!vars

HoursInv ==
    /\ week \in [H!Week -> H!Shifts \cup {NULL}]
    /\ clock \in 0 .. DAYS * HOURS - 1

\* The midnight that day d of the week starts at.
Midnight(d) == d * HOURS

LEMMA Midnights ==
    /\ DAYS \in Nat \ {0} /\ HOURS \in Nat \ {0}
    /\ Midnight(0) = 0 /\ Midnight(DAYS) = DAYS * HOURS
    /\ \A d \in Int : Midnight(d) \in Int
    /\ \A d, e \in Int : /\ Midnight(d + e) = Midnight(d) + Midnight(e)
                         /\ Midnight(d - e) = Midnight(d) - Midnight(e)
                         /\ d < e => Midnight(d) + HOURS <= Midnight(e)
<1>1. DAYS \in Nat \ {0} /\ HOURS \in Nat \ {0}
  BY PlatformAssumption
<1>2. \A d \in Int : Midnight(d) \in Int
  BY <1>1 DEF Midnight
<1>3. \A d, e \in Int : /\ Midnight(d + e) = Midnight(d) + Midnight(e)
                        /\ Midnight(d - e) = Midnight(d) - Midnight(e)
  BY <1>1 DEF Midnight
<1>4. ASSUME NEW d \in Int, NEW e \in Int, d < e PROVE Midnight(d) + HOURS <= Midnight(e)
  <2> PICK n \in Nat : n = e - d - 1
    BY <1>4
  <2>1. n * HOURS >= 0 /\ n * HOURS \in Int
    BY <1>1
  <2>2. e * HOURS = d * HOURS + HOURS + n * HOURS
    BY <1>1
  <2> QED BY <1>1, <2>1, <2>2 DEF Midnight
<1>5. Midnight(0) = 0 /\ Midnight(DAYS) = DAYS * HOURS
  BY <1>1 DEF Midnight
<1> QED BY <1>1, <1>2, <1>3, <1>4, <1>5

\* Within a week and the next, a time is where it is in its week.
LEMMA TimesOfTheWeek ==
    ASSUME NEW x \in 0 .. Midnight(DAYS) - 1
    PROVE  x % Midnight(DAYS) = x /\ (x + Midnight(DAYS)) % Midnight(DAYS) = x
<1>1. Midnight(DAYS) \in Int /\ Midnight(DAYS) > 0
  BY Midnights
<1> PICK n \in Int : n = Midnight(DAYS)
  BY <1>1
<1>2. n > 0 /\ x \in 0 .. n - 1
  BY <1>1
<1>3. x % n = x
  BY <1>2
<1>4. (x + n) % n = x
  BY <1>2
<1> QED BY <1>3, <1>4

LEMMA ShiftTimes ==
    ASSUME HoursInv, NEW d \in H!Week, week[d] # NULL
    PROVE  /\ week[d].opensAt \in 0 .. HOURS - 1 /\ week[d].closesAt \in 0 .. HOURS - 1
           /\ week[d].opensAt # week[d].closesAt
<1>1. week[d] \in H!Shifts
  BY DEF HoursInv
<1>2. /\ week[d] \in {[opensAt |-> o, closesAt |-> c] : o \in H!Hours, c \in H!Hours}
      /\ week[d] \notin {[opensAt |-> o, closesAt |-> o] : o \in H!Hours}
  BY <1>1 DEF H!Shifts
<1>3. PICK o \in H!Hours, c \in H!Hours : week[d] = [opensAt |-> o, closesAt |-> c]
  BY <1>2
<1>4. o # c
  BY <1>2, <1>3
<1> QED BY <1>3, <1>4 DEF H!Hours

LEMMA Divided ==
    ASSUME NEW t \in Int, NEW n \in Nat \ {0}
    PROVE  /\ t \div n \in Int /\ t % n \in 0 .. n - 1
           /\ t = n * (t \div n) + (t % n)
OBVIOUS

\* The clock: this day, and the time of it.
LEMMA TheTime ==
    ASSUME HoursInv
    PROVE  LET now == H!localNow(clock)
           IN  /\ now.day \in H!Week /\ now.minutes \in 0 .. HOURS - 1
               /\ clock = Midnight(now.day) + now.minutes
               /\ clock % HOURS = now.minutes /\ clock % Midnight(DAYS) = clock
<1>1. /\ HOURS \in Nat \ {0} /\ DAYS \in Nat \ {0}
      /\ Midnight(DAYS) \in Int /\ Midnight(DAYS) = DAYS * HOURS /\ Midnight(0) = 0
  BY Midnights
<1>2. clock \in 0 .. Midnight(DAYS) - 1
  BY <1>1 DEF HoursInv
<1> PICK q : q = clock \div HOURS
  OBVIOUS
<1> PICK m : m = clock % HOURS
  OBVIOUS
<1>3. q \in Int /\ m \in 0 .. HOURS - 1 /\ clock = HOURS * q + m
  <2>1. clock \in Int
    BY <1>1, <1>2
  <2>2. /\ clock \div HOURS \in Int /\ clock % HOURS \in 0 .. HOURS - 1
        /\ clock = HOURS * (clock \div HOURS) + (clock % HOURS)
    BY <1>1, <2>1, Divided, Zenon
  <2> QED BY <2>2
<1>4. clock = Midnight(q) + m /\ Midnight(q) \in Int
  BY <1>1, <1>3 DEF Midnight
<1>5. \A d, e \in Int : d < e => Midnight(d) + HOURS <= Midnight(e)
  BY Midnights
<1>6. q < DAYS
  <2> SUFFICES ASSUME q >= DAYS PROVE FALSE
    BY <1>1, <1>3
  <2>1. CASE q = DAYS
    BY <1>1, <1>2, <1>3, <1>4, <2>1
  <2>2. CASE DAYS < q
    <3>1. Midnight(DAYS) + HOURS <= Midnight(q)
      BY <1>1, <1>3, <1>5, <2>2
    <3> QED BY <1>1, <1>2, <1>3, <1>4, <3>1
  <2> QED BY <1>1, <1>3, <2>1, <2>2
<1>7. q >= 0
  <2> SUFFICES ASSUME q < 0 PROVE FALSE
    BY <1>3
  <2>1. Midnight(q) + HOURS <= Midnight(0)
    BY <1>3, <1>5
  <2> QED BY <1>1, <1>2, <1>3, <1>4, <2>1
<1>8. q % DAYS = q
  BY <1>1, <1>3, <1>6, <1>7
<1>9. H!localNow(clock).day = q /\ H!localNow(clock).minutes = m
  BY <1>8 DEF H!localNow
<1>10. clock % Midnight(DAYS) = clock
  BY <1>2, TimesOfTheWeek
<1>11. q \in H!Week
  BY <1>1, <1>3, <1>6, <1>7 DEF H!Week
<1> QED BY <1>3, <1>4, <1>9, <1>10, <1>11

\* The day that is n days ahead of this one, in this week or the next.
LEMMA DayAhead ==
    ASSUME NEW d \in H!Week, NEW n \in H!Week
    PROVE  /\ (d + n) % DAYS \in H!Week
           /\ \/ d + n = (d + n) % DAYS
              \/ d + n = ((d + n) % DAYS) + DAYS
<1>1. DAYS \in Nat \ {0} /\ d \in 0 .. DAYS - 1 /\ n \in 0 .. DAYS - 1
  BY PlatformAssumption DEF H!Week
<1>2. CASE d + n < DAYS
  <2>1. (d + n) % DAYS = d + n
    BY <1>1, <1>2
  <2> QED BY <1>1, <1>2, <2>1 DEF H!Week
<1>3. CASE d + n >= DAYS
  <2> PICK e \in 0 .. DAYS - 1 : d + n = e + DAYS
    <3>1. d + n - DAYS \in 0 .. DAYS - 1
      BY <1>1, <1>3
    <3> QED BY <1>1, <3>1
  <2>1. (e + DAYS) % DAYS = e
    BY <1>1
  <2> QED BY <1>1, <2>1 DEF H!Week
<1> QED BY <1>1, <1>2, <1>3

\* A shift starts on its day, so all times of the day are before the next.
LEMMA WithinTheDay ==
    ASSUME NEW d \in H!Week, NEW m \in 0 .. HOURS - 1
    PROVE  /\ Midnight(d) \in Nat /\ Midnight(d) + m \in 0 .. Midnight(DAYS) - 1
           /\ Midnight(d) + HOURS <= Midnight(DAYS)
<1>1. /\ DAYS \in Nat \ {0} /\ HOURS \in Nat \ {0} /\ d \in 0 .. DAYS - 1
      /\ Midnight(d) \in Int /\ Midnight(DAYS) \in Int /\ Midnight(0) = 0
  BY Midnights DEF H!Week
<1>2. Midnight(d) + HOURS <= Midnight(DAYS)
  BY <1>1, Midnights
<1>3. d = 0 \/ Midnight(0) + HOURS <= Midnight(d)
  BY <1>1, Midnights
<1> QED BY <1>1, <1>2, <1>3

LEMMA OpensThen ==
    ASSUME NEW t
    PROVE  H!Opens(t) <=> \E d \in H!Week : /\ week[d] # NULL
                                            /\ t % Midnight(DAYS) = Midnight(d) + week[d].opensAt
BY DEF H!Opens, Midnight

\* Today, the time of it, and when a shift of the day n days ahead starts.
Today == H!localNow(clock).day
Minutes == H!localNow(clock).minutes
Entry(n) == week[(Today + n) % DAYS]
Ahead(n) == Midnight(Today + n) + Entry(n).opensAt

LEMMA ItOpens ==
    ASSUME HoursInv, NEW n \in H!Week, Entry(n) # NULL
    PROVE  /\ H!Opens(Ahead(n)) /\ Ahead(n) \in Int
           /\ Midnight(Today + n) <= Ahead(n) /\ Ahead(n) < Midnight(Today + n) + HOURS
<1>1. Today \in H!Week
  BY TheTime DEF Today
<1> PICK e : e = (Today + n) % DAYS
  OBVIOUS
<1>2. e \in H!Week /\ (Today + n = e \/ Today + n = e + DAYS)
  BY <1>1, DayAhead
<1>3. /\ e \in Int /\ DAYS \in Int /\ Midnight(e) \in Int /\ Midnight(DAYS) \in Int
      /\ Midnight(e + DAYS) = Midnight(e) + Midnight(DAYS)
  BY <1>2, Midnights DEF H!Week
<1>4. week[e] # NULL /\ Entry(n) = week[e]
  BY DEF Entry
<1>5. week[e].opensAt \in 0 .. HOURS - 1
  BY <1>2, <1>4, ShiftTimes
<1>6. Midnight(e) + week[e].opensAt \in 0 .. Midnight(DAYS) - 1
  BY <1>2, <1>5, WithinTheDay
<1> PICK x \in 0 .. Midnight(DAYS) - 1 : x = Midnight(e) + week[e].opensAt
  BY <1>6
<1>7. x % Midnight(DAYS) = x /\ (x + Midnight(DAYS)) % Midnight(DAYS) = x
  BY TimesOfTheWeek
<1>8. Ahead(n) = x \/ Ahead(n) = x + Midnight(DAYS)
  BY <1>2, <1>3, <1>4, <1>5 DEF Ahead
<1>9. Ahead(n) % Midnight(DAYS) = Midnight(e) + week[e].opensAt
  BY <1>7, <1>8
<1>10. H!Opens(Ahead(n))
  BY <1>2, <1>4, <1>9, OpensThen
<1>11. /\ Midnight(Today + n) \in Int /\ Ahead(n) = Midnight(Today + n) + week[e].opensAt
       /\ HOURS \in Nat
  <2>1. HOURS \in Nat
    BY PlatformAssumption
  <2>2. Midnight(Today + n) \in Int
    BY <1>2, <1>3
  <2> QED BY <1>4, <2>1, <2>2 DEF Ahead
<1> QED BY <1>5, <1>10, <1>11

\* Every opening less than a week from this midnight is that of a day ahead.
LEMMA OpeningIsAhead ==
    ASSUME HoursInv, NEW t \in Int, clock < t, t < Midnight(Today) + Midnight(DAYS), H!Opens(t)
    PROVE  \E n \in H!Week : Entry(n) # NULL /\ t = Ahead(n)
<1>1. /\ Today \in H!Week /\ Minutes \in 0 .. HOURS - 1 /\ clock = Midnight(Today) + Minutes
  BY TheTime DEF Today, Minutes
<1>2. PICK d \in H!Week : week[d] # NULL /\ t % Midnight(DAYS) = Midnight(d) + week[d].opensAt
  BY OpensThen
<1>3. week[d].opensAt \in 0 .. HOURS - 1
  BY <1>2, ShiftTimes
<1> PICK o \in 0 .. HOURS - 1 : o = week[d].opensAt
  BY <1>3
<1>4. /\ d \in 0 .. DAYS - 1 /\ Today \in 0 .. DAYS - 1 /\ DAYS \in Nat \ {0} /\ HOURS \in Nat \ {0}
      /\ Midnight(d) \in Nat /\ Midnight(Today) \in Nat /\ Midnight(DAYS) \in Nat
      /\ Midnight(Today) + HOURS <= Midnight(DAYS)
  <2>1. DAYS \in Nat \ {0} /\ HOURS \in Nat \ {0}
    BY PlatformAssumption
  <2>2. Midnight(d) \in Nat /\ Midnight(Today) \in Nat /\ Midnight(Today) + HOURS <= Midnight(DAYS)
    BY <1>1, WithinTheDay
  <2>3. Midnight(DAYS) \in Int
    BY <2>1, Midnights
  <2> QED BY <1>1, <2>1, <2>2, <2>3 DEF H!Week
<1>5. ASSUME NEW n \in H!Week, Today + n = d \/ Today + n = d + DAYS, t = Midnight(Today + n) + o
      PROVE  Entry(n) # NULL /\ t = Ahead(n)
  <2>1. (Today + n) % DAYS \in H!Week
        /\ (Today + n = (Today + n) % DAYS \/ Today + n = ((Today + n) % DAYS) + DAYS)
    BY <1>1, DayAhead
  <2>2. (Today + n) % DAYS = d
    BY <1>4, <1>5, <2>1 DEF H!Week
  <2> QED BY <1>2, <1>5, <2>2 DEF Entry, Ahead
<1>6. CASE t < Midnight(DAYS)
  <2>1. t \in 0 .. Midnight(DAYS) - 1
    BY <1>1, <1>4, <1>6
  <2>2. t = Midnight(d) + o
    BY <1>2, <2>1, TimesOfTheWeek
  <2>3. d >= Today
    <3> SUFFICES ASSUME d < Today PROVE FALSE
      BY <1>4
    <3>1. Midnight(d) + HOURS <= Midnight(Today)
      BY <1>4, Midnights
    <3> QED BY <1>1, <1>4, <2>2, <3>1
  <2> PICK n \in H!Week : Today + n = d
    <3>1. d - Today \in H!Week /\ Today + (d - Today) = d
      BY <1>4, <2>3 DEF H!Week
    <3> QED BY <3>1
  <2> QED BY <1>5, <2>2
<1>7. CASE t >= Midnight(DAYS)
  <2> PICK x \in 0 .. Midnight(DAYS) - 1 : t = x + Midnight(DAYS) /\ x < Midnight(Today)
    <3>1. /\ t - Midnight(DAYS) \in 0 .. Midnight(DAYS) - 1
          /\ t = (t - Midnight(DAYS)) + Midnight(DAYS) /\ t - Midnight(DAYS) < Midnight(Today)
      BY <1>4, <1>7
    <3> QED BY <3>1
  <2>1. x = Midnight(d) + o
    BY <1>2, TimesOfTheWeek
  <2>2. d < Today
    <3> SUFFICES ASSUME d > Today PROVE FALSE
      BY <1>4, <2>1
    <3>1. Midnight(Today) + HOURS <= Midnight(d)
      BY <1>4, Midnights
    <3> QED BY <1>4, <2>1, <3>1
  <2> PICK n \in H!Week : Today + n = d + DAYS
    <3>1. d + DAYS - Today \in H!Week /\ Today + (d + DAYS - Today) = d + DAYS
      BY <1>4, <2>2 DEF H!Week
    <3> QED BY <3>1
  <2>3. Midnight(d + DAYS) = Midnight(d) + Midnight(DAYS)
    BY <1>4, Midnights
  <2>4. t = Midnight(Today + n) + o
    BY <1>4, <2>1, <2>3
  <2> QED BY <1>5, <2>4
<1> QED BY <1>4, <1>6, <1>7

\* What opens again is what opens later than now.
LEMMA OpeningsAhead ==
    ASSUME HoursInv
    PROVE  H!Openings(clock) = {n \in H!Week : Entry(n) # NULL /\ clock < Ahead(n)}
<1>1. H!Openings(clock) =
        {n \in H!Week : Entry(n) # NULL /\ ~ H!IsOver(n, Entry(n).opensAt, Minutes)}
  BY DEF H!Openings, Entry, Today, Minutes
<1>2. ASSUME NEW n \in H!Week, Entry(n) # NULL
      PROVE  clock < Ahead(n) <=> ~ H!IsOver(n, Entry(n).opensAt, Minutes)
  <2>1. /\ Today \in H!Week /\ Minutes \in 0 .. HOURS - 1 /\ clock = Midnight(Today) + Minutes
    BY TheTime DEF Today, Minutes
  <2>2. /\ Today \in Int /\ n \in Nat /\ HOURS \in Nat /\ Midnight(Today) \in Int
    BY <2>1, PlatformAssumption, Midnights DEF H!Week
  <2>3. Entry(n).opensAt \in 0 .. HOURS - 1
    BY <1>2, <2>1, DayAhead, ShiftTimes DEF Entry
  <2>4. CASE n = 0
    <3>1. Today + n = Today
      BY <2>2, <2>4
    <3>2. Ahead(n) = Midnight(Today) + Entry(n).opensAt
      BY <3>1 DEF Ahead
    <3> QED BY <2>1, <2>2, <2>3, <2>4, <3>2 DEF H!IsOver
  <2>5. CASE n # 0
    <3>1. Today < Today + n /\ Today + n \in Int
      BY <2>2, <2>5
    <3>2. Midnight(Today) + HOURS <= Midnight(Today + n) /\ Midnight(Today + n) \in Int
      BY <2>2, <3>1, Midnights
    <3>3. Midnight(Today + n) <= Ahead(n) /\ Ahead(n) \in Int
      BY <1>2, ItOpens
    <3> QED BY <2>1, <2>2, <2>5, <3>2, <3>3 DEF H!IsOver
  <2> QED BY <2>4, <2>5
<1> QED BY <1>1, <1>2

LEMMA LeastOpening ==
    ASSUME NEW due, due \subseteq Nat, due # {}
    PROVE  \E n \in due : \A m \in due : n <= m
<1>1. PICK n \in due : \A m \in due : ~ (<<m, n>> \in OpToRel(<, Nat))
  BY NatLessThanWellFounded, WFMin, Zenon
<1>2. \A m \in due : ~ (m < n)
  BY <1>1 DEF OpToRel
<1> QED BY <1>2

\* What the app says is when the first of them is.
LEMMA SaidIsNext ==
    ASSUME HoursInv, H!Openings(clock) # {}
    PROVE  \E n \in H!Openings(clock) :
                /\ H!minutesUntilNextOpening(clock) = Ahead(n) - clock
                /\ \A m \in H!Openings(clock) : Ahead(n) <= Ahead(m)
<1> PICK due : due = H!Openings(clock)
  OBVIOUS
<1>1. \A n \in due : n \in H!Week /\ n \in Nat /\ Entry(n) # NULL
  <2>1. H!Week \subseteq Nat
    BY PlatformAssumption DEF H!Week
  <2> QED BY <2>1, OpeningsAhead
<1>2. \E n \in due : /\ H!minutesUntilNextOpening(clock) = n * HOURS + Entry(n).opensAt - Minutes
                    /\ \A m \in due : n <= m
  <2> PICK n : n = CHOOSE offset \in due : \A other \in due : offset <= other
    OBVIOUS
  <2>1. \E m \in due : \A other \in due : m <= other
    BY <1>1, LeastOpening
  <2>2. n \in due /\ \A m \in due : n <= m
    BY <2>1
  <2>3. H!minutesUntilNextOpening(clock) = n * HOURS + Entry(n).opensAt - Minutes
    BY DEF H!minutesUntilNextOpening, Entry, Today, Minutes
  <2> QED BY <2>2, <2>3
<1> PICK n \in due : /\ H!minutesUntilNextOpening(clock) = n * HOURS + Entry(n).opensAt - Minutes
                    /\ \A m \in due : n <= m
  BY <1>2
<1>4. /\ Today \in Int /\ Minutes \in Int /\ n \in Int /\ HOURS \in Int /\ Midnight(Today) \in Int
      /\ Midnight(n) \in Int /\ Midnight(Today + n) = Midnight(Today) + Midnight(n)
      /\ clock = Midnight(Today) + Minutes
  <2>1. Today \in Int /\ Minutes \in Int /\ clock = Midnight(Today) + Minutes
    BY TheTime DEF Today, Minutes, H!Week
  <2>2. n \in Int /\ HOURS \in Int
    BY <1>1, PlatformAssumption
  <2>3. /\ Midnight(Today) \in Int /\ Midnight(n) \in Int
        /\ Midnight(Today + n) = Midnight(Today) + Midnight(n)
    BY <2>1, <2>2, Midnights
  <2> QED BY <2>1, <2>2, <2>3
<1>5. Ahead(n) \in Int /\ Ahead(n) < Midnight(Today + n) + HOURS
  BY <1>1, ItOpens
<1>6. Entry(n).opensAt \in Int
  <2>1. Today \in H!Week /\ n \in H!Week /\ Entry(n) # NULL
    BY <1>1, TheTime DEF Today
  <2>2. Entry(n).opensAt \in 0 .. HOURS - 1
    BY <2>1, DayAhead, ShiftTimes DEF Entry
  <2> QED BY <1>4, <2>2
<1>7. H!minutesUntilNextOpening(clock) = Ahead(n) - clock
  <2>1. n * HOURS = Midnight(n)
    BY DEF Midnight
  <2>2. Ahead(n) = Midnight(Today + n) + Entry(n).opensAt
    BY DEF Ahead
  <2> QED BY <1>4, <1>6, <2>1, <2>2
<1>8. ASSUME NEW m \in due PROVE Ahead(n) <= Ahead(m)
  <2>1. m \in Nat /\ m \in H!Week /\ Entry(m) # NULL /\ n <= m
    BY <1>1
  <2>2. CASE n = m
    BY <1>5, <2>2
  <2>3. CASE n # m
    <3>1. Today + n < Today + m /\ Today + n \in Int /\ Today + m \in Int
      BY <1>4, <2>1, <2>3
    <3>2. Midnight(Today + n) + HOURS <= Midnight(Today + m) /\ Midnight(Today + m) \in Int
      BY <3>1, Midnights
    <3>3. Midnight(Today + m) <= Ahead(m) /\ Ahead(m) \in Int
      BY <2>1, ItOpens
    <3> QED BY <1>4, <1>5, <3>2, <3>3
  <2> QED BY <2>2, <2>3
<1> QED BY <1>7, <1>8

LEMMA NothingSooner ==
    ASSUME HoursInv, NEW t \in Int, clock < t, H!Opens(t),
           \/ t < Midnight(Today) + Midnight(DAYS)
           \/ \E n \in H!Week : Entry(n) # NULL /\ t <= Ahead(n)
    PROVE  \E n \in H!Openings(clock) : t = Ahead(n)
<1>1. t < Midnight(Today) + Midnight(DAYS)
  <2> SUFFICES ASSUME NEW n \in H!Week, Entry(n) # NULL, t <= Ahead(n)
               PROVE  t < Midnight(Today) + Midnight(DAYS)
    OBVIOUS
  <2>1. /\ Today \in Int /\ n \in Int /\ DAYS \in Int /\ n < DAYS /\ HOURS \in Int
    BY TheTime, PlatformAssumption DEF Today, H!Week
  <2>2. /\ Midnight(Today) \in Int /\ Midnight(DAYS) \in Int
        /\ Midnight(Today + n) = Midnight(Today) + Midnight(n) /\ Midnight(n) \in Int
        /\ Midnight(n) + HOURS <= Midnight(DAYS)
    BY <2>1, Midnights
  <2>3. Ahead(n) \in Int /\ Ahead(n) < Midnight(Today + n) + HOURS
    BY ItOpens
  <2> QED BY <2>1, <2>2, <2>3
<1> QED BY <1>1, OpeningIsAhead, OpeningsAhead

\* A day without a night is open from its opening to its closing.
LEMMA OpenIsServed ==
    ASSUME HoursInv, H!NoNights
    PROVE  H!isOpen(clock) <=> H!Served(clock)
<1>1. /\ Today \in H!Week /\ Minutes \in 0 .. HOURS - 1 /\ clock = Midnight(Today) + Minutes
      /\ clock % Midnight(DAYS) = clock
  BY TheTime DEF Today, Minutes
<1>2. ASSUME NEW d \in H!Week, week[d] # NULL
      PROVE  /\ week[d].opensAt \in 0 .. HOURS - 1 /\ week[d].closesAt \in 0 .. HOURS - 1
             /\ week[d].closesAt > week[d].opensAt /\ H!Ends(week[d]) = week[d].closesAt
  BY <1>2, ShiftTimes DEF H!NoNights, H!Ends
<1>3. H!isOpen(clock) <=> /\ week[Today] # NULL
                          /\ Minutes \in week[Today].opensAt .. week[Today].closesAt - 1
  <2>1. week[Today] # NULL => week[Today].closesAt > week[Today].opensAt
    BY <1>1 DEF H!NoNights
  <2> QED BY <2>1 DEF H!isOpen, Today, Minutes
<1>4. H!Served(clock) <=>
        \E d \in H!Week :
            /\ week[d] # NULL
            /\ \E start \in {Midnight(d), Midnight(d - DAYS)} :
                clock \in start + week[d].opensAt .. start + week[d].closesAt - 1
  BY <1>1, <1>2 DEF H!Served, Midnight
<1>5. /\ HOURS \in Nat /\ DAYS \in Int /\ \A d \in H!Week : d \in 0 .. DAYS - 1
      /\ \A d \in H!Week : Midnight(d) \in Nat
      /\ Midnight(0) = 0 /\ \A d, e \in Int : d < e => Midnight(d) + HOURS <= Midnight(e)
      /\ \A d \in Int : Midnight(d) \in Int
  <2>1. HOURS \in Nat /\ DAYS \in Int /\ HOURS > 0
    BY PlatformAssumption
  <2>2. \A d \in H!Week : d \in 0 .. DAYS - 1
    BY DEF H!Week
  <2>3. 0 \in 0 .. HOURS - 1
    BY <2>1
  <2>4. \A d \in H!Week : Midnight(d) \in Nat
    BY <2>3, WithinTheDay
  <2> QED BY <2>1, <2>2, <2>4, Midnights
<1>6. ASSUME week[Today] # NULL,
             Minutes \in week[Today].opensAt .. week[Today].closesAt - 1
      PROVE  clock \in Midnight(Today) + week[Today].opensAt
                            .. Midnight(Today) + week[Today].closesAt - 1
  BY <1>1, <1>2, <1>5, <1>6
<1>7. ASSUME NEW d \in H!Week, week[d] # NULL,
             NEW start \in {Midnight(d), Midnight(d - DAYS)},
             clock \in start + week[d].opensAt .. start + week[d].closesAt - 1
      PROVE  d = Today /\ Minutes \in week[d].opensAt .. week[d].closesAt - 1
  <2>1. /\ week[d].opensAt \in 0 .. HOURS - 1 /\ week[d].closesAt \in 0 .. HOURS - 1
        /\ d \in Int /\ Today \in Int /\ Midnight(d) \in Nat /\ Midnight(Today) \in Nat
        /\ d - DAYS \in Int /\ d - DAYS < 0
    BY <1>1, <1>2, <1>5, <1>7
  <2>2. Midnight(d - DAYS) + HOURS <= 0 /\ Midnight(d - DAYS) \in Int
    <3>1. \A e \in Int : e < 0 => Midnight(e) + HOURS <= Midnight(0)
      BY <1>5
    <3>2. Midnight(d - DAYS) + HOURS <= Midnight(0)
      BY <2>1, <3>1
    <3>3. Midnight(d - DAYS) \in Int /\ Midnight(0) = 0
      BY <1>5, <2>1
    <3> QED BY <3>2, <3>3
  <2>3. start = Midnight(d)
    BY <1>1, <1>5, <1>7, <2>1, <2>2
  <2>4. ~ (d < Today)
    <3> SUFFICES ASSUME d < Today PROVE FALSE
      OBVIOUS
    <3>1. Midnight(d) + HOURS <= Midnight(Today)
      BY <1>5, <2>1
    <3> QED BY <1>1, <1>5, <1>7, <2>1, <2>3, <3>1
  <2>5. ~ (Today < d)
    <3> SUFFICES ASSUME Today < d PROVE FALSE
      OBVIOUS
    <3>1. Midnight(Today) + HOURS <= Midnight(d)
      BY <1>5, <2>1
    <3> QED BY <1>1, <1>5, <1>7, <2>1, <2>3, <3>1
  <2>6. d = Today
    BY <2>1, <2>4, <2>5
  <2> QED BY <1>1, <1>5, <1>7, <2>1, <2>3, <2>6
<1> QED BY <1>1, <1>3, <1>4, <1>6, <1>7

LEMMA OpensSaid == HoursInv => H!OpensWhenSaid
<1> SUFFICES ASSUME HoursInv PROVE H!OpensWhenSaid
  OBVIOUS
<1> PICK said : said = H!minutesUntilNextOpening(clock)
  OBVIOUS
<1>1. /\ Today \in Int /\ Minutes \in Int /\ clock = Midnight(Today) + Minutes
      /\ clock % HOURS = Minutes
  BY TheTime DEF Today, Minutes, H!Week
<1>2. /\ Midnight(Today) \in Int /\ Midnight(DAYS) \in Int /\ Midnight(DAYS) = DAYS * HOURS
  BY <1>1, Midnights
<1>3. CASE H!Openings(clock) = {}
  <2>1. said = NULL
    BY <1>3 DEF H!minutesUntilNextOpening
  <2>2. ASSUME NEW t \in clock + 1 .. clock + (DAYS * HOURS - (clock % HOURS)) - 1, H!Opens(t)
        PROVE  FALSE
    <3>1. t \in Int /\ clock < t /\ t < Midnight(Today) + Midnight(DAYS)
      BY <1>1, <1>2, <2>2
    <3> QED BY <1>3, <2>2, <3>1, NothingSooner
  <2> QED BY <2>1, <2>2, OpenIsServed DEF H!OpensWhenSaid
<1>4. CASE H!Openings(clock) # {}
  <2> PICK n \in H!Openings(clock) :
            said = Ahead(n) - clock /\ \A m \in H!Openings(clock) : Ahead(n) <= Ahead(m)
    BY <1>4, SaidIsNext
  <2>1. n \in H!Week /\ Entry(n) # NULL /\ clock < Ahead(n)
    BY OpeningsAhead
  <2>2. H!Opens(Ahead(n)) /\ Ahead(n) \in Int /\ clock \in Int
    BY <1>1, <1>2, <2>1, ItOpens
  <2>3. said \in Int /\ said > 0 /\ clock + said = Ahead(n)
    BY <2>1, <2>2
  <2>4. said # NULL
    BY <2>3, RowsAssumption
  <2>5. ASSUME NEW t \in clock + 1 .. clock + said - 1, H!Opens(t) PROVE FALSE
    <3>1. t \in Int /\ clock < t /\ t < Ahead(n)
      BY <2>2, <2>3
    <3>2. PICK m \in H!Openings(clock) : t = Ahead(m)
      BY <2>1, <2>2, <2>5, <3>1, NothingSooner
    <3>3. Ahead(n) <= Ahead(m)
      OBVIOUS
    <3> QED BY <2>2, <3>1, <3>2, <3>3
  <2> QED BY <2>2, <2>3, <2>4, <2>5, OpenIsServed DEF H!OpensWhenSaid
<1> QED BY <1>3, <1>4

LEMMA HoursStart == H!Init => HoursInv
<1> SUFFICES ASSUME H!Init PROVE HoursInv
  OBVIOUS
<1>1. Midnight(DAYS) = DAYS * HOURS /\ Midnight(DAYS) \in Int /\ Midnight(DAYS) > 0
  BY Midnights
<1>2. clock \in 0 .. DAYS * HOURS - 1
  BY <1>1 DEF H!Init
<1> QED BY <1>2 DEF H!Init, HoursInv

LEMMA HoursKept == HoursInv /\ [H!Next]_(H!vars) => HoursInv'
<1> SUFFICES ASSUME HoursInv, [H!Next]_(H!vars) PROVE HoursInv'
  OBVIOUS
<1>1. CASE H!SetHours
  BY <1>1 DEF H!SetHours, HoursInv
<1>2. CASE H!Tick
  <2> PICK n : n = DAYS * HOURS
    OBVIOUS
  <2>1. n \in Int /\ n > 0
    BY Midnights
  <2>2. clock + 1 \in Int
    BY <2>1 DEF HoursInv
  <2>3. (clock + 1) % n \in 0 .. n - 1
    BY <2>1, <2>2
  <2> QED BY <1>2, <2>3 DEF H!Tick, HoursInv
<1>3. CASE UNCHANGED H!vars
  BY <1>3 DEF H!vars, HoursInv
<1> QED BY <1>1, <1>2, <1>3 DEF H!Next

\* Of every week of hours and at every time of it, a closed listing opens when
\* the app says and no sooner; said to open never, it opens on no other day of
\* the week ahead; and a week without nights is open when it is served.
THEOREM ListingsOpenWhenSaid == Spec => []OpensWhenSaid
<1> DEFINE Inv == part = "hours" => HoursInv
<1>1. Init => Inv
  BY HoursStart DEF Init
<1>2. Inv /\ [Next]_vars => Inv'
  BY PartStays, HoursOnly, HoursKept
<1>3. Inv => OpensWhenSaid
  BY OpensSaid DEF OpensWhenSaid
<1> QED BY <1>1, <1>2, <1>3, PTL DEF Spec
=============================================================================
