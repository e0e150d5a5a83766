------------------------------ MODULE MCOrders ------------------------------
(* Small instances of the orders module. *)
EXTENDS OrderProperties, TLC

CONSTANTS o1, o2, c1, c2, i1, i2, h1, h2

Two == Permutations({h1, h2})

\* Both baskets want the last i1; c1 takes an i2 with it.
SharedBasket == (c1 :> (i1 :> 1 @@ i2 :> 1)) @@ (c2 :> (i1 :> 1 @@ i2 :> 0))
ScarceStock == i1 :> 1 @@ i2 :> 1

\* Checkout and its undoing, without the kitchen's and the rider's part.
BeforeCooking ==
    \A o \in Orders :
        orders[o].status \notin KITCHEN_COMMITTED \cup {"DELIVERED"}

\* The rest of an order's life, one order of the one basket at a time.
Bound ==
    \/ BeforeCooking
    \/ /\ orders[o1].cart = c1 /\ ~ Exists(o2)
       /\ \A h \in Handlers : req[h].kind # "place"
=============================================================================
