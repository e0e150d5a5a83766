SPECIFICATION PaySpec
CONSTANTS
    o1 = o1  c1 = c1  i1 = i1  h1 = h1  h2 = h2
    NULL = NULL
    Orders = {o1}
    Carts = {c1}
    Items = {i1}
    Attempts = {1}
    Handlers = {h1}
    PlacedWith = {"JAZZCASH"}
    Total = 1
    Basket <- OneBasket
    InitialStock <- OneStock
INVARIANT ExpiryAsksFirst
CHECK_DEADLOCK FALSE
