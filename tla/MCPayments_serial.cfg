SPECIFICATION PaySpec
CONSTANTS
    o1 = o1  c1 = c1  i1 = i1  h1 = h1  h2 = h2
    NULL = NULL
    Orders = {o1}
    Carts = {c1}
    Items = {i1}
    Attempts = {1, 2}
    Handlers = {h1}
    PlacedWith = {"CASH_ON_DELIVERY", "JAZZCASH"}
    Total = 2
    Basket <- OneBasket
    InitialStock <- OneStock
CONSTRAINT OnlyConclusions
INVARIANT PaidHasReceipt
PROPERTY ImplementsLife ImplementsContract
CHECK_DEADLOCK FALSE
