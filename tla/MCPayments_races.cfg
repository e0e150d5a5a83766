SPECIFICATION PaySpec
CONSTANTS
    o1 = o1  c1 = c1  i1 = i1  h1 = h1  h2 = h2
    NULL = NULL
    Orders = {o1}
    Carts = {c1}
    Items = {i1}
    Attempts = {1}
    Handlers = {h1, h2}
    PlacedWith = {"CASH_ON_DELIVERY", "JAZZCASH"}
    Total = 1
    Basket <- OneBasket
    InitialStock <- OneStock
SYMMETRY Two
CONSTRAINT BeforeCooking
INVARIANTS PaidOrderReleased ProcessedIsApplied ReceiptsMatchReferences
           NoMoneyFromNothing
CHECK_DEADLOCK FALSE
