SPECIFICATION Spec
CONSTANTS
    o1 = o1  o2 = o2  c1 = c1  c2 = c2  i1 = i1  i2 = i2  h1 = h1  h2 = h2
    NULL = NULL
    Orders = {o1, o2}
    Carts = {c1, c2}
    Items = {i1, i2}
    Attempts = {1, 2}
    Handlers = {h1, h2}
    PlacedWith = {"CASH_ON_DELIVERY", "JAZZCASH"}
    Total = 1
    Basket <- SharedBasket
    InitialStock <- ScarceStock
SYMMETRY Two
CONSTRAINT Bound
INVARIANTS TypeOK OneOrderPerBasket StockAccounted CashPostedOnce
PROPERTIES ImplementsHistory
CHECK_DEADLOCK FALSE
