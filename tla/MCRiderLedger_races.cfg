SPECIFICATION Spec
CONSTANTS
    o1 = o1  o2 = o2  p1 = p1  h1 = h1  h2 = h2
    NULL = NULL
    Orders = {o1, o2}
    Pairs = {p1}
    PairOf <- OnePair
    Fee <- Fees
    Total <- Totals
    MaxAttempts = 1
    TryLimit = 2
    Handlers = {h1, h2}
INVARIANTS BookedIsBacked CompletedIsBooked SettlementsCovered GuessesBounded
SYMMETRY Two
CONSTRAINT OneTroubled
CHECK_DEADLOCK FALSE
