SPECIFICATION Spec
CONSTANTS
    NULL = NULL
    UNUSED = UNUSED
    Handlers = {h1, h2}
    Watchers = {"CUSTOMER", "OWNER"}
    Couriers = {r1}
    Journey <- PaidOnline
    LastSocket = 1
INVARIANT WatchersCatchUp
CHECK_DEADLOCK FALSE
