SPECIFICATION Spec
CONSTANTS
    r1 = r1  r2 = r2  h1 = h1  h2 = h2
    NULL = NULL
    Sweep = Sweep
    Orders = {1,2}
    Riders = {r1}
    Assignments = {1, 2}
    Handlers = {h1,h2}
    Entry = "READY_FOR_PICKUP"
    CrashLimit = 0
INVARIANTS OneRunAtATime CompletedWasDelivered
SYMMETRY Two
CONSTRAINT RequestsRace
CHECK_DEADLOCK FALSE
