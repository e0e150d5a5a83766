SPECIFICATION FairSweep
CONSTANTS
    r1 = r1  r2 = r2  h1 = h1  h2 = h2
    NULL = NULL
    Sweep = Sweep
    Orders = {1}
    Riders = {r1}
    Assignments = {1, 2}
    Handlers = {h1}
    Entry = "PLACED"
    CrashLimit = 1
PROPERTIES ImplementsBoard NoOrderStarves
CHECK_DEADLOCK FALSE
