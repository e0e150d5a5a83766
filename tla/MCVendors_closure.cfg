SPECIFICATION Spec
CONSTANTS
    h1 = h1  h2 = h2
    NULL = NULL
    BILLING_CYCLE_DAYS = 2
    BILLING_GRACE_DAYS = 1
    TrialDays = 1
    REMINDER_LEAD_DAYS = {1}
    MaxInvoices = 3
    Fees = {1, 2}
    Handlers = {h1}
    LastDay = 3
    CrashLimit = 0
CONSTRAINT OverlapEarly
CHECK_DEADLOCK FALSE
PROPERTY PaymentKeepsClosure
