CONSTANTS
    Events = {e1, e2}
    Drains = {d1, d2}
    BatchSize = 2
    Concurrency = 2
    MaxAttempts = 2
SPECIFICATION FairSpec
INVARIANTS OneHolder
PROPERTIES ImplementsDelivery EventuallySettled
