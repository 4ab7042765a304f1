CONSTANTS
    u1 = u1
    i1 = i1
    i2 = i2
    t1 = t1
    t2 = t2
    e1 = e1
    e2 = e2
    e3 = e3
    e4 = e4
    e5 = e5
    None = None
    Users = {u1}
    Intents = {i1, i2}
    IntentOwner <- MCIntentOwner
    IntentAmount <- MCIntentAmount
    Transfers = {t1, t2}
    Destination <- MCDestination
    EventIds = {e1, e2, e3, e4, e5}
    Reports <- MCReports
    Required = 2
    CreditSettings = {TRUE, FALSE}
    Rates = {2}
    Elsewhere <- MCElsewhere
    MaxMicros = 4
SPECIFICATION Spec
INVARIANTS DepositMatchesLedger CreditHasEvidence
PROPERTY ImplementsCredit
