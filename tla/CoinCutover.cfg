CONSTANTS
    None = None
    Holders = {u1, u2}
    Writers = {w1, w2}
    Runs = {cli, prod1, prod2}
    Production = {prod1, prod2}
    MaxLegacy = 1
SPECIFICATION CutoverSpec
INVARIANTS CutoverAtomic EvidenceMatches
PROPERTIES LegacyFrozen CreditedOnce
