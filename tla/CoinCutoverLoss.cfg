CONSTANTS
    None = None
    Holders = {u1, u2}
    Writers = {w1}
    Runs = {cli}
    Production = {}
    MaxLegacy = 2
SPECIFICATION CutoverSpec
INVARIANT NothingLost
