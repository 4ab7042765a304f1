CONSTANTS
    u1 = u1
    u2 = u2
    s1 = s1
    s2 = s2
    Users = {u1, u2}
    Sessions = {s1, s2}
    MaxMicros = 3
    MaxPosts = 2
    Movements <- MCMovements
SPECIFICATION Spec
INVARIANTS AccountsSound RepliesTruthful FenceHolds
PROPERTY ImplementsBook
SYMMETRY Symmetry
