CONSTANTS
    u1 = u1
    q1 = q1
    q2 = q2
    k1 = k1
    k2 = k2
    c1 = c1
    c2 = c2
    None = None
    Users = {u1}
    Quotes = {q1, q2}
    Keys = {k1, k2}
    Owner <- MCOwner
    Amount <- MCAmount
    Corrections <- MCCorrections
    Page = 10
    MaxMicros = 4
SPECIFICATION Spec
SYMMETRY Symmetry
INVARIANTS ReserveBacked RowMatchesLedger
PROPERTY ImplementsEscrow
