CONSTANTS
    n1 = n1
    n2 = n2
    z1 = z1
    z2 = z2
    z3 = z3
    d1 = d1
    d2 = d2
    d3 = d3
    Npub = {n1, n2}
    Zap = {z1, z2}
    Delivery = {d1, d2, d3}
    Owner <- mcOwnerTwoKeys
    Msat <- mcMsatFits
    Int4Max = 7
SPECIFICATION Spec
INVARIANT ChargesCovered
CHECK_DEADLOCK FALSE
