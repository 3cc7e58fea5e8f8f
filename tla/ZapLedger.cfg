CONSTANTS
    n1 = n1
    n2 = n2
    z1 = z1
    z2 = z2
    z3 = z3
    d1 = d1
    d2 = d2
    d3 = d3
    Npub = {n1}
    Zap = {z1, z2, z3}
    Delivery = {d1, d2}
    Owner <- mcOwner
    Msat <- mcMsatWraps
    Int4Max = 7
SPECIFICATION FairSpec
INVARIANTS TypeOK NoOverdraft QuietAccountExact NoPhantomCredit QuietAccountSolvent PaidZapHasRow
PROPERTIES SettledZapCredited ImplementsAccounts
CHECK_DEADLOCK FALSE
