SPECIFICATION Spec
CONSTANTS
    t1 = t1
    t2 = t2
    Txs = {t1, t2}
    MaxChecks = 2
    MaxWire = 2
INVARIANTS
    ConfirmedIsConfirmed
