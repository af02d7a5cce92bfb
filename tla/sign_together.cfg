CONSTANTS
    t1 = t1
    t2 = t2
    Txs = {t1, t2}
    NumSigners = 3
    MaxBody = 2
SPECIFICATION Spec
SYMMETRY TxSymmetry
CHECK_DEADLOCK FALSE
INVARIANTS
    ReturnedCanBeSent
    FailsForAReason
