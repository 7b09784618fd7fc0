CONSTANTS
    Client = {c1, c2}
    Chain = {"base"}
    Tier = {0}
    Worker = {w1}
    Tx <- MCTxOne
    PendingDuration = 2
    AccessDuration = 1
    TxTolerance = 1
    PendingKeep = 1
    PaymentsKeep = 3
    RequestTimeout = 1
    IndexLimit = 1
    MaxTime = 5
    MaxBatch = 1
    MaxRestarts = 1
    MaxRevokes = 1
SPECIFICATION Spec
SYMMETRY ClientSymmetry
INVARIANTS CounterAhead NeverCollides 
