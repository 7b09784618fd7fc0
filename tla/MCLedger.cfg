CONSTANTS
    Client = {c1}
    Chain = {"base"}
    Tier = {t1, t2}
    Worker = {w1, w2}
    Tx <- MCTxOne
    PendingDuration = 2
    AccessDuration = 1
    TxTolerance = 1
    PendingKeep = 1
    PaymentsKeep = 3
    RequestTimeout = 1
    IndexLimit = 2
    MaxTime = 5
    MaxBatch = 2
    MaxRestarts = 1
    MaxRevokes = 0
SPECIFICATION Spec
SYMMETRY WorkerTierSymmetry
INVARIANTS TypeOK CounterAhead NeverCollides PaidByTransfer CreditedOnce
PROPERTY OpenInvoiceKept
