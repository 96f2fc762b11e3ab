\* Two workers, two messages delivered at will, every call may raise, workers die.
CONSTANTS
    m1 = m1
    m2 = m2
    Workers = {w1, w2}
    Messages = {m1, m2}
    Files <- AllFiles
    Mail <- Correspondence
    Nothing = Nothing
    LedgerMayFail = TRUE
    StoresMayFail = TRUE
    WorkersMayDie = TRUE
SYMMETRY Interchangeable
SPECIFICATION Spec
INVARIANT OneWorkerPerMessage
INVARIANT StatusesAgree
INVARIANT OriginalsKept
PROPERTY LedgerSpec
