\* Two workers, batches of two jobs, failing calls and heartbeats, a restart.
CONSTANTS
    Workers = {w1, w2}
    Documents = {d1, d2}
    NoWorker = NoWorker
    Stoppable = {w1}
    BatchSize = 2
    CallsMayFail = TRUE
    HeartbeatsMayFail = TRUE
    MaxCrashes = 1
SYMMETRY Interchangeable
SPECIFICATION Spec
INVARIANT OneProcessor
INVARIANT DoneMeansCompleted
PROPERTY LifecycleSpec
