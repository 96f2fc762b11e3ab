\* No call fails; one worker may stop in the middle of a batch, either may die.
CONSTANTS
    Workers = {w1, w2}
    Documents = {d1, d2}
    NoWorker = NoWorker
    Stoppable = {w1}
    BatchSize = 2
    CallsMayFail = FALSE
    HeartbeatsMayFail = TRUE
    MaxCrashes = 1
SPECIFICATION FairSpec
PROPERTY ClaimsEnd
INVARIANT OnlyDeathStrands
