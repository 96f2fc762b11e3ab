\* One thread and the event loop, every call may fail, one restart.
CONSTANTS
    Matters <- TwoMatters
    NoMatter = 0
    EmptyId = 99
    MatterTypes = {"criminal", "civil"}
    TypeOf <- Types
    Texts = {"clear", "twins"}
    Mention <- Mentions
    Threads = {t1}
    Researchers = {t1}
    Loop = loop
    CallsMayFail = TRUE
    Chunks = {1, 2}
    ChunkMatter <- OwnMatter
    Memories = {0, 2}
    MemoryMatter <- MatterOfMemory
    Invented = 0
    ProvidersMayFail = TRUE
    Comments <- Written
    ProductionSend = TRUE
    DryRun = FALSE
    TelegramMayFail = TRUE
    MaxComments = 2
    MaxRestarts = 1
    MaxRequests = 2
SPECIFICATION FairSpec
\* The requests of an instance are used up in the end.
CHECK_DEADLOCK FALSE
PROPERTY AllAnswered
INVARIANT AnalysisFitsMatter
INVARIANT AnswersGrounded
INVARIANT RoutedClearly
INVARIANT RepliesAreSafe
INVARIANT RepliesBounded
