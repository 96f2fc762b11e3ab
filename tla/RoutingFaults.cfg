\* One caller at a time, every kind of request, every check and call may fail.
CONSTANTS
    Callers = {c1}
    Requests <- AllRequests
    Registered <- Keyed
    Structured <- Analyzers
    MaxRetries = 2
    Nobody = Nobody
SPECIFICATION FairSpec
INVARIANT SentIsPermitted
INVARIANT VerificationIsHonest
INVARIANT AnalysisAnswered
PROPERTY EveryRunEnds
