\* One verified request that is not confidential.
CONSTANTS
    Callers = {c1}
    Requests <- PlainVerified
    Registered <- Keyed
    Structured <- Analyzers
    MaxRetries = 2
    Nobody = Nobody
SPECIFICATION Spec
INVARIANT IndependentVerification
