\* One document of up to three pages, two invocations at a time, one fault.
CONSTANTS
    Documents = {d1}
    Invocations = {i1, i2}
    PageNumbers = {1, 2, 3}
    Confidences = {84, 85}
    Results <- OcrResults
    EmbedLimit = 2
    AnalyzeLimit = 1
    None = None
    MaxFaults = 1
\* Every job may be done.
CHECK_DEADLOCK FALSE
SPECIFICATION FairSpec
INVARIANT OnlyTrustedText
INVARIANT CompletedHasRows
INVARIANT ReviewAgrees
INVARIANT EmbeddedInOrder
PROPERTY OcrSettles
