\* One device, commands that add, delete and ask, every fault.
CONSTANTS
    note = note
    forget = forget
    ask = ask
    pavlov = pavlov
    Devices = {phone}
    Commands = {note, forget, ask}
    Matters = {pavlov}
    None = None
    Says <- Words
    Target <- Targets
    Score <- Scores
    CallsMayFail = TRUE
    MaxStarts = 2
    MaxCallbacks = 1
    MaxSends = 3
\* Every request may be used up.
CHECK_DEADLOCK FALSE
SPECIFICATION Spec
PROPERTY ApprovalSpec
INVARIANT PendingIsShown
INVARIANT MicrophoneIsShown
