\* Two subjects, two consents, two threads, failing calls, a restart; two
\* commands, two messages.
CONSTANTS
    Subjects = {u1, u2}
    Consents = {c1, c2}
    Threads = {t1, t2}
    None = None
    RefreshTokenMayBeMissing = TRUE
    CallsMayFail = TRUE
    MaxRestarts = 1
    FixedSubject = None
    MaxMessages = 2
    MaxCommands = 2
\* Every consent may be used up.
CHECK_DEADLOCK FALSE
SYMMETRY Interchangeable
SPECIFICATION ReaderSpec
INVARIANT TokensBelong
INVARIANT MailIsWholeAndOwn
PROPERTY ConsentSpec
