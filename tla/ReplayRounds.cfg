\* Rounds, pauses and the end while a browser loses its socket and catches up; the
\* timer of a journal request may fire.
SPECIFICATION PlaySpec
CONSTANTS
    QueueLimit = 2
    Deadlines = TRUE
    MaxRounds = 1
    MaxPauses = 1
    MaxChats = 0
    PageLimit = 2
    HoldLimit = 2
    Timeouts = TRUE
    MaxLosses = 1
    MaxRefusals = 1
CHECK_DEADLOCK FALSE
INVARIANTS
    TypeOK
    RecordedOnce
    RecordedInOrder
    ReplayIsServed
    AnswerIsComing
    ViewIsCurrent
