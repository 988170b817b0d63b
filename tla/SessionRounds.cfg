\* Two rounds with deadlines, automatic retries and the host's retries.
SPECIFICATION PlaySpec
CONSTANTS
    p1 = p1
    p2 = p2
    d1 = d1
    d2 = d2
    NoOne = NoOne
    Players = {p1, p2}
    Dice = {d1, d2}
    DiceOutcomes = {d1, d2}
    MaxPlayers = 2
    Attempts = 2
    Losses = {"closed"}
    DeliveryDeadlines = TRUE
    MaxRounds = 2
    MaxChanges = 1
    MaxGeneration = 4
    MaxShutdowns = 0
SYMMETRY Symmetry
CHECK_DEADLOCK FALSE
INVARIANTS
    AcknowledgedIsCounted
    SomeoneResolves
    PausedIsRetryable
    PendingIsComplete
PROPERTIES
    ActionsSurvive
    DiceAreFinal
