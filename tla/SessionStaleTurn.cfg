\* The directive repeated after an interrupted delivery.
SPECIFICATION PlaySpec
CONSTANTS
    p1 = p1
    p2 = p2
    d1 = d1
    NoOne = NoOne
    Players = {p1, p2}
    Dice = {d1}
    DiceOutcomes = {d1}
    MaxPlayers = 2
    Attempts = 1
    Losses = {"failed"}
    DeliveryDeadlines = TRUE
    MaxRounds = 1
    MaxChanges = 1
    MaxGeneration = 3
    MaxShutdowns = 0
SYMMETRY Symmetry
CHECK_DEADLOCK FALSE
INVARIANTS
    TurnAnnounced
