\* Progress of the session under the fairness of the event loop.
SPECIFICATION LiveSpec
CONSTANTS
    p1 = p1
    p2 = p2
    d1 = d1
    NoOne = NoOne
    Players = {p1, p2}
    Dice = {d1}
    DiceOutcomes = {d1}
    MaxPlayers = 2
    Attempts = 1
    Losses = {"failed"}
    DeliveryDeadlines = TRUE
    MaxRounds = 1
    MaxChanges = 1
    MaxGeneration = 3
    MaxShutdowns = 1
CHECK_DEADLOCK FALSE
PROPERTIES
    InferenceSettles
    OutcomesAreDelivered
    TurnMovesOn
    EndIsReached
