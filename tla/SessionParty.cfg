\* Three players who come and go around one round; the last to join is away at first.
SPECIFICATION PartySpec
CONSTANTS
    p1 = p1
    p2 = p2
    p3 = p3
    d1 = d1
    NoOne = NoOne
    Players = {p1, p2, p3}
    Dice = {d1}
    DiceOutcomes = {d1}
    MaxPlayers = 3
    Attempts = 1
    Losses = {"failed"}
    DeliveryDeadlines = FALSE
    MaxRounds = 1
    MaxChanges = 4
    MaxGeneration = 2
    MaxShutdowns = 0
SYMMETRY Symmetry
CHECK_DEADLOCK FALSE
INVARIANTS
    JoinOrderKept
    TurnAnnounced
    NoGhosts
    TurnIsPlayable
    ActionsOfThisRound
PROPERTIES
    TransitionsSurvive
