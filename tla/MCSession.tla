---------------------------- MODULE MCSession ----------------------------
(***************************************************************************)
(* The session on small parties, for TLC.                                  *)
(***************************************************************************)
EXTENDS SessionInvariants, SequencesExt

CONSTANTS Dice     \* what plans can roll, as model values

Symmetry == Permutations(Players) \cup Permutations(Dice)

\* A session in play, the opening delivered and nothing done since: runs that start here
\* spend their bounds on the rounds instead of the lobby.
InPlay ==
    /\ phase = "ACTIVE_TURN" /\ turnQueue = joinOrder
    /\ buffer = EmptyBuffer /\ announced = Told(joinOrder[1])
    /\ active = IF connected = {} THEN NoOne ELSE joinOrder[1]
    /\ paused = FALSE /\ pending = NoRound /\ roundCounter = 0 /\ accepted = {}
    /\ generation = 2 /\ inferenceTask = 0 /\ jobs = {}
    /\ effects = "free"
    /\ greetings = {} /\ pendingDelivery = <<>> /\ shown = 0 /\ endings = 0
    /\ submissions = {} /\ rejections = {} /\ leavers = {} /\ retries = {} /\ shutdowns = 0

\* Those who are not here have left once and not returned.
Away(gone) ==
    /\ connected = Joined \ gone /\ live = connected
    /\ version = [p \in Players |-> IF p \in gone THEN 1 ELSE 0]
    /\ departed = gone /\ returned = {}

\* Everyone is present.
PlayInit == joinOrder \in SetToSeqs(Players) /\ Away({}) /\ InPlay

\* The last to join left the lobby before the game began.
AwayInit ==
    /\ joinOrder \in SetToSeqs(Players)
    /\ Away({joinOrder[Len(joinOrder)]})
    /\ InPlay

\* A game of two both of whom have left in their first turn, the second player first.
EmptyInit ==
    /\ \E two \in kSubset(2, Players) : joinOrder \in SetToSeqs(two)
    /\ Away(Joined)
    /\ InPlay

PlaySpec  == PlayInit /\ [][Next]_vars
PartySpec == (AwayInit \/ EmptyInit) /\ [][Next]_vars
LiveSpec  == PlaySpec /\ Fairness
==========================================================================
