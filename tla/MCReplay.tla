------------------------------ MODULE MCReplay ------------------------------
(***************************************************************************)
(* Publication and catch-up on short games, for TLC.                       *)
(***************************************************************************)
EXTENDS Replay

\* The game as the opening leaves it once delivered, nobody watching yet: runs that
\* start here spend their bounds on the rounds.
PlayInit ==
    /\ phase = "turn" /\ rounds = 0 /\ pauses = 0
    /\ effects = "free" /\ cut = FALSE
    /\ pendingDelivery = <<>> /\ notices = <<>>
    /\ journal = <<[type |-> "opening", round |-> 0], [type |-> "round_start", round |-> 1]>>
    /\ publishing = Silence /\ publishedCursor = 2
    /\ attached = FALSE /\ stream = <<>>
    /\ conn = "closed"
    /\ screen = [cursor |-> 0, shown |-> <<>>, view |-> Blank]
    /\ replaying = FALSE /\ snapshot = NoSnapshot /\ held = <<>>
    /\ request = NoRequest /\ upstream = <<>>
    /\ losses = 0 /\ refusals = 0 /\ outrun = FALSE /\ gaveUp = FALSE

PlaySpec == PlayInit /\ [][Next]_vars
=============================================================================
