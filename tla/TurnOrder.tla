----------------------------- MODULE TurnOrder -----------------------------
(***************************************************************************)
(* The pure part of turn taking: which player acts next, which players are *)
(* idled on the way there, and when a round is complete (GameEngine's      *)
(* _next_turn_locked and _take_complete_round_locked).                     *)
(*                                                                         *)
(* A round buffer maps every player to an entry.  An entry is Blank (the   *)
(* player has no key in round_buffer), Idle (IDLE_ACTION) or the number of *)
(* the round the player meant the action for.                              *)
(***************************************************************************)
EXTENDS Integers, Sequences, FiniteSets, Functions

CONSTANTS Players, NoOne

ASSUME NoOneAssumption == NoOne \notin Players

Blank == -1
Idle  == 0
Entry == {Blank, Idle} \cup (Nat \ {0})

EmptyBuffer == [p \in Players |-> Blank]

\* deque.rotate(-k) for 0 <= k <= Len(q), or of an empty deque
Rotate(q, k) ==
    IF q = <<>> THEN <<>> ELSE SubSeq(q, k + 1, Len(q)) \o SubSeq(q, 1, k)

\* Mutant: players passed over lose the action they submitted.
IdledAll(buf, ps) == [p \in Players |-> IF p \in ps THEN Idle ELSE buf[p]]

\* Every player of ps without an entry gets IDLE_ACTION.
Idled(buf, ps) ==
    [p \in Players |-> IF p \in ps /\ buf[p] = Blank THEN Idle ELSE buf[p]]

\* Positions of the queue that hold a player who can act.
Playable(q, conn, buf) ==
    {i \in 1..Len(q) : q[i] \in conn /\ buf[q[i]] = Blank}

\* The loop of _next_turn_locked in closed form: the first playable position is
\* rotated to the front, the players passed over are idled unless buffered; with no
\* playable position the queue has turned once and every player has an entry.
NextTurn(q, conn, buf) ==
    IF conn = {}
    THEN [queue |-> q, buffer |-> buf, active |-> NoOne]
    ELSE IF Playable(q, conn, buf) = {}
    THEN [queue |-> q, buffer |-> Idled(buf, Range(q)), active |-> NoOne]
    ELSE LET k == CHOOSE i \in Playable(q, conn, buf) :
                      \A j \in Playable(q, conn, buf) : i <= j
         IN  [queue  |-> Rotate(q, k - 1),
              buffer |-> Idled(buf, {q[i] : i \in 1..(k - 1)}),
              active |-> q[k]]

\* Mutant: the first entry completes the round.
AnyEntry(buf, joined) == joined # {} /\ \E p \in joined : buf[p] # Blank

\* len(round_buffer) == len(players) > 0
Complete(buf, joined) == joined # {} /\ \A p \in joined : buf[p] # Blank
=============================================================================
