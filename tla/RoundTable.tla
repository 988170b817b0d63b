----------------------------- MODULE RoundTable -----------------------------
(***************************************************************************)
(* What a session promises its players, without sockets, locks or jobs:    *)
(* members gather before play starts; in a round every member gets exactly *)
(* one entry; a round is resolved only when all have one and is counted    *)
(* once; the end is final.  Session implements this specification.         *)
(***************************************************************************)
EXTENDS Integers

CONSTANT Players

VARIABLES
    stage,     \* "lobby", "acting", "resolving" or "over"
    members,   \* players of the game
    acted,     \* members with an entry in the open round
    played     \* rounds resolved so far

tableVars == <<stage, members, acted, played>>

TableInit ==
    stage = "lobby" /\ members = {} /\ acted = {} /\ played = 0

Gather ==
    /\ stage = "lobby"
    /\ \E p \in Players \ members : members' = members \cup {p}
    /\ UNCHANGED <<stage, acted, played>>

\* A round opens with absent members idled, but never with everyone's entry in place.
Deal == acted' \in (SUBSET members) \ {members}

Open ==
    /\ stage = "lobby"
    /\ stage' = "acting"
    /\ Deal
    /\ UNCHANGED <<members, played>>

\* One member acts, or is idled, and with it any absent members that follow.
Act ==
    /\ stage = "acting"
    /\ \E more \in SUBSET (members \ acted) :
          /\ more # {}
          /\ acted' = acted \cup more
    /\ stage' = IF acted' = members THEN "resolving" ELSE "acting"
    /\ UNCHANGED <<members, played>>

Resolve ==
    /\ stage = "resolving"
    /\ stage' = "acting"
    /\ Deal
    /\ played' = played + 1
    /\ UNCHANGED members

End ==
    /\ stage # "over"
    /\ stage' = "over"
    /\ UNCHANGED <<members, acted, played>>

TableNext == Gather \/ Open \/ Act \/ Resolve \/ End

TableSpec == TableInit /\ [][TableNext]_tableVars
=============================================================================
