----------------------------- MODULE MCChronicle -----------------------------
(***************************************************************************)
(* Instances of Chronicle for model checking, and of the two parts of the  *)
(* storyteller that keep a state of their own: the token counts and the    *)
(* dice plan of a round.  They share no state, so a behaviour is one of    *)
(* Chronicle, or of TokenCounts, or of Chance.                             *)
(***************************************************************************)
EXTENDS Chronicle, TokenCounts, Chance

VARIABLE part    \* the part this behaviour is of

MCBytes == [k1 |-> 1, k2 |-> 2, k3 |-> 3]
MCRules == {[cadence |-> "per_round", scope |-> "per_player", eligibility |-> FALSE, percent |-> 30],
            [cadence |-> "per_round", scope |-> "shared", eligibility |-> TRUE, percent |-> 100],
            [cadence |-> "condition", scope |-> "per_player", eligibility |-> FALSE, percent |-> 30],
            [cadence |-> "condition", scope |-> "shared", eligibility |-> TRUE, percent |-> 0]}
MCParties == {<<"ann", "bob">>, <<"bob", "round">>}

TypeOK ==
    /\ ChronicleTypeOK /\ CountsTypeOK /\ ChanceTypeOK
    /\ part \in {"game", "counts", "chance"}

MCInit ==
    /\ ChronicleInit /\ CountsInit
    /\ part \in {"game", "counts", "chance"}
    /\ ChanceInit
    /\ part # "chance" => rule = NoRule /\ party = <<"ann", "bob">>

MCNext ==
    \/ part = "game" /\ ChronicleNext /\ UNCHANGED <<part, countVars, chanceVars>>
    \/ part = "counts" /\ CountsNext /\ UNCHANGED <<part, chronicleVars, chanceVars>>
    \/ part = "chance" /\ ChanceNext /\ UNCHANGED <<part, chronicleVars, countVars>>

MCSpec == MCInit /\ [][MCNext]_<<part, chronicleVars, countVars, chanceVars>>
=============================================================================
