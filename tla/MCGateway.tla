------------------------------ MODULE MCGateway ------------------------------
(***************************************************************************)
(* Instances of Connections and of Budgets for model checking.  The two    *)
(* share no state: whether a budget blocks is a free choice of             *)
(* Connections, so a behaviour is one of either.                           *)
(***************************************************************************)
EXTENDS Connections, Budgets, TLC

VARIABLE part    \* the part this behaviour is of

SocketSymmetry == Permutations(Sockets)

TypeOK == ConnectionsTypeOK /\ BudgetTypeOK /\ part \in {"sockets", "budget"}

MCInit == ConnectionsInit /\ BudgetInit /\ part \in {"sockets", "budget"}

MCNext ==
    \/ part = "sockets" /\ ConnectionsNext /\ UNCHANGED <<part, budgetVars>>
    \/ part = "budget" /\ BudgetNext /\ UNCHANGED <<part, connectionVars>>

MCSpec == MCInit /\ [][MCNext]_<<part, connectionVars, budgetVars>>
=============================================================================
