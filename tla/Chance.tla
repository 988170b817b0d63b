------------------------------- MODULE Chance -------------------------------
(***************************************************************************)
(* What one dice plan authorizes: the trigger pass and plan_dice           *)
(* (logic/llm_manager.py), the normalization of chance rules and events    *)
(* (logic/dice.py), of private sources (logic/llm/validation.py) and the   *)
(* audit that classifies them (logic/llm/auditing.py).                     *)
(*                                                                         *)
(* The provider answers anything its schemas allow.  A private rule is the *)
(* structured one of the host: freeform guidance cannot hold a percentage. *)
(* Names are compared as the code compares them, case folded.              *)
(***************************************************************************)
EXTENDS Integers, Sequences, SequencesExt, FiniteSets

CONSTANTS
    Names,        \* names the provider may write
    Parties,      \* the participants of a round, in order
    Reserved,     \* names that read as "round", "this round", ...
    Rules,        \* the rules tried: cadence, scope, whether eligibility is stated, percentage
    MaxAnswer,    \* bound: occurrences in one answer
    Repairs       \* settings.llm.max_retries

Shared == "shared"
NoRule == [cadence |-> "none", scope |-> "shared", eligibility |-> FALSE, percent |-> 0]
Words == Names \cup {Shared}
Answers == SeqOf(Words, MaxAnswer)

ASSUME ChanceAssumption ==
    /\ Rules \subseteq [cadence : {"per_round", "condition"}, scope : {"shared", "per_player"},
                        eligibility : BOOLEAN, percent : 0..100]
    /\ Shared \notin Names
    /\ \A p \in Parties : p \in Seq(Names) /\ IsInjective(p)
    /\ MaxAnswer \in Nat /\ Repairs \in Nat

VARIABLES
    party,     \* the participants of this round
    rule,      \* the rule of the game, or NoRule
    plan,      \* where the plan stands and what it has established
    repairs    \* answers refused

chanceVars == <<party, rule, plan, repairs>>

Event == [percent : 0..100, trigger : {"per_round", "condition"}, about : Words]
NoPlan == [step |-> "triggers", matched |-> <<>>, rolls |-> {}, hidden |-> {}, events |-> <<>>]

ChanceTypeOK ==
    /\ party \in Parties /\ rule \in Rules \cup {NoRule}
    /\ plan \in [step : {"triggers", "dice", "planned", "failed"}, matched : Seq(Words),
                 rolls : SUBSET Names, hidden : SUBSET Names, events : Seq(Event)]
    /\ repairs \in 0..Repairs

ChanceInit ==
    /\ party \in Parties /\ rule \in Rules \cup {NoRule}
    /\ plan = NoPlan /\ repairs = 0

-----------------------------------------------------------------------------
(* The trigger pass *)

Unconditional == rule.cadence = "per_round" /\ ~rule.eligibility

\* The first of each occurrence that is allowed, in the order of the answer.
FirstOf(answer, allowed) ==
    LET first[n \in 0..Len(answer)] ==
            IF n = 0 THEN <<>>
            ELSE IF answer[n] \in allowed \ ToSet(first[n - 1])
            THEN Append(first[n - 1], answer[n]) ELSE first[n - 1]
    IN  first[Len(answer)]

\* Mutant: a name nobody bears is taken as it is written.
MatchedAny(answer) == FirstOf(answer, Names)
\* Exact participants, once each.
Matched(answer) == FirstOf(answer, ToSet(party))

Occurrences(answer) ==
    IF rule.scope = "per_player" THEN Matched(answer)
    ELSE IF \E w \in ToSet(answer) : w = Shared \/ w \in ToSet(party) THEN <<Shared>> ELSE <<>>

\* _plan_chance_triggers: a rule for every round, without eligibility, asks nothing.
FindTriggers(answer) ==
    /\ plan.step = "triggers"
    /\ \/ rule = NoRule /\ answer = <<>> /\ plan' = [plan EXCEPT !.step = "dice"]
       \/ /\ rule # NoRule
          /\ Unconditional => answer = <<>>
          /\ plan' = [plan EXCEPT !.step = "dice", !.matched =
                IF ~Unconditional THEN Occurrences(answer)
                ELSE IF rule.scope = "per_player" THEN party ELSE <<Shared>>]
    /\ UNCHANGED <<party, rule, repairs>>

-----------------------------------------------------------------------------
(* The dice plan *)

\* chance_events_from_decision refuses an occurrence that reads as the round itself.
Speakable(occurrences) == ToSet(occurrences) \cap Reserved = {}

\* Its occurrences are matched against the participants once more.
Events == LET occurrences == Occurrences(plan.matched)
          IN [i \in DOMAIN occurrences |->
                 [percent |-> rule.percent, trigger |-> rule.cadence, about |-> occurrences[i]]]

\* _request drops hidden labels of declined checks.
Labels(rolled, hidden) == {i \in DOMAIN hidden : hidden[i] \in rolled}

\* Every participant and nobody else is marked; a hidden name is marked, and is hidden once.
WellFormed(marked, rolled, hidden) ==
    /\ ToSet(hidden) \subseteq marked
    /\ marked = ToSet(party)
    /\ \A i, j \in Labels(rolled, hidden) : hidden[i] = hidden[j] => i = j
    /\ Speakable(Occurrences(plan.matched))

\* An answer marks names, some with a roll and some as hidden, and cites a source for some.
\* A check stays hidden if its source is a line of the host's guidance and the audit confirms
\* that it is the cause.
PlanDice(marked, rolled, hidden, sourced, confirmed) ==
    /\ plan.step = "dice"
    /\ IF WellFormed(marked, rolled, hidden)
       THEN /\ plan' = [plan EXCEPT !.step = "planned", !.events = Events, !.rolls = rolled,
                  !.hidden = {hidden[i] : i \in Labels(rolled, hidden)} \cap sourced \cap confirmed]
            /\ UNCHANGED repairs
       ELSE IF repairs < Repairs
       THEN repairs' = repairs + 1 /\ UNCHANGED plan
       ELSE plan' = [plan EXCEPT !.step = "failed"] /\ UNCHANGED repairs
    /\ UNCHANGED <<party, rule>>

ChanceNext ==
    \/ \E answer \in Answers : FindTriggers(answer)
    \/ \E marked \in SUBSET Names : \E rolled \in SUBSET marked :
       \E hidden \in SeqOf(Names, 2), sourced, confirmed \in SUBSET ToSet(party) :
          PlanDice(marked, rolled, hidden, sourced, confirmed)

ChanceSpec == ChanceInit /\ [][ChanceNext]_chanceVars

\* A planned round rolls exactly what the host's rule and the planner's checks allow: chance
\* only under a rule and at its percentage, about participants, once each, or once for the
\* party; every participant when the rule is for every round; nothing named by a reserved
\* word; and a hidden roll is one of the rolls required.
RollsAreAuthorized ==
    plan.step = "planned" =>
        /\ plan.hidden \subseteq plan.rolls
        /\ plan.events # <<>> => rule # NoRule
        /\ \A e \in ToSet(plan.events) :
              /\ e.percent = rule.percent /\ e.trigger = rule.cadence
              /\ e.about \in (IF rule.scope = "shared" THEN {Shared} ELSE ToSet(party))
              /\ e.about \notin Reserved
        /\ \A i, j \in DOMAIN plan.events :
              plan.events[i].about = plan.events[j].about => i = j
        /\ (rule # NoRule /\ Unconditional) =>
              Len(plan.events) = IF rule.scope = "shared" THEN 1 ELSE Len(party)
=============================================================================
