------------------------------ MODULE Budgets ------------------------------
(***************************************************************************)
(* A sliding window of recorded uses for each key: WindowBudget            *)
(* (api/admission.py).  The gateway keeps four: failed logins of a source, *)
(* failed logins of everybody, messages and journal requests of a client.  *)
(***************************************************************************)
EXTENDS Integers, Sequences, SequencesExt, FiniteSets

CONSTANTS
    BudgetKeys,   \* sources, or clients
    Capacity,     \* uses of one key in a window
    Seconds,      \* length of the window
    MaxKeys,      \* keys kept; 4096 in the code, 1 for the failures of everybody
    MaxTime,      \* bound: the clock
    MaxUses       \* bound: uses recorded

ASSUME BudgetAssumption ==
    /\ Capacity \in Nat \ {0} /\ Seconds \in Nat \ {0} /\ MaxKeys \in Nat \ {0}
    /\ MaxTime \in Nat /\ MaxUses \in Nat

VARIABLES
    now,        \* monotonic()
    records,    \* the keys kept, the least recently recorded first
    times,      \* the recorded times of each key, oldest first; none for a key not kept
    uses        \* every use ever recorded, and whether it took a place in its window

budgetVars == <<now, records, times, uses>>

BudgetTypeOK ==
    /\ now \in 0..MaxTime
    /\ records \in Seq(BudgetKeys)
    /\ times \in [BudgetKeys -> Seq(Nat)]
    /\ uses \in Seq([key : BudgetKeys, time : Nat, taken : BOOLEAN])

BudgetInit ==
    /\ now = 0 /\ records = <<>> /\ uses = <<>>
    /\ times = [k \in BudgetKeys |-> <<>>]

Tick == now < MaxTime /\ now' = now + 1 /\ UNCHANGED <<records, times, uses>>

\* Mutant: a use that is exactly one window old still counts.
OutsideLate(t) == t < now - Seconds
Outside(t) == t <= now - Seconds

\* Times are pruned from the oldest on, up to the first inside the window.
Pruned(ts) ==
    LET inside == {i \in DOMAIN ts : ~Outside(ts[i])}
    IN  IF inside = {} THEN <<>>
        ELSE LET first == CHOOSE i \in inside : \A j \in inside : i <= j
             IN  SubSeq(ts, first, Len(ts))
TimesOf(k) == Pruned(times[k])
IsBlocked(k) == Len(TimesOf(k)) >= Capacity

\* blocked, which prunes what it reads.
Ask(k) == times' = [times EXCEPT ![k] = TimesOf(k)] /\ UNCHANGED <<now, records, uses>>

\* The order of the keys once k is the newest.
WithNewest(k) ==
    IF \E i \in DOMAIN records : records[i] = k
    THEN Append(RemoveAt(records, CHOOSE i \in DOMAIN records : records[i] = k), k)
    ELSE Append(records, k)

\* record: a full window is not extended, and the oldest key gives way.
Record(k) ==
    /\ Len(uses) < MaxUses
    /\ LET order == WithNewest(k)
           full == Len(order) > MaxKeys
       IN /\ records' = IF full THEN Tail(order) ELSE order
          /\ times' = [x \in BudgetKeys |->
                          IF x = k THEN IF IsBlocked(k) THEN TimesOf(k)
                                        ELSE Append(TimesOf(k), now)
                          ELSE IF full /\ x = order[1] THEN <<>>
                          ELSE times[x]]
    /\ uses' = Append(uses, [key |-> k, time |-> now, taken |-> ~IsBlocked(k)])
    /\ UNCHANGED now

\* accept: a message is let through and recorded, or refused and not recorded.
Accept(k) == IF IsBlocked(k) THEN Ask(k) ELSE Record(k)

\* retry_after
RetryAfter(k) == IF IsBlocked(k) THEN TimesOf(k)[1] + Seconds - now ELSE 0

BudgetNext == Tick \/ \E k \in BudgetKeys : Ask(k) \/ Record(k) \/ Accept(k)

BudgetSpec == BudgetInit /\ [][BudgetNext]_budgetVars

-----------------------------------------------------------------------------
(* What a budget promises, told from the uses alone *)

\* The keys of the uses us after the i-th, up to the j-th.
UsedIn(us, i, j) == {us[n].key : n \in (i + 1)..j}

\* A use is remembered until MaxKeys other keys have been used without k in between.
Remembered(k) ==
    {i \in DOMAIN uses :
        /\ uses[i].key = k
        /\ \A m \in i..Len(uses) : \A j \in m..Len(uses) :
              uses[m].key = k /\ k \notin UsedIn(uses, m, j) => Cardinality(UsedIn(uses, m, j)) < MaxKeys}

Counted(k, time) ==
    {i \in Remembered(k) : uses[i].taken /\ uses[i].time > time - Seconds /\ uses[i].time <= time}

\* A key is blocked exactly while its window is full of the uses that took a place, whatever
\* was pruned, refused, reordered or evicted meanwhile; no window is ever overfull; refused
\* uses never prolong a block; and retry_after names the moment the block ends.
BudgetIsExact ==
    \A k \in BudgetKeys :
        /\ IsBlocked(k) <=> Cardinality(Counted(k, now)) >= Capacity
        /\ \A time \in 0..now : Cardinality(Counted(k, time)) <= Capacity
        /\ IsBlocked(k) =>
              \A wait \in 0..Seconds :
                  Cardinality(Counted(k, now) \cap Counted(k, now + wait)) < Capacity
                     <=> wait >= RetryAfter(k)
=============================================================================
