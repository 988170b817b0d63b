---------------------------- MODULE BudgetProofs ----------------------------
(***************************************************************************)
(* Proofs about Budgets, for any number of keys, any window and capacity:  *)
(* the times a budget keeps are those of the uses its window counts,       *)
(* whatever was pruned, refused, moved or evicted meanwhile.               *)
(***************************************************************************)
EXTENDS MCGateway, ConnectionsProofs, FiniteSetTheorems, SequenceTheorems, WellFoundedInduction, TLAPS

-----------------------------------------------------------------------------
(* The inductive invariant, in parts *)

\* The last use of k in us is the m-th.
IsLast(us, k, m) == m \in DOMAIN us /\ us[m].key = k /\ k \notin UsedIn(us, m, Len(us))

Later(s, p) == {s[q] : q \in (p + 1)..Len(s)}

\* The keys s are in the order of their last uses, and no other key was used in between.
ByLastUse(s, us) ==
    \A p \in DOMAIN s : \E m \in DOMAIN us :
        IsLast(us, s[p], m) /\ UsedIn(us, m, Len(us)) = Later(s, p)

LeastRecentFirst == Len(records) <= MaxKeys /\ ByLastUse(records, uses)

IsKept(k) == \E p \in DOMAIN records : records[p] = k
EvictedAreForgotten ==
    \A k \in BudgetKeys : ~IsKept(k) => times[k] = <<>> /\ Remembered(k) = {}

ClockAscends ==
    /\ \A i \in DOMAIN uses : uses[i].time <= now
    /\ \A i, j \in DOMAIN uses : i <= j => uses[i].time <= uses[j].time

\* ts are the times of the remembered uses of k that took a place, those outside left out.
Lists(k, ts, of) ==
    /\ \A p \in DOMAIN ts :
          of[p] \in Remembered(k) /\ uses[of[p]].taken /\ uses[of[p]].time = ts[p]
    /\ \A p, q \in DOMAIN ts : p < q => of[p] < of[q]
    /\ \A i \in Remembered(k) : uses[i].taken /\ ~Outside(uses[i].time) =>
          \E p \in DOMAIN ts : of[p] = i

TimesAreListed ==
    \A k \in BudgetKeys : \E of \in [DOMAIN times[k] -> DOMAIN uses] : Lists(k, times[k], of)

NeverOverfull ==
    \A k \in BudgetKeys : \A time \in 0..now : Cardinality(Counted(k, time)) <= Capacity

BudgetInv ==
    /\ BudgetTypeOK /\ LeastRecentFirst /\ EvictedAreForgotten /\ ClockAscends
    /\ TimesAreListed /\ NeverOverfull

-----------------------------------------------------------------------------
(* Lists of numbers and of times *)

\* The length of a list without repetitions is the number of its elements.
LEMMA AsManyAsPlaces ==
    ASSUME NEW n \in Nat, NEW f, DOMAIN f = 1..n, \A p, q \in 1..n : p < q => f[p] # f[q]
    PROVE  LET elements == {f[p] : p \in 1..n}
           IN  IsFiniteSet(elements) /\ Cardinality(elements) = n
<1> DEFINE elements == {f[p] : p \in 1..n}
           g == [p \in 1..n |-> f[p]]
<1>1. g \in Bijection(1..n, elements)
  <2>1. g \in [1..n -> elements]
    OBVIOUS
  <2>2. \A p, q \in 1..n : g[p] = g[q] => p = q
    <3> TAKE p \in 1..n, q \in 1..n
    <3>1. p < q \/ p = q \/ q < p
      OBVIOUS
    <3> QED
      BY <3>1
  <2>3. \A e \in elements : \E p \in 1..n : g[p] = e
    OBVIOUS
  <2> QED
    BY <2>1, <2>2, <2>3 DEF Bijection, Injection, Surjection, IsInjective
<1>2. ExistsBijection(1..n, elements)
  BY <1>1 DEF ExistsBijection
<1>3. IsFiniteSet(1..n) /\ Cardinality(1..n) = n
  BY FS_Interval
<1> QED
  BY <1>2, <1>3, FS_Bijection

\* Pruning leaves the times inside the window, in their order.
LEMMA PrunedIsSuffix ==
    ASSUME now \in Nat, Seconds \in Nat, NEW ts \in Seq(Nat),
           \A p, q \in DOMAIN ts : p <= q => ts[p] <= ts[q]
    PROVE  /\ Pruned(ts) \in Seq(Nat)
           /\ \E d \in 0..Len(ts) :
                 /\ Len(Pruned(ts)) = Len(ts) - d
                 /\ \A p \in 1..(Len(ts) - d) : Pruned(ts)[p] = ts[p + d] /\ ~Outside(ts[p + d])
                 /\ \A p \in 1..d : Outside(ts[p])
<1> DEFINE inside == {i \in DOMAIN ts : ~Outside(ts[i])}
           first == CHOOSE i \in inside : \A j \in inside : i <= j
<1>1. CASE inside = {}
  <2>1. Pruned(ts) = <<>>
    BY <1>1 DEF Pruned
  <2>2. \A p \in 1..Len(ts) : Outside(ts[p])
    BY <1>1
  <2>3. <<>> \in Seq(Nat) /\ Len(<<>>) = 0
    OBVIOUS
  <2>4. Len(ts) \in 0..Len(ts) /\ Len(ts) - Len(ts) = 0
    OBVIOUS
  <2> HIDE DEF inside, first
  <2> QED
    BY <2>1, <2>2, <2>3, <2>4
<1>2. CASE inside # {}
  <2>1. inside \subseteq Nat
    OBVIOUS
  <2> DEFINE less == OpToRel(<, Nat)
  <2>2. IsWellFoundedOn(less, Nat)
    BY NatLessThanWellFounded
  <2>3. \A i, j \in Nat : i < j => <<i, j>> \in less
    BY DEF OpToRel
  <2> HIDE DEF less, inside
  <2>4. PICK least \in inside : \A j \in inside : ~(<<j, least>> \in less)
    BY <1>2, <2>1, <2>2, WFMin
  <2>5. ASSUME NEW j \in inside PROVE least <= j
    <3>1. j \in Nat /\ least \in Nat /\ ~(<<j, least>> \in less)
      BY <2>1, <2>4
    <3> QED
      BY <2>3, <3>1
  <2>6. first \in inside /\ \A j \in inside : first <= j
    BY <2>4, <2>5
  <2>7. Pruned(ts) = SubSeq(ts, first, Len(ts))
    BY <1>2 DEF Pruned, inside
  <2> HIDE DEF first
  <2> USE DEF inside
  <2>8. first \in 1..Len(ts) /\ ~Outside(ts[first])
    BY <2>6
  <2> DEFINE d == first - 1
  <2>9. d \in 0..Len(ts) /\ first + (Len(ts) - d) - 1 = Len(ts)
    BY <2>8
  <2>10. /\ SubSeq(ts, first, Len(ts)) \in Seq(Nat)
         /\ Len(SubSeq(ts, first, Len(ts))) = Len(ts) - first + 1
         /\ \A p \in 1..(Len(ts) - first + 1) : SubSeq(ts, first, Len(ts))[p] = ts[first + p - 1]
    <3>1. first \in Int /\ Len(ts) \in Int /\ \A i \in first..Len(ts) : ts[i] \in Nat
      BY <2>8
    <3>2. first <= Len(ts)
      BY <2>8
    <3> QED
      BY <3>1, <3>2, SubSeqProperties
  <2>11. \A p \in 1..d : Outside(ts[p])
    BY <2>6, <2>8
  <2>12. \A p \in 1..(Len(ts) - d) : ~Outside(ts[p + d])
    <3> TAKE p \in 1..(Len(ts) - d)
    <3>1. p + d \in DOMAIN ts /\ first <= p + d
      BY <2>8
    <3>2. ts[first] <= ts[p + d] /\ ts[first] \in Nat /\ ts[p + d] \in Nat
      BY <2>8, <3>1
    <3> QED
      BY <2>8, <3>2 DEF Outside
  <2>13. /\ Len(Pruned(ts)) = Len(ts) - d
         /\ \A p \in 1..(Len(ts) - d) : Pruned(ts)[p] = ts[p + d] /\ ~Outside(ts[p + d])
    <3>1. Len(ts) - first + 1 = Len(ts) - d
      BY <2>8
    <3>2. \A p \in 1..(Len(ts) - d) : first + p - 1 = p + d
      BY <2>8
    <3> HIDE DEF d
    <3> QED
      BY <2>7, <2>10, <2>12, <3>1, <3>2
  <2> QED
    BY <2>7, <2>9, <2>10, <2>11, <2>13
<1> QED
  BY <1>1, <1>2

-----------------------------------------------------------------------------
(* One more use *)

Use == [key : BudgetKeys, time : Nat, taken : BOOLEAN]

LEMMA UsesBy ==
    ASSUME BudgetTypeOK, NEW u \in Use, uses' = Append(uses, u), NEW n, n = Len(uses)
    PROVE  /\ n \in Nat /\ DOMAIN uses = 1..n /\ DOMAIN uses' = 1..(n + 1) /\ Len(uses') = n + 1
           /\ uses' \in Seq(Use) /\ \A i \in 1..n : uses[i] \in Use
           /\ \A i \in 1..n : uses'[i] = uses[i]
           /\ uses'[n + 1] = u
           /\ \A i \in 1..n, j \in 1..n : UsedIn(uses', i, j) = UsedIn(uses, i, j)
           /\ \A i \in 1..n : UsedIn(uses', i, n + 1) = UsedIn(uses, i, n) \cup {u.key}
           /\ UsedIn(uses', n + 1, n + 1) = {}
<1>1. uses \in Seq(Use) /\ n \in Nat /\ DOMAIN uses = 1..n /\ \A i \in 1..n : uses[i] \in Use
  <2>1. uses \in Seq(Use)
    BY DEF BudgetTypeOK, Use
  <2> QED
    BY <2>1
<1>2. /\ uses' \in Seq(Use) /\ Len(uses') = n + 1 /\ DOMAIN uses' = 1..(n + 1)
      /\ \A i \in 1..n : uses'[i] = uses[i]
      /\ uses'[n + 1] = u
  BY <1>1, AppendProperties
<1>3. ASSUME NEW i \in 1..n, NEW j \in 1..n PROVE UsedIn(uses', i, j) = UsedIn(uses, i, j)
  <2>1. \A m \in (i + 1)..j : uses'[m] = uses[m]
    BY <1>1, <1>2
  <2> QED
    BY <2>1 DEF UsedIn
<1>4. ASSUME NEW i \in 1..n PROVE UsedIn(uses', i, n + 1) = UsedIn(uses, i, n) \cup {u.key}
  <2>1. \A m \in (i + 1)..n : uses'[m] = uses[m]
    BY <1>1, <1>2
  <2>2. (i + 1)..(n + 1) = ((i + 1)..n) \cup {n + 1}
    BY <1>1
  <2> QED
    BY <1>2, <2>1, <2>2 DEF UsedIn
<1>5. UsedIn(uses', n + 1, n + 1) = {}
  BY <1>1 DEF UsedIn
<1> QED
  BY <1>1, <1>2, <1>3, <1>4, <1>5

\* What keys were used after a use is a finite set.
LEMMA UsedIsFinite ==
    ASSUME NEW us, NEW i \in Nat, NEW j \in Nat
    PROVE  IsFiniteSet(UsedIn(us, i, j)) /\ Cardinality(UsedIn(us, i, j)) \in Nat
<1>1. IsFiniteSet((i + 1)..j)
  BY FS_Interval
<1>2. IsFiniteSet({us[m].key : m \in (i + 1)..j})
  <2> DEFINE T == {us[n].key : n \in (i + 1)..j}
             f == [n \in (i + 1)..j |-> us[n].key]
  <2>1. f \in Surjection((i + 1)..j, T)
    BY DEF Surjection
  <2> QED
    BY <1>1, <2>1, FS_Surjection
<1> QED
  BY <1>2, FS_CardinalityType DEF UsedIn

\* A new use of a key is remembered, and its earlier ones as before.
LEMMA RememberedOfKey ==
    ASSUME BudgetTypeOK, BudgetAssumption, NEW u \in Use, uses' = Append(uses, u)
    PROVE  Remembered(u.key)' = Remembered(u.key) \cup {Len(uses) + 1}
<1> DEFINE n == Len(uses)
           k == u.key
<1>1. /\ n \in Nat /\ DOMAIN uses = 1..n /\ DOMAIN uses' = 1..(n + 1) /\ Len(uses') = n + 1
      /\ \A i \in 1..n : uses'[i] = uses[i]
      /\ uses'[n + 1] = u
      /\ \A i \in 1..n, j \in 1..n : UsedIn(uses', i, j) = UsedIn(uses, i, j)
      /\ \A i \in 1..n : UsedIn(uses', i, n + 1) = UsedIn(uses, i, n) \cup {u.key}
      /\ UsedIn(uses', n + 1, n + 1) = {}
  BY UsesBy
<1>2. Cardinality({}) < MaxKeys
  BY FS_EmptySet DEF BudgetAssumption
<1> HIDE DEF n, k
<1> DEFINE Kept(i) == \A m \in i..n : \A j \in m..n :
              uses[m].key = k /\ k \notin UsedIn(uses, m, j) => Cardinality(UsedIn(uses, m, j)) < MaxKeys
           KeptNow(i) == \A m \in i..(n + 1) : \A j \in m..(n + 1) :
              uses'[m].key = k /\ k \notin UsedIn(uses', m, j) => Cardinality(UsedIn(uses', m, j)) < MaxKeys
<1>3. ASSUME NEW i \in 1..n PROVE Kept(i) <=> KeptNow(i)
  <2>1. ASSUME Kept(i), NEW m \in i..(n + 1), NEW j \in m..(n + 1),
               uses'[m].key = k, k \notin UsedIn(uses', m, j)
        PROVE  Cardinality(UsedIn(uses', m, j)) < MaxKeys
    <3>1. CASE m = n + 1
      <4>1. j = n + 1
        BY <1>1, <3>1
      <4> QED
        BY <1>1, <1>2, <3>1, <4>1
    <3>2. CASE m # n + 1 /\ j = n + 1
      <4>1. m \in 1..n
        BY <1>1, <3>2
      <4> QED
        BY <1>1, <2>1, <3>2, <4>1 DEF k
    <3>3. CASE m # n + 1 /\ j # n + 1
      <4>1. m \in i..n /\ j \in m..n /\ m \in 1..n /\ j \in 1..n
        BY <1>1, <3>3
      <4>2. UsedIn(uses', m, j) = UsedIn(uses, m, j) /\ uses'[m] = uses[m]
        BY <1>1, <4>1
      <4> QED
        BY <2>1, <4>1, <4>2
    <3> QED
      BY <3>1, <3>2, <3>3
  <2>2. ASSUME KeptNow(i), NEW m \in i..n, NEW j \in m..n,
               uses[m].key = k, k \notin UsedIn(uses, m, j)
        PROVE  Cardinality(UsedIn(uses, m, j)) < MaxKeys
    <3>1. m \in i..(n + 1) /\ j \in m..(n + 1) /\ m \in 1..n /\ j \in 1..n
      BY <1>1
    <3>2. UsedIn(uses', m, j) = UsedIn(uses, m, j) /\ uses'[m] = uses[m]
      BY <1>1, <3>1
    <3> QED
      BY <2>2, <3>1, <3>2
  <2> QED
    BY <2>1, <2>2
<1>4. KeptNow(n + 1)
  <2> SUFFICES ASSUME NEW m \in (n + 1)..(n + 1), NEW j \in m..(n + 1)
               PROVE  Cardinality(UsedIn(uses', m, j)) < MaxKeys
    OBVIOUS
  <2>1. m = n + 1 /\ j = n + 1
    BY <1>1
  <2> QED
    BY <1>1, <1>2, <2>1
<1>5. Remembered(k) = {i \in 1..n : uses[i].key = k /\ Kept(i)}
  BY <1>1 DEF Remembered, n
<1>6. Remembered(k)' = {i \in 1..(n + 1) : uses'[i].key = k /\ KeptNow(i)}
  <2>1. Len(uses') = n + 1
    BY <1>1
  <2> QED
    BY <1>1, <2>1 DEF Remembered
<1> HIDE DEF Kept, KeptNow
<1>7. \A i \in 1..n : uses'[i].key = uses[i].key
  BY <1>1
<1>8. uses'[n + 1].key = k
  BY <1>1 DEF k
<1>9. 1..(n + 1) = (1..n) \cup {n + 1}
  BY <1>1
<1>10. Remembered(k)' = Remembered(k) \cup {n + 1}
  BY <1>3, <1>4, <1>5, <1>6, <1>7, <1>8, <1>9
<1> QED
  BY <1>10 DEF n, k

\* The uses of another key are remembered as long as its last use is.
LEMMA RememberedOfOthers ==
    ASSUME BudgetTypeOK, NEW u \in Use, uses' = Append(uses, u), NEW k \in BudgetKeys, k # u.key
    PROVE  /\ Remembered(k)' \subseteq Remembered(k)
           /\ \A last \in DOMAIN uses : IsLast(uses, k, last) =>
                 IF Cardinality(UsedIn(uses, last, Len(uses)) \cup {u.key}) < MaxKeys
                 THEN Remembered(k)' = Remembered(k) ELSE Remembered(k)' = {}
<1> DEFINE n == Len(uses)
<1>1. /\ n \in Nat /\ DOMAIN uses = 1..n /\ DOMAIN uses' = 1..(n + 1) /\ Len(uses') = n + 1
      /\ \A i \in 1..n : uses'[i] = uses[i]
      /\ uses'[n + 1] = u
      /\ \A i \in 1..n, j \in 1..n : UsedIn(uses', i, j) = UsedIn(uses, i, j)
      /\ \A i \in 1..n : UsedIn(uses', i, n + 1) = UsedIn(uses, i, n) \cup {u.key}
      /\ UsedIn(uses', n + 1, n + 1) = {}
  BY UsesBy
<1> HIDE DEF n
<1> DEFINE Kept(i) == \A m \in i..n : \A j \in m..n :
              uses[m].key = k /\ k \notin UsedIn(uses, m, j) => Cardinality(UsedIn(uses, m, j)) < MaxKeys
           KeptNow(i) == \A m \in i..(n + 1) : \A j \in m..(n + 1) :
              uses'[m].key = k /\ k \notin UsedIn(uses', m, j) => Cardinality(UsedIn(uses', m, j)) < MaxKeys
           Few == \A m \in 1..n : IsLast(uses, k, m) => Cardinality(UsedIn(uses, m, n) \cup {u.key}) < MaxKeys
<1>2. ASSUME NEW i \in 1..n, KeptNow(i) PROVE Kept(i)
  <2> SUFFICES ASSUME NEW m \in i..n, NEW j \in m..n, uses[m].key = k, k \notin UsedIn(uses, m, j)
               PROVE  Cardinality(UsedIn(uses, m, j)) < MaxKeys
    OBVIOUS
  <2>1. m \in i..(n + 1) /\ j \in m..(n + 1) /\ m \in 1..n /\ j \in 1..n
    BY <1>1
  <2>2. UsedIn(uses', m, j) = UsedIn(uses, m, j) /\ uses'[m] = uses[m]
    BY <1>1, <2>1
  <2> QED
    BY <1>2, <2>1, <2>2
<1>3. ASSUME NEW i \in 1..n, Kept(i), Few PROVE KeptNow(i)
  <2> SUFFICES ASSUME NEW m \in i..(n + 1), NEW j \in m..(n + 1),
                      uses'[m].key = k, k \notin UsedIn(uses', m, j)
               PROVE  Cardinality(UsedIn(uses', m, j)) < MaxKeys
    OBVIOUS
  <2>1. m \in 1..n
    BY <1>1
  <2>2. CASE j = n + 1
    <3>1. UsedIn(uses', m, j) = UsedIn(uses, m, n) \cup {u.key} /\ uses[m].key = k
      BY <1>1, <2>1, <2>2
    <3>2. IsLast(uses, k, m)
      BY <1>1, <2>1, <3>1 DEF IsLast, n
    <3> QED
      BY <1>3, <2>1, <3>1, <3>2
  <2>3. CASE j # n + 1
    <3>1. m \in i..n /\ j \in m..n /\ j \in 1..n
      BY <1>1, <2>1, <2>3
    <3>2. UsedIn(uses', m, j) = UsedIn(uses, m, j) /\ uses'[m] = uses[m]
      BY <1>1, <2>1, <3>1
    <3> QED
      BY <1>3, <3>1, <3>2
  <2> QED
    BY <2>2, <2>3
<1>4. ASSUME NEW i \in 1..n, uses[i].key = k, KeptNow(i), NEW last \in 1..n, IsLast(uses, k, last)
      PROVE  Cardinality(UsedIn(uses, last, n) \cup {u.key}) < MaxKeys
  <2>1. i <= last
    <3> SUFFICES ASSUME last < i PROVE FALSE
      BY <1>1
    <3>1. i \in (last + 1)..n
      BY <1>1
    <3> QED
      BY <1>4, <3>1 DEF IsLast, UsedIn, n
  <2>2. last \in i..(n + 1) /\ n + 1 \in last..(n + 1)
    BY <1>1, <2>1
  <2>3. UsedIn(uses', last, n + 1) = UsedIn(uses, last, n) \cup {u.key} /\ uses'[last].key = k
    BY <1>1, <1>4 DEF IsLast
  <2>4. k \notin UsedIn(uses', last, n + 1)
    BY <1>4, <2>3 DEF IsLast, n
  <2> QED
    BY <1>4, <2>2, <2>3, <2>4
<1>5. Remembered(k) = {i \in 1..n : uses[i].key = k /\ Kept(i)}
  BY <1>1 DEF Remembered, n
<1>6. Remembered(k)' = {i \in 1..(n + 1) : uses'[i].key = k /\ KeptNow(i)}
  <2>1. Len(uses') = n + 1
    BY <1>1
  <2> QED
    BY <1>1, <2>1 DEF Remembered
<1> HIDE DEF Kept, KeptNow
<1>7. \A i \in 1..n : uses'[i].key = uses[i].key
  BY <1>1
<1>8. uses'[n + 1].key # k
  BY <1>1
<1>9. Remembered(k)' = {i \in 1..n : uses[i].key = k /\ KeptNow(i)}
  BY <1>1, <1>6, <1>7, <1>8
<1>10. Remembered(k)' \subseteq Remembered(k)
  BY <1>2, <1>5, <1>9
<1>11. ASSUME NEW last \in 1..n, IsLast(uses, k, last)
       PROVE  IF Cardinality(UsedIn(uses, last, n) \cup {u.key}) < MaxKeys
              THEN Remembered(k)' = Remembered(k) ELSE Remembered(k)' = {}
  <2>1. CASE Cardinality(UsedIn(uses, last, n) \cup {u.key}) < MaxKeys
    <3>1. ASSUME NEW m \in 1..n, IsLast(uses, k, m) PROVE m = last
      <4>1. m < last \/ m = last \/ last < m
        BY <1>1
      <4>2. ~(m < last)
        BY <1>1, <1>11, <3>1 DEF IsLast, UsedIn, n
      <4>3. ~(last < m)
        BY <1>1, <1>11, <3>1 DEF IsLast, UsedIn, n
      <4> QED
        BY <4>1, <4>2, <4>3
    <3>2. Few
      BY <2>1, <3>1
    <3> QED
      BY <1>2, <1>3, <1>5, <1>9, <2>1, <3>2
  <2>2. CASE ~(Cardinality(UsedIn(uses, last, n) \cup {u.key}) < MaxKeys)
    <3>1. \A i \in 1..n : ~(uses[i].key = k /\ KeptNow(i))
      BY <1>4, <1>11, <2>2
    <3> QED
      BY <1>9, <2>2, <3>1
  <2> QED
    BY <2>1, <2>2
<1> QED
  BY <1>1, <1>10, <1>11 DEF n

-----------------------------------------------------------------------------
(* The order of the keys *)

LEMMA KeysAreDistinct ==
    ASSUME NEW K, NEW s \in Seq(K), NEW us, ByLastUse(s, us)
    PROVE  \A p, q \in 1..Len(s) : p < q => s[p] # s[q]
<1> TAKE p \in 1..Len(s), q \in 1..Len(s)
<1> HAVE p < q
<1>1. PICK m \in DOMAIN us : IsLast(us, s[p], m) /\ UsedIn(us, m, Len(us)) = Later(s, p)
  BY DEF ByLastUse
<1>2. q \in (p + 1)..Len(s)
  OBVIOUS
<1>3. s[q] \in Later(s, p)
  BY <1>2 DEF Later
<1> QED
  BY <1>1, <1>3 DEF IsLast

LEMMA KeysLater ==
    ASSUME NEW K, NEW s \in Seq(K), NEW us, ByLastUse(s, us), NEW p \in 0..Len(s)
    PROVE  IsFiniteSet(Later(s, p)) /\ Cardinality(Later(s, p)) = Len(s) - p
<1> DEFINE n == Len(s) - p
           f == [i \in 1..n |-> s[p + i]]
<1>1. n \in Nat
  OBVIOUS
<1>2. \A i, j \in 1..n : i < j => f[i] # f[j]
  <2> TAKE i \in 1..n, j \in 1..n
  <2> HAVE i < j
  <2>1. p + i \in 1..Len(s) /\ p + j \in 1..Len(s) /\ p + i < p + j
    OBVIOUS
  <2> QED
    BY <2>1, KeysAreDistinct
<1>3. Later(s, p) = {f[i] : i \in 1..n}
  <2>1. ASSUME NEW q \in (p + 1)..Len(s) PROVE \E i \in 1..n : s[q] = f[i]
    <3>1. q - p \in 1..n /\ p + (q - p) = q
      OBVIOUS
    <3> QED
      BY <3>1
  <2>2. \A i \in 1..n : p + i \in (p + 1)..Len(s) /\ f[i] = s[p + i]
    OBVIOUS
  <2> HIDE DEF f, n
  <2>3. Later(s, p) \subseteq {f[i] : i \in 1..n}
    BY <2>1 DEF Later
  <2>4. {f[i] : i \in 1..n} \subseteq Later(s, p)
    BY <2>2 DEF Later
  <2> QED
    BY <2>3, <2>4
<1>4. DOMAIN f = 1..n
  OBVIOUS
<1> HIDE DEF f, n
<1>5. IsFiniteSet({f[i] : i \in 1..n}) /\ Cardinality({f[i] : i \in 1..n}) = n
  BY <1>1, <1>2, <1>4, AsManyAsPlaces
<1> QED
  BY <1>3, <1>5 DEF n

\* What WithNewest does: the key moves behind the others, which keep their order.
LEMMA NewestIs ==
    ASSUME BudgetTypeOK, NEW k \in BudgetKeys
    PROVE  LET order == WithNewest(k)
               n == Len(records)
           IN  /\ order \in Seq(BudgetKeys) /\ n \in Nat
               /\ \/ /\ \A p \in 1..n : records[p] # k
                     /\ Len(order) = n + 1 /\ order[n + 1] = k
                     /\ \A p \in 1..n : order[p] = records[p]
                  \/ /\ Len(order) = n /\ order[n] = k
                     /\ \E a \in 1..n :
                           /\ records[a] = k
                           /\ \A p \in 1..(n - 1) :
                                 order[p] = IF p < a THEN records[p] ELSE records[p + 1]
<1> DEFINE order == WithNewest(k)
           n == Len(records)
<1>1. records \in Seq(BudgetKeys) /\ n \in Nat /\ DOMAIN records = 1..n
  BY DEF BudgetTypeOK
<1>2. CASE \E i \in DOMAIN records : records[i] = k
  <2> DEFINE a == CHOOSE i \in DOMAIN records : records[i] = k
             left == SubSeq(records, 1, a - 1)
             right == SubSeq(records, a + 1, n)
  <2>1. a \in 1..n /\ records[a] = k
    BY <1>1, <1>2
  <2>2. order = Append(left \o right, k)
    BY <1>2 DEF WithNewest, RemoveAt
  <2> HIDE DEF a
  <2>3. /\ left \in Seq(BudgetKeys) /\ Len(left) = a - 1
        /\ \A p \in 1..(a - 1) : left[p] = records[p]
    <3>1. 1 \in Int /\ a - 1 \in Int /\ \A i \in 1..(a - 1) : records[i] \in BudgetKeys
      BY <1>1, <2>1
    <3>2. /\ left \in Seq(BudgetKeys)
          /\ Len(left) = IF 1 <= a - 1 THEN a - 1 - 1 + 1 ELSE 0
          /\ \A p \in 1..(a - 1 - 1 + 1) : left[p] = records[1 + p - 1]
      BY <3>1, SubSeqProperties
    <3>3. a - 1 - 1 + 1 = a - 1 /\ \A p \in 1..(a - 1) : 1 + p - 1 = p
      BY <2>1
    <3> HIDE DEF left
    <3>4. Len(left) = a - 1
      BY <2>1, <3>2
    <3> QED
      BY <3>2, <3>3, <3>4
  <2>4. /\ right \in Seq(BudgetKeys) /\ Len(right) = n - a
        /\ \A p \in 1..(n - a) : right[p] = records[a + p]
    <3>1. a + 1 \in Int /\ n \in Int /\ \A i \in (a + 1)..n : records[i] \in BudgetKeys
      BY <1>1, <2>1
    <3>2. /\ right \in Seq(BudgetKeys)
          /\ Len(right) = IF a + 1 <= n THEN n - (a + 1) + 1 ELSE 0
          /\ \A p \in 1..(n - (a + 1) + 1) : right[p] = records[(a + 1) + p - 1]
      BY <3>1, SubSeqProperties
    <3>3. n - (a + 1) + 1 = n - a /\ \A p \in 1..(n - a) : (a + 1) + p - 1 = a + p
      BY <1>1, <2>1
    <3> HIDE DEF right
    <3>4. Len(right) = n - a
      <4>1. CASE a + 1 <= n
        BY <3>2, <3>3, <4>1
      <4>2. CASE ~(a + 1 <= n)
        <5>1. a \in Int /\ n \in Int /\ a <= n
          BY <1>1, <2>1
        <5>2. n - a = 0
          BY <4>2, <5>1
        <5>3. Len(right) = 0
          BY <3>2, <4>2
        <5> QED
          BY <5>2, <5>3
      <4> QED
        BY <4>1, <4>2
    <3> QED
      BY <3>2, <3>3, <3>4
  <2> HIDE DEF left, right
  <2> DEFINE both == left \o right
  <2>5. /\ both \in Seq(BudgetKeys) /\ Len(both) = n - 1
        /\ \A p \in 1..(n - 1) : both[p] = IF p < a THEN records[p] ELSE records[p + 1]
    <3>1. /\ both \in Seq(BudgetKeys) /\ Len(both) = Len(left) + Len(right)
          /\ \A p \in 1..(Len(left) + Len(right)) :
                both[p] = IF p <= Len(left) THEN left[p] ELSE right[p - Len(left)]
      BY <2>3, <2>4, ConcatProperties
    <3> HIDE DEF both
    <3>2. ASSUME NEW p \in 1..(n - 1)
          PROVE  both[p] = IF p < a THEN records[p] ELSE records[p + 1]
      <4>1. CASE p < a
        <5>1. p \in 1..(a - 1) /\ p \in 1..(Len(left) + Len(right)) /\ p <= Len(left)
          BY <1>1, <2>1, <2>3, <2>4, <4>1
        <5> QED
          BY <2>3, <3>1, <4>1, <5>1
      <4>2. CASE ~(p < a)
        <5>1. /\ p \in 1..(Len(left) + Len(right)) /\ ~(p <= Len(left))
              /\ p - Len(left) \in 1..(n - a) /\ a + (p - Len(left)) = p + 1
          BY <1>1, <2>1, <2>3, <2>4, <4>2
        <5> QED
          BY <2>4, <3>1, <4>2, <5>1
      <4> QED
        BY <4>1, <4>2
    <3>3. Len(left) + Len(right) = n - 1
      BY <1>1, <2>1, <2>3, <2>4
    <3> QED
      BY <3>1, <3>2, <3>3
  <2> HIDE DEF both
  <2>6. /\ Append(both, k) \in Seq(BudgetKeys) /\ Len(Append(both, k)) = n
        /\ Append(both, k)[n] = k
        /\ \A p \in 1..(n - 1) : Append(both, k)[p] = both[p]
    <3>1. Len(both) + 1 = n
      BY <1>1, <2>1, <2>5
    <3> QED
      BY <2>5, <3>1, AppendProperties
  <2> QED
    BY <1>1, <2>1, <2>2, <2>5, <2>6 DEF both
<1>3. CASE ~\E i \in DOMAIN records : records[i] = k
  <2>1. order = Append(records, k)
    BY <1>3 DEF WithNewest
  <2>2. /\ Append(records, k) \in Seq(BudgetKeys) /\ Len(Append(records, k)) = n + 1
        /\ Append(records, k)[n + 1] = k
        /\ \A p \in 1..n : Append(records, k)[p] = records[p]
    BY <1>1, AppendProperties
  <2> QED
    BY <1>1, <1>3, <2>1, <2>2
<1> QED
  BY <1>2, <1>3

\* With one more use of k the order with k at the end is that of the last uses.
LEMMA NewestByLastUse ==
    ASSUME BudgetTypeOK, ByLastUse(records, uses),
           NEW u \in Use, uses' = Append(uses, u)
    PROVE  ByLastUse(WithNewest(u.key), uses')
<1> DEFINE k == u.key
           order == WithNewest(k)
           l == Len(records)
           n == Len(uses)
<1>0. k \in BudgetKeys
  BY DEF Use
<1>1. /\ n \in Nat /\ DOMAIN uses = 1..n /\ DOMAIN uses' = 1..(n + 1) /\ Len(uses') = n + 1
      /\ \A i \in 1..n : uses'[i] = uses[i]
      /\ uses'[n + 1] = u
      /\ \A i \in 1..n : UsedIn(uses', i, n + 1) = UsedIn(uses, i, n) \cup {k}
      /\ UsedIn(uses', n + 1, n + 1) = {}
  BY UsesBy
<1>2. /\ order \in Seq(BudgetKeys) /\ l \in Nat
      /\ \/ /\ \A p \in 1..l : records[p] # k
            /\ Len(order) = l + 1 /\ order[l + 1] = k
            /\ \A p \in 1..l : order[p] = records[p]
         \/ /\ Len(order) = l /\ order[l] = k
            /\ \E a \in 1..l :
                  /\ records[a] = k
                  /\ \A p \in 1..(l - 1) :
                        order[p] = IF p < a THEN records[p] ELSE records[p + 1]
  BY <1>0, NewestIs
<1>3. DOMAIN order = 1..Len(order) /\ Len(order) \in Nat /\ order[Len(order)] = k
  BY <1>2
<1>4. \A p, q \in 1..l : p < q => records[p] # records[q]
  BY KeysAreDistinct DEF BudgetTypeOK
<1>5. DOMAIN records = 1..l
  BY DEF BudgetTypeOK
<1> HIDE DEF order, k, n, l
<1>6. ASSUME NEW p \in 1..Len(order), p # Len(order)
      PROVE  \E r \in 1..l : records[r] = order[p] /\ order[p] # k
                             /\ Later(records, r) \cup {k} = Later(order, p)
  <2>1. CASE /\ \A r \in 1..l : records[r] # k
             /\ Len(order) = l + 1 /\ order[l + 1] = k
             /\ \A r \in 1..l : order[r] = records[r]
    <3>1. p \in 1..l /\ records[p] = order[p]
      BY <1>2, <1>6, <2>1
    <3>2. Later(records, p) \cup {k} = Later(order, p)
      <4>1. (p + 1)..(l + 1) = ((p + 1)..l) \cup {l + 1}
        BY <1>2, <3>1
      <4>2. \A q \in (p + 1)..l : order[q] = records[q]
        BY <1>2, <2>1, <3>1
      <4> QED
        BY <2>1, <4>1, <4>2, <1>5 DEF Later, l
    <3> QED
      BY <2>1, <3>1, <3>2
  <2>2. ASSUME Len(order) = l, order[l] = k, NEW a \in 1..l, records[a] = k,
               \A r \in 1..(l - 1) : order[r] = IF r < a THEN records[r] ELSE records[r + 1]
        PROVE  \E r \in 1..l : records[r] = order[p] /\ order[p] # k
                               /\ Later(records, r) \cup {k} = Later(order, p)
    <3>1. p \in 1..(l - 1)
      BY <1>2, <1>6, <2>2
    <3> DEFINE r == IF p < a THEN p ELSE p + 1
    <3>2. r \in 1..l /\ records[r] = order[p] /\ r # a
      BY <1>2, <2>2, <3>1
    <3>3. records[r] # k
      <4>1. r < a \/ a < r
        BY <3>2
      <4> QED
        BY <1>4, <2>2, <3>2, <4>1
    <3>4. ASSUME NEW q \in (r + 1)..l PROVE records[q] \in Later(order, p) \cup {k}
      <4>1. CASE q = a
        BY <2>2, <4>1
      <4>2. CASE q < a
        <5>1. q \in (p + 1)..Len(order) /\ q \in 1..(l - 1)
          BY <1>2, <2>2, <3>1, <4>2
        <5> QED
          BY <2>2, <4>2, <5>1 DEF Later
      <4>3. CASE a < q
        <5>1. q - 1 \in (p + 1)..Len(order) /\ q - 1 \in 1..(l - 1) /\ ~(q - 1 < a)
              /\ (q - 1) + 1 = q
          BY <1>2, <2>2, <3>1, <4>3
        <5>2. order[q - 1] = records[q]
          BY <2>2, <5>1
        <5> QED
          BY <5>1, <5>2 DEF Later
      <4> QED
        BY <2>2, <4>1, <4>2, <4>3
    <3>5. ASSUME NEW q \in (p + 1)..Len(order) PROVE order[q] \in Later(records, r) \cup {k}
      <4>1. CASE q = l
        BY <2>2, <4>1
      <4>2. CASE q # l /\ q < a
        <5>1. q \in (r + 1)..l /\ q \in 1..(l - 1)
          BY <1>2, <2>2, <3>1, <4>2
        <5>2. order[q] = records[q]
          BY <2>2, <4>2, <5>1
        <5> QED
          BY <5>1, <5>2 DEF Later, l
      <4>3. CASE q # l /\ ~(q < a)
        <5>1. q + 1 \in (r + 1)..l /\ q \in 1..(l - 1)
          BY <1>2, <2>2, <3>1, <4>3
        <5>2. order[q] = records[q + 1]
          BY <2>2, <4>3, <5>1
        <5> QED
          BY <5>1, <5>2 DEF Later, l
      <4> QED
        BY <4>1, <4>2, <4>3
    <3>6. k \in Later(order, p)
      <4>1. l \in (p + 1)..Len(order)
        BY <1>2, <2>2, <3>1
      <4> QED
        BY <2>2, <4>1 DEF Later
    <3>7. Later(records, r) \subseteq Later(order, p) \cup {k}
      BY <3>4 DEF Later, l
    <3>8. Later(order, p) \subseteq Later(records, r) \cup {k}
      BY <3>5 DEF Later
    <3> HIDE DEF r
    <3>9. Later(records, r) \cup {k} = Later(order, p)
      BY <3>6, <3>7, <3>8
    <3> QED
      BY <3>2, <3>3, <3>9
  <2> QED
    BY <1>2, <2>1, <2>2
<1>7. ASSUME NEW p \in 1..Len(order), p # Len(order)
      PROVE  \E m \in DOMAIN uses' : IsLast(uses', order[p], m)
                                     /\ UsedIn(uses', m, Len(uses')) = Later(order, p)
  <2>1. PICK r \in 1..l : records[r] = order[p] /\ order[p] # k
                          /\ Later(records, r) \cup {k} = Later(order, p)
    BY <1>6, <1>7
  <2>2. PICK m \in DOMAIN uses :
               IsLast(uses, records[r], m) /\ UsedIn(uses, m, Len(uses)) = Later(records, r)
    BY <1>5 DEF ByLastUse
  <2>3. m \in 1..n /\ m \in DOMAIN uses' /\ uses'[m] = uses[m]
    BY <1>1
  <2>4. UsedIn(uses', m, n + 1) = Later(order, p)
    BY <1>1, <2>1, <2>2, <2>3 DEF n
  <2>5. order[p] \notin UsedIn(uses', m, n + 1) /\ uses'[m].key = order[p]
    BY <1>1, <2>1, <2>2, <2>3 DEF n, IsLast
  <2> QED
    BY <1>1, <2>3, <2>4, <2>5 DEF IsLast
<1>8. \E m \in DOMAIN uses' : IsLast(uses', order[Len(order)], m)
          /\ UsedIn(uses', m, Len(uses')) = Later(order, Len(order))
  <2>1. n + 1 \in DOMAIN uses' /\ uses'[n + 1].key = k
    BY <1>1 DEF k
  <2>2. Later(order, Len(order)) = {}
    BY <1>3 DEF Later
  <2> QED
    BY <1>1, <1>3, <2>1, <2>2 DEF IsLast
<1>9. ByLastUse(order, uses')
  BY <1>3, <1>7, <1>8 DEF ByLastUse
<1> QED
  BY <1>9 DEF order, k

-----------------------------------------------------------------------------
(* The keys after a use *)

RecordedUse(k) == [key |-> k, time |-> now, taken |-> ~IsBlocked(k)]

LEMMA OrderAfter ==
    ASSUME BudgetInv, BudgetAssumption, NEW k \in BudgetKeys, Record(k)
    PROVE  LET order == WithNewest(k)
               cut == IF Len(order) > MaxKeys THEN 1 ELSE 0
           IN  /\ RecordedUse(k) \in Use /\ uses' = Append(uses, RecordedUse(k))
               /\ order \in Seq(BudgetKeys) /\ ByLastUse(order, uses')
               /\ Len(order) \in Nat /\ Len(order) - cut <= MaxKeys /\ order[Len(order)] = k
               /\ cut = 1 => Len(order) = MaxKeys + 1
               /\ records' \in Seq(BudgetKeys) /\ Len(records') = Len(order) - cut
               /\ Len(records') > 0
               /\ \A p \in 1..Len(records') : records'[p] = order[p + cut]
               /\ \A x \in BudgetKeys : IsKept(x) \/ x = k <=> \E r \in 1..Len(order) : order[r] = x
<1> DEFINE order == WithNewest(k)
           l == Len(records)
           full == Len(order) > MaxKeys
<1>1. RecordedUse(k) \in Use /\ RecordedUse(k).key = k
  <2>1. now \in Nat
    BY DEF BudgetInv, BudgetTypeOK, BudgetAssumption
  <2> QED
    BY <2>1 DEF RecordedUse, Use
<1>2. uses' = Append(uses, RecordedUse(k)) /\ records' = IF full THEN Tail(order) ELSE order
  BY DEF Record, RecordedUse
<1>3. ByLastUse(order, uses')
  BY <1>1, <1>2, NewestByLastUse DEF BudgetInv, LeastRecentFirst
<1>4. /\ order \in Seq(BudgetKeys) /\ l \in Nat
      /\ \/ /\ \A p \in 1..l : records[p] # k
            /\ Len(order) = l + 1 /\ order[l + 1] = k
            /\ \A p \in 1..l : order[p] = records[p]
         \/ /\ Len(order) = l /\ order[l] = k
            /\ \E a \in 1..l :
                  /\ records[a] = k
                  /\ \A p \in 1..(l - 1) :
                        order[p] = IF p < a THEN records[p] ELSE records[p + 1]
  BY NewestIs DEF BudgetInv
<1>5. l <= MaxKeys /\ MaxKeys \in Nat \ {0} /\ DOMAIN records = 1..l
  BY DEF BudgetInv, LeastRecentFirst, BudgetAssumption, BudgetTypeOK
<1> HIDE DEF order, l
<1>6. Len(order) \in Nat /\ order[Len(order)] = k /\ Len(order) > 0
  BY <1>4
<1>7. full => Len(order) = MaxKeys + 1
  BY <1>4, <1>5
<1>8. ASSUME NEW x \in BudgetKeys
      PROVE  IsKept(x) \/ x = k <=> \E r \in 1..Len(order) : order[r] = x
  <2>1. CASE /\ \A p \in 1..l : records[p] # k
             /\ Len(order) = l + 1 /\ order[l + 1] = k
             /\ \A p \in 1..l : order[p] = records[p]
    <3>1. 1..Len(order) = (1..l) \cup {l + 1}
      BY <1>4, <2>1
    <3> QED
      BY <1>5, <2>1, <3>1 DEF IsKept
  <2>2. ASSUME Len(order) = l, order[l] = k, NEW a \in 1..l, records[a] = k,
               \A p \in 1..(l - 1) : order[p] = IF p < a THEN records[p] ELSE records[p + 1]
        PROVE  IsKept(x) \/ x = k <=> \E r \in 1..Len(order) : order[r] = x
    <3>1. ASSUME NEW p \in 1..l, records[p] = x PROVE \E r \in 1..Len(order) : order[r] = x
      <4>1. CASE p < a
        <5>1. p \in 1..(l - 1)
          BY <1>4, <4>1
        <5> QED
          BY <2>2, <3>1, <4>1, <5>1
      <4>2. CASE p = a
        BY <1>6, <2>2, <3>1, <4>2
      <4>3. CASE a < p
        <5>1. p - 1 \in 1..(l - 1) /\ ~(p - 1 < a) /\ (p - 1) + 1 = p
          BY <1>4, <4>3
        <5>2. order[p - 1] = x
          BY <2>2, <3>1, <5>1
        <5> QED
          BY <2>2, <5>1, <5>2
      <4> QED
        BY <4>1, <4>2, <4>3
    <3>2. ASSUME NEW r \in 1..Len(order), order[r] = x, x # k PROVE \E p \in 1..l : records[p] = x
      <4>1. r \in 1..(l - 1)
        BY <1>4, <2>2, <3>2
      <4>2. r \in 1..l /\ r + 1 \in 1..l
        BY <1>4, <4>1
      <4> QED
        BY <2>2, <3>2, <4>1, <4>2
    <3>3. \E r \in 1..Len(order) : order[r] = k
      BY <1>6
    <3> QED
      BY <1>5, <3>1, <3>2, <3>3 DEF IsKept
  <2> QED
    BY <1>4, <2>1, <2>2
<1>9. CASE full
  <2>1. order # <<>>
    BY <1>6
  <2>2. /\ Tail(order) \in Seq(BudgetKeys) /\ Len(Tail(order)) = Len(order) - 1
        /\ \A p \in 1..Len(Tail(order)) : Tail(order)[p] = order[p + 1]
    BY <1>4, <2>1, HeadTailProperties
  <2>3. Len(order) - 1 <= MaxKeys /\ Len(order) - 1 > 0
    BY <1>5, <1>7, <1>9
  <2> QED
    BY <1>1, <1>2, <1>3, <1>4, <1>6, <1>7, <1>8, <1>9, <2>2, <2>3 DEF order
<1>10. CASE ~full
  <2>1. Len(order) - 0 = Len(order) /\ Len(order) <= MaxKeys
    BY <1>5, <1>6, <1>10
  <2> DEFINE cut == IF full THEN 1 ELSE 0
  <2>2. cut = 0 /\ records' = order
    BY <1>2, <1>10
  <2> HIDE DEF cut
  <2>3. \A p \in 1..Len(order) : records'[p] = order[p + cut]
    BY <2>2
  <2>4. /\ Len(order) - cut <= MaxKeys /\ Len(records') = Len(order) - cut
        /\ Len(records') > 0 /\ cut # 1 /\ records' \in Seq(BudgetKeys)
    <3>1. Len(order) - cut = Len(order) /\ cut # 1
      BY <1>6, <2>2
    <3>2. Len(records') = Len(order)
      BY <2>2
    <3>3. records' \in Seq(BudgetKeys)
      BY <1>4, <2>2
    <3> QED
      BY <1>6, <2>1, <3>1, <3>2, <3>3
  <2> QED
    BY <1>1, <1>2, <1>3, <1>4, <1>6, <1>8, <2>2, <2>3, <2>4 DEF order, cut
<1> QED
  BY <1>9, <1>10

LEMMA KeysStayInOrder ==
    ASSUME BudgetInv, BudgetAssumption, NEW k \in BudgetKeys, Record(k)
    PROVE  LeastRecentFirst' /\ IsKept(k)'
<1> DEFINE order == WithNewest(k)
           cut == IF Len(order) > MaxKeys THEN 1 ELSE 0
           n == Len(records')
<1>1. /\ order \in Seq(BudgetKeys) /\ ByLastUse(order, uses')
      /\ Len(order) \in Nat /\ Len(order) - cut <= MaxKeys /\ order[Len(order)] = k
      /\ records' \in Seq(BudgetKeys) /\ n = Len(order) - cut /\ n > 0
      /\ \A p \in 1..n : records'[p] = order[p + cut]
  BY OrderAfter
<1>2. cut \in {0, 1} /\ DOMAIN order = 1..Len(order) /\ DOMAIN records' = 1..n /\ n \in Nat
  BY <1>1
<1> HIDE DEF order, cut, n
<1>3. ASSUME NEW p \in 1..n
      PROVE  \E m \in DOMAIN uses' : IsLast(uses', records'[p], m)
                                     /\ UsedIn(uses', m, Len(uses')) = Later(records', p)
  <2>1. p + cut \in 1..Len(order)
    BY <1>1, <1>2
  <2>2. PICK m \in DOMAIN uses' :
               IsLast(uses', order[p + cut], m)
               /\ UsedIn(uses', m, Len(uses')) = Later(order, p + cut)
    BY <1>1, <1>2, <2>1 DEF ByLastUse
  <2>3. \A q \in (p + 1)..n : q + cut \in (p + cut + 1)..Len(order) /\ records'[q] = order[q + cut]
    BY <1>1, <1>2
  <2>4. ASSUME NEW q \in (p + cut + 1)..Len(order)
        PROVE  \E r \in (p + 1)..n : order[q] = records'[r]
    <3>1. q - cut \in (p + 1)..n /\ q - cut \in 1..n /\ (q - cut) + cut = q
      BY <1>1, <1>2
    <3> QED
      BY <1>1, <3>1
  <2>5. {records'[q] : q \in (p + 1)..n} \subseteq {order[q] : q \in (p + cut + 1)..Len(order)}
    BY <2>3
  <2>6. {order[q] : q \in (p + cut + 1)..Len(order)} \subseteq {records'[q] : q \in (p + 1)..n}
    BY <2>4
  <2>7. Later(records', p) = Later(order, p + cut)
    BY <2>5, <2>6 DEF Later, n
  <2> QED
    BY <1>1, <2>2, <2>7
<1>4. ByLastUse(records', uses')
  BY <1>2, <1>3 DEF ByLastUse
<1>5. LeastRecentFirst'
  BY <1>1, <1>4 DEF LeastRecentFirst, n
<1>6. IsKept(k)'
  <2>1. n \in 1..n /\ n + cut = Len(order)
    BY <1>1, <1>2
  <2> QED
    BY <1>1, <1>2, <2>1 DEF IsKept
<1> QED
  BY <1>5, <1>6

\* A key that gives way is forgotten, and nothing changes for one that stays.
LEMMA OthersAfter ==
    ASSUME BudgetInv, BudgetAssumption, NEW k \in BudgetKeys, Record(k),
           NEW x \in BudgetKeys, x # k
    PROVE  \/ ~IsKept(x)' /\ Remembered(x)' = {} /\ times'[x] = <<>>
           \/ /\ Remembered(x)' = Remembered(x) /\ times'[x] = times[x]
              /\ IsKept(x) => IsKept(x)'
<1> DEFINE order == WithNewest(k)
           cut == IF Len(order) > MaxKeys THEN 1 ELSE 0
           u == RecordedUse(k)
           n == Len(uses)
<1>1. /\ u \in Use /\ uses' = Append(uses, u)
      /\ order \in Seq(BudgetKeys) /\ ByLastUse(order, uses')
      /\ Len(order) \in Nat /\ Len(order) - cut <= MaxKeys /\ order[Len(order)] = k
      /\ cut = 1 => Len(order) = MaxKeys + 1
      /\ records' \in Seq(BudgetKeys) /\ Len(records') = Len(order) - cut
      /\ \A p \in 1..Len(records') : records'[p] = order[p + cut]
      /\ IsKept(x) <=> \E r \in 1..Len(order) : order[r] = x
  BY OrderAfter
<1>2. /\ cut = 1 <=> Len(order) > MaxKeys
      /\ cut \in {0, 1} /\ DOMAIN order = 1..Len(order) /\ DOMAIN records' = 1..Len(records')
      /\ MaxKeys \in Nat \ {0}
  BY <1>1 DEF BudgetAssumption
<1>3. times'[x] = IF cut = 1 /\ x = order[1] THEN <<>> ELSE times[x]
  BY <1>2 DEF Record
<1>4. u.key = k
  BY DEF RecordedUse
<1>5. BudgetTypeOK
  BY DEF BudgetInv
<1>6. /\ Remembered(x)' \subseteq Remembered(x)
      /\ \A last \in DOMAIN uses : IsLast(uses, x, last) =>
                 IF Cardinality(UsedIn(uses, last, n) \cup {k}) < MaxKeys
                 THEN Remembered(x)' = Remembered(x) ELSE Remembered(x)' = {}
  BY <1>1, <1>4, <1>5, RememberedOfOthers
<1>7. /\ n \in Nat /\ DOMAIN uses = 1..n /\ DOMAIN uses' = 1..(n + 1) /\ Len(uses') = n + 1
      /\ uses'[n + 1] = u /\ \A i \in 1..n : uses'[i] = uses[i]
      /\ \A i \in 1..n : UsedIn(uses', i, n + 1) = UsedIn(uses, i, n) \cup {u.key}
  BY <1>1, <1>5, UsesBy
<1>8. \A p, q \in 1..Len(order) : p < q => order[p] # order[q]
  BY <1>1, KeysAreDistinct
<1> HIDE DEF order, cut, u, n
<1>9. CASE ~IsKept(x)
  <2>1. Remembered(x) = {} /\ times[x] = <<>>
    BY <1>9 DEF BudgetInv, EvictedAreForgotten
  <2>2. Remembered(x)' = Remembered(x)
    BY <1>6, <2>1
  <2> QED
    BY <1>3, <1>9, <2>1, <2>2
<1>10. ASSUME NEW r \in 1..Len(order), order[r] = x
       PROVE  \/ ~IsKept(x)' /\ Remembered(x)' = {} /\ times'[x] = <<>>
              \/ /\ Remembered(x)' = Remembered(x) /\ times'[x] = times[x]
                 /\ IsKept(x) => IsKept(x)'
  <2>1. PICK m \in DOMAIN uses' :
               IsLast(uses', x, m) /\ UsedIn(uses', m, Len(uses')) = Later(order, r)
    BY <1>1, <1>2, <1>10 DEF ByLastUse
  <2>2. m # n + 1
    BY <1>4, <1>7, <2>1 DEF IsLast
  <2>3. m \in 1..n
    BY <1>7, <2>2
  <2>4. UsedIn(uses, m, n) \cup {k} = Later(order, r)
    BY <1>4, <1>7, <2>1, <2>3
  <2>5. IsLast(uses, x, m)
    <3>1. x \notin UsedIn(uses, m, n)
      BY <1>7, <2>1, <2>3 DEF IsLast
    <3> QED
      BY <1>7, <2>1, <2>3, <3>1 DEF IsLast, n
  <2>6. Cardinality(Later(order, r)) = Len(order) - r
    BY <1>1, KeysLater
  <2>7. IF Len(order) - r < MaxKeys
        THEN Remembered(x)' = Remembered(x) ELSE Remembered(x)' = {}
    BY <1>6, <1>7, <2>3, <2>4, <2>5, <2>6
  <2>8. CASE cut = 1 /\ r = 1
    <3>1. ~(Len(order) - r < MaxKeys)
      BY <1>1, <1>2, <2>8
    <3>2. times'[x] = <<>>
      BY <1>3, <1>10, <2>8
    <3>3. ASSUME NEW p \in 1..Len(records') PROVE records'[p] # x
      <4>1. p + cut \in 1..Len(order) /\ r < p + cut
        BY <1>1, <1>2, <2>8
      <4> QED
        BY <1>1, <1>8, <1>10, <4>1
    <3>4. ~IsKept(x)'
      BY <1>2, <3>3 DEF IsKept
    <3> QED
      BY <2>7, <3>1, <3>2, <3>4
  <2>9. CASE ~(cut = 1 /\ r = 1)
    <3>1. Len(order) - r < MaxKeys
      BY <1>1, <1>2, <2>9
    <3>2. ~(cut = 1 /\ x = order[1])
      <4> SUFFICES ASSUME cut = 1, x = order[1] PROVE FALSE
        OBVIOUS
      <4>1. 1 \in 1..Len(order) /\ 1 < r
        BY <1>1, <2>9
      <4> QED
        BY <1>8, <1>10, <4>1
    <3>3. IsKept(x)'
      <4>1. r # Len(order) /\ r - cut \in 1..Len(records') /\ (r - cut) + cut = r
        BY <1>1, <1>2, <1>10, <2>9
      <4> QED
        BY <1>1, <1>2, <1>10, <4>1 DEF IsKept
    <3> QED
      BY <1>3, <2>7, <3>1, <3>2, <3>3
  <2> QED
    BY <2>8, <2>9
<1> QED
  BY <1>1, <1>9, <1>10

-----------------------------------------------------------------------------
(* The times of a key *)

LEMMA PrunedIsListed ==
    ASSUME BudgetTypeOK, BudgetAssumption, ClockAscends, NEW k \in BudgetKeys,
           NEW of \in [DOMAIN times[k] -> DOMAIN uses], Lists(k, times[k], of)
    PROVE  /\ TimesOf(k) \in Seq(Nat)
           /\ \A p \in DOMAIN TimesOf(k) : ~Outside(TimesOf(k)[p])
           /\ \E g \in [DOMAIN TimesOf(k) -> DOMAIN uses] : Lists(k, TimesOf(k), g)
<1> DEFINE ts == times[k]
           left == Pruned(ts)
<1>1. ts \in Seq(Nat) /\ DOMAIN ts = 1..Len(ts) /\ Len(ts) \in Nat
  BY DEF BudgetTypeOK
<1>2. now \in Nat /\ Seconds \in Nat
  BY DEF BudgetTypeOK, BudgetAssumption
<1>3. ASSUME NEW p \in DOMAIN ts, NEW q \in DOMAIN ts, p <= q PROVE ts[p] <= ts[q]
  <2>1. CASE p = q
    BY <1>1, <2>1
  <2>2. CASE p < q
    <3>1. of[p] < of[q] /\ of[p] \in DOMAIN uses /\ of[q] \in DOMAIN uses
      BY <2>2 DEF Lists
    <3>2. of[p] <= of[q]
      BY <3>1 DEF BudgetTypeOK
    <3> QED
      BY <3>1, <3>2 DEF ClockAscends, Lists
  <2> QED
    BY <1>1, <1>3, <2>1, <2>2
<1> HIDE DEF ts
<1>4. /\ left \in Seq(Nat)
      /\ \E d \in 0..Len(ts) :
            /\ Len(left) = Len(ts) - d
            /\ \A p \in 1..(Len(ts) - d) : left[p] = ts[p + d] /\ ~Outside(ts[p + d])
            /\ \A p \in 1..d : Outside(ts[p])
  BY <1>1, <1>2, <1>3, PrunedIsSuffix
<1> HIDE DEF left
<1>5. PICK d \in 0..Len(ts) :
         /\ Len(left) = Len(ts) - d
         /\ \A p \in 1..(Len(ts) - d) : left[p] = ts[p + d] /\ ~Outside(ts[p + d])
         /\ \A p \in 1..d : Outside(ts[p])
  BY <1>4
<1>6. DOMAIN left = 1..(Len(ts) - d)
  BY <1>4, <1>5
<1> DEFINE g == [p \in DOMAIN left |-> of[p + d]]
<1>7. Lists(k, ts, of) /\ of \in [DOMAIN ts -> DOMAIN uses]
  BY DEF ts
<1>8. \A p \in DOMAIN left : p + d \in DOMAIN ts
  BY <1>1, <1>6
<1>9. g \in [DOMAIN left -> DOMAIN uses]
  BY <1>7, <1>8
<1>10. ASSUME NEW p \in DOMAIN left
       PROVE  g[p] \in Remembered(k) /\ uses[g[p]].taken /\ uses[g[p]].time = left[p]
  <2>1. p + d \in DOMAIN ts /\ left[p] = ts[p + d] /\ g[p] = of[p + d]
    BY <1>5, <1>6, <1>8
  <2> HIDE DEF g
  <2> QED
    BY <1>7, <2>1 DEF Lists
<1>11. ASSUME NEW p \in DOMAIN left, NEW q \in DOMAIN left, p < q PROVE g[p] < g[q]
  <2>1. p + d \in DOMAIN ts /\ q + d \in DOMAIN ts /\ p + d < q + d
    BY <1>6, <1>8, <1>11
  <2> QED
    BY <1>7, <2>1 DEF Lists
<1>12. ASSUME NEW i \in Remembered(k), uses[i].taken, ~Outside(uses[i].time)
       PROVE  \E p \in DOMAIN left : g[p] = i
  <2>1. PICK p \in DOMAIN ts : of[p] = i
    BY <1>7, <1>12 DEF Lists
  <2>2. ts[p] = uses[i].time
    BY <1>7, <2>1 DEF Lists
  <2>3. p \in d + 1..Len(ts)
    BY <1>1, <1>5, <1>12, <2>2
  <2>4. p - d \in DOMAIN left /\ (p - d) + d = p
    BY <1>1, <1>6, <2>3
  <2> QED
    BY <2>1, <2>4
<1>13. Lists(k, left, g)
  <2> HIDE DEF g
  <2> QED
    BY <1>10, <1>11, <1>12 DEF Lists
<1>14. \A p \in DOMAIN left : ~Outside(left[p])
  BY <1>5, <1>6
<1>15. left = TimesOf(k)
  BY DEF left, ts, TimesOf
<1> HIDE DEF g
<1> QED
  BY <1>4, <1>9, <1>13, <1>14, <1>15

\* The times that pruning leaves are those of the uses a window counts.
LEMMA TimesAreCounted ==
    ASSUME BudgetInv, BudgetAssumption, NEW k \in BudgetKeys
    PROVE  LET n == Len(TimesOf(k))
           IN  /\ TimesOf(k) \in Seq(Nat) /\ n \in Nat
               /\ IsFiniteSet(Counted(k, now)) /\ Cardinality(Counted(k, now)) = n
               /\ n > 0 => \E i \in Counted(k, now) :
                     /\ uses[i].time = TimesOf(k)[1]
                     /\ \A j \in Counted(k, now) : uses[i].time <= uses[j].time
<1> DEFINE ts == TimesOf(k)
           n == Len(ts)
<1>1. /\ ts \in Seq(Nat) /\ \A p \in DOMAIN ts : ~Outside(ts[p])
      /\ \E g \in [DOMAIN ts -> DOMAIN uses] : Lists(k, ts, g)
  <2>1. PICK of \in [DOMAIN times[k] -> DOMAIN uses] : Lists(k, times[k], of)
    BY DEF BudgetInv, TimesAreListed
  <2>2. BudgetTypeOK /\ ClockAscends
    BY DEF BudgetInv
  <2> QED
    BY <2>1, <2>2, PrunedIsListed
<1> HIDE DEF ts
<1>2. PICK g \in [DOMAIN ts -> DOMAIN uses] : Lists(k, ts, g)
  BY <1>1
<1>3. n \in Nat /\ DOMAIN ts = 1..n
  BY <1>1
<1> HIDE DEF n
<1>4. now \in Nat /\ Seconds \in Nat
  BY DEF BudgetInv, BudgetTypeOK, BudgetAssumption
<1>5. \A i \in DOMAIN uses : uses[i].time \in Nat /\ uses[i].time <= now
  <2>1. uses \in Seq(Use)
    BY DEF BudgetInv, BudgetTypeOK, Use
  <2>2. \A i \in DOMAIN uses : uses[i] \in Use
    BY <2>1
  <2> QED
    BY <2>2 DEF BudgetInv, ClockAscends, Use
<1>6. \A i \in DOMAIN uses : uses[i].time > now - Seconds <=> ~Outside(uses[i].time)
  BY <1>4, <1>5 DEF Outside
<1>7. Counted(k, now) = {g[p] : p \in 1..n}
  <2>1. ASSUME NEW i \in Counted(k, now) PROVE \E p \in 1..n : g[p] = i
    <3>1. i \in Remembered(k) /\ uses[i].taken /\ uses[i].time > now - Seconds
      BY DEF Counted
    <3>2. ~Outside(uses[i].time)
      BY <1>6, <3>1 DEF Remembered
    <3> QED
      BY <1>2, <1>3, <3>1, <3>2 DEF Lists
  <2>2. ASSUME NEW p \in 1..n PROVE g[p] \in Counted(k, now)
    <3>1. g[p] \in Remembered(k) /\ uses[g[p]].taken /\ uses[g[p]].time = ts[p] /\ ~Outside(ts[p])
      BY <1>1, <1>2, <1>3 DEF Lists
    <3>2. g[p] \in DOMAIN uses
      BY <3>1 DEF Remembered
    <3>3. uses[g[p]].time > now - Seconds /\ uses[g[p]].time <= now
      BY <1>5, <1>6, <3>1, <3>2
    <3> QED
      BY <3>1, <3>3 DEF Counted
  <2> QED
    BY <2>1, <2>2
<1>8. \A p, q \in 1..n : p < q => g[p] # g[q]
  <2> TAKE p \in 1..n, q \in 1..n
  <2> HAVE p < q
  <2>1. g[p] < g[q] /\ g[p] \in DOMAIN uses /\ g[q] \in DOMAIN uses
    BY <1>2, <1>3 DEF Lists
  <2>2. DOMAIN uses = 1..Len(uses)
    BY DEF BudgetInv, BudgetTypeOK
  <2> QED
    BY <2>1, <2>2
<1>9. DOMAIN g = 1..n
  BY <1>2, <1>3
<1>10. IsFiniteSet({g[p] : p \in 1..n}) /\ Cardinality({g[p] : p \in 1..n}) = n
  BY <1>3, <1>8, <1>9, AsManyAsPlaces
<1>11. ASSUME n > 0
       PROVE  \E i \in Counted(k, now) :
                 /\ uses[i].time = ts[1]
                 /\ \A j \in Counted(k, now) : uses[i].time <= uses[j].time
  <2>1. 1 \in 1..n
    BY <1>3, <1>11
  <2>2. g[1] \in Counted(k, now) /\ uses[g[1]].time = ts[1]
    BY <1>2, <1>3, <1>7, <2>1 DEF Lists
  <2>3. ASSUME NEW p \in 1..n PROVE uses[g[1]].time <= uses[g[p]].time
    <3>1. g[1] \in DOMAIN uses /\ g[p] \in DOMAIN uses /\ DOMAIN uses = 1..Len(uses)
      BY <1>2, <1>3, <2>1 DEF BudgetInv, BudgetTypeOK
    <3>2. g[1] <= g[p]
      <4>1. CASE p = 1
        BY <3>1, <4>1
      <4>2. CASE 1 < p
        BY <1>2, <1>3, <2>1, <3>1, <4>2 DEF Lists
      <4> QED
        BY <4>1, <4>2
    <3> QED
      BY <3>1, <3>2 DEF BudgetInv, ClockAscends
  <2> QED
    BY <1>7, <2>2, <2>3
<1> QED
  BY <1>1, <1>3, <1>7, <1>10, <1>11 DEF ts, n

LEMMA CountedIsFinite ==
    ASSUME BudgetTypeOK, NEW k, NEW time
    PROVE  IsFiniteSet(Counted(k, time)) /\ Cardinality(Counted(k, time)) \in Nat
<1>1. IsFiniteSet(DOMAIN uses)
  <2>1. DOMAIN uses = 1..Len(uses) /\ Len(uses) \in Nat
    BY DEF BudgetTypeOK
  <2> QED
    BY <2>1, FS_Interval
<1>2. Counted(k, time) \subseteq DOMAIN uses
  BY DEF Counted, Remembered
<1> QED
  BY <1>1, <1>2, FS_Subset, FS_CardinalityType

LEMMA ExactNow ==
    ASSUME BudgetInv, BudgetAssumption
    PROVE  BudgetIsExact
<1> SUFFICES ASSUME NEW k \in BudgetKeys
             PROVE  /\ IsBlocked(k) <=> Cardinality(Counted(k, now)) >= Capacity
                    /\ \A time \in 0..now : Cardinality(Counted(k, time)) <= Capacity
                    /\ IsBlocked(k) =>
                          \A wait \in 0..Seconds :
                             Cardinality(Counted(k, now) \cap Counted(k, now + wait)) < Capacity
                                <=> wait >= RetryAfter(k)
  BY DEF BudgetIsExact
<1> DEFINE n == Len(TimesOf(k))
           C == Counted(k, now)
<1>1. /\ TimesOf(k) \in Seq(Nat) /\ n \in Nat
      /\ IsFiniteSet(C) /\ Cardinality(C) = n
      /\ n > 0 => \E i \in C :
            uses[i].time = TimesOf(k)[1] /\ \A j \in C : uses[i].time <= uses[j].time
  BY TimesAreCounted
<1>2. IsBlocked(k) <=> Cardinality(C) >= Capacity
  BY <1>1 DEF IsBlocked
<1>3. \A time \in 0..now : Cardinality(Counted(k, time)) <= Capacity
  BY DEF BudgetInv, NeverOverfull
<1>4. now \in Nat /\ Seconds \in Nat /\ Capacity \in Nat \ {0}
  BY DEF BudgetInv, BudgetTypeOK, BudgetAssumption
<1>5. \A i \in C : uses[i].time \in Nat /\ uses[i].time <= now
  <2>1. uses \in Seq(Use)
    BY DEF BudgetInv, BudgetTypeOK, Use
  <2>2. \A i \in DOMAIN uses : uses[i] \in Use
    BY <2>1
  <2> QED
    BY <2>2 DEF BudgetInv, ClockAscends, Use, Counted, Remembered
<1>6. ASSUME IsBlocked(k), NEW wait \in 0..Seconds
      PROVE  Cardinality(C \cap Counted(k, now + wait)) < Capacity <=> wait >= RetryAfter(k)
  <2> DEFINE D == C \cap Counted(k, now + wait)
             t == TimesOf(k)[1]
  <2>1. Cardinality(C) = Capacity /\ n > 0
    <3>1. now \in 0..now
      BY <1>4
    <3> QED
      BY <1>1, <1>2, <1>3, <1>4, <1>6, <3>1
  <2>2. PICK i \in C : uses[i].time = t /\ \A j \in C : uses[i].time <= uses[j].time
    BY <1>1, <2>1
  <2>3. RetryAfter(k) = t + Seconds - now /\ t \in Nat
    BY <1>5, <1>6, <2>2 DEF RetryAfter
  <2>4. D = {j \in C : uses[j].time > now + wait - Seconds}
    <3>1. \A j \in C : uses[j].time <= now + wait
      BY <1>4, <1>5
    <3> HIDE DEF C, D, t
    <3>2. \A j : j \in C <=> /\ j \in Remembered(k) /\ uses[j].taken
                             /\ uses[j].time > now - Seconds /\ uses[j].time <= now
      BY DEF Counted, C
    <3> DEFINE later == now + wait
    <3> HIDE DEF later
    <3>3. \A j : j \in Counted(k, later) <=>
                    /\ j \in Remembered(k) /\ uses[j].taken
                    /\ uses[j].time > later - Seconds /\ uses[j].time <= later
      BY DEF Counted
    <3>4. \A j : j \in D <=> j \in C /\ j \in Counted(k, later)
      BY DEF D, later
    <3>5. \A j : j \in D <=> j \in C /\ uses[j].time > now + wait - Seconds
      BY <1>4, <1>5, <3>1, <3>2, <3>3, <3>4 DEF later
    <3> QED
      BY <3>5
  <2> HIDE DEF C, D, t
  <2>5. CASE wait >= RetryAfter(k)
    <3>1. i \notin D
      BY <1>4, <2>2, <2>3, <2>4, <2>5
    <3>2. D \subseteq C
      BY <2>4
    <3>3. Cardinality(D) <= Cardinality(C) /\ (Cardinality(C) = Cardinality(D) => C = D)
          /\ IsFiniteSet(D)
      BY <1>1, <3>2, FS_Subset
    <3>4. Cardinality(D) # Cardinality(C)
      BY <2>2, <3>1, <3>3
    <3>5. Cardinality(D) \in Nat
      BY <3>3, FS_CardinalityType
    <3> QED
      BY <1>4, <2>1, <2>5, <3>3, <3>4, <3>5 DEF D
  <2>6. CASE ~(wait >= RetryAfter(k))
    <3>1. ASSUME NEW j \in C PROVE uses[j].time > now + wait - Seconds
      <4>1. uses[j].time \in Nat /\ t <= uses[j].time
        BY <1>5, <2>2
      <4> QED
        BY <1>4, <2>3, <2>6, <4>1
    <3>2. D = C
      BY <2>4, <3>1
    <3>3. ~(Cardinality(D) < Capacity)
      BY <1>4, <2>1, <3>2
    <3> QED
      BY <2>6, <3>3 DEF D
  <2> QED
    BY <2>5, <2>6
<1> QED
  BY <1>2, <1>3, <1>6

-----------------------------------------------------------------------------
(* The invariant is kept *)

LEMMA BudgetStarts == BudgetAssumption /\ BudgetInit => BudgetInv
<1> SUFFICES ASSUME BudgetAssumption, BudgetInit PROVE BudgetInv
  OBVIOUS
<1>1. /\ now = 0 /\ records = <<>> /\ uses = <<>> /\ times = [k \in BudgetKeys |-> <<>>]
      /\ MaxTime \in Nat /\ MaxKeys \in Nat /\ Capacity \in Nat
  BY DEF BudgetInit, BudgetAssumption
<1>2. Len(<<>>) = 0 /\ \A S : <<>> \in Seq(S)
  OBVIOUS
<1>3. BudgetTypeOK
  BY <1>1, <1>2 DEF BudgetTypeOK
<1>4. DOMAIN uses = {} /\ DOMAIN records = {}
  BY <1>1
<1>5. LeastRecentFirst /\ ClockAscends
  BY <1>1, <1>2, <1>4 DEF LeastRecentFirst, ByLastUse, ClockAscends
<1>6. \A k \in BudgetKeys : Remembered(k) = {}
  BY <1>4 DEF Remembered
<1>7. EvictedAreForgotten
  BY <1>1, <1>6 DEF EvictedAreForgotten
<1>8. TimesAreListed
  <2>1. ASSUME NEW k \in BudgetKeys
        PROVE  \E of \in [DOMAIN times[k] -> DOMAIN uses] : Lists(k, times[k], of)
    <3>1. times[k] = <<>> /\ DOMAIN times[k] = {}
      BY <1>1
    <3>2. <<>> \in [DOMAIN times[k] -> DOMAIN uses]
      BY <3>1
    <3>3. Lists(k, times[k], <<>>)
      BY <1>6, <3>1 DEF Lists
    <3> QED
      BY <3>2, <3>3
  <2> QED
    BY <2>1 DEF TimesAreListed
<1>9. NeverOverfull
  <2>1. ASSUME NEW k \in BudgetKeys, NEW time \in 0..now
        PROVE  Cardinality(Counted(k, time)) <= Capacity
    <3>1. Counted(k, time) = {}
      BY <1>6 DEF Counted
    <3> QED
      BY <1>1, <3>1, FS_EmptySet
  <2> QED
    BY <2>1 DEF NeverOverfull
<1> QED
  BY <1>3, <1>5, <1>7, <1>8, <1>9 DEF BudgetInv

LEMMA TickKeeps == BudgetInv /\ BudgetAssumption /\ Tick => BudgetInv'
<1> SUFFICES ASSUME BudgetInv, BudgetAssumption, Tick PROVE BudgetInv'
  OBVIOUS
<1>1. /\ now' = now + 1 /\ now < MaxTime /\ records' = records /\ times' = times /\ uses' = uses
      /\ now \in Nat /\ MaxTime \in Nat /\ Seconds \in Nat
  BY DEF Tick, BudgetInv, BudgetTypeOK, BudgetAssumption
<1>2. BudgetTypeOK /\ LeastRecentFirst /\ EvictedAreForgotten /\ ClockAscends
      /\ TimesAreListed /\ NeverOverfull
  BY DEF BudgetInv
<1>3. BudgetTypeOK'
  BY <1>1, <1>2 DEF BudgetTypeOK
<1>4. \A k \in BudgetKeys : Remembered(k)' = Remembered(k)
  BY <1>1 DEF Remembered
<1>5. LeastRecentFirst'
  BY <1>1, <1>2 DEF LeastRecentFirst
<1>6. EvictedAreForgotten'
  BY <1>1, <1>2, <1>4 DEF EvictedAreForgotten, IsKept
<1>7. \A i \in DOMAIN uses : uses[i].time \in Nat /\ uses[i].time <= now
  <2>1. uses \in Seq(Use)
    BY <1>2 DEF BudgetTypeOK, Use
  <2>2. \A i \in DOMAIN uses : uses[i] \in Use
    BY <2>1
  <2> QED
    BY <1>2, <2>2 DEF ClockAscends, Use
<1>8. ClockAscends'
  BY <1>1, <1>2, <1>7 DEF ClockAscends
<1>9. TimesAreListed'
  <2>1. ASSUME NEW k \in BudgetKeys
        PROVE  (\E of \in [DOMAIN times[k] -> DOMAIN uses] : Lists(k, times[k], of))'
    <3>1. PICK of \in [DOMAIN times[k] -> DOMAIN uses] : Lists(k, times[k], of)
      BY <1>2 DEF TimesAreListed
    <3>2. ASSUME NEW i \in Remembered(k), uses[i].taken, ~(uses[i].time <= now + 1 - Seconds)
          PROVE  \E p \in DOMAIN times[k] : of[p] = i
      <4>1. i \in DOMAIN uses
        BY DEF Remembered
      <4>2. ~Outside(uses[i].time)
        BY <1>1, <1>7, <3>2, <4>1 DEF Outside
      <4> QED
        BY <3>1, <3>2, <4>2 DEF Lists
    <3>3. Lists(k, times[k], of)'
      BY <1>1, <1>4, <3>1, <3>2 DEF Lists, Outside
    <3> QED
      BY <1>1, <3>1, <3>3
  <2> QED
    BY <2>1 DEF TimesAreListed
<1>10. NeverOverfull'
  <2>1. ASSUME NEW k \in BudgetKeys, NEW time \in 0..(now + 1)
        PROVE  Cardinality(Counted(k, time)') <= Capacity
    <3>1. CASE time \in 0..now
      <4>1. Counted(k, time)' = Counted(k, time)
        BY <1>1, <1>4 DEF Counted
      <4> QED
        BY <1>2, <3>1, <4>1 DEF NeverOverfull
    <3>2. CASE time = now + 1
      <4>1. Counted(k, time)' \subseteq Counted(k, now)
        <5>1. ASSUME NEW i \in Remembered(k), uses[i].taken, uses[i].time > time - Seconds
              PROVE  i \in Counted(k, now)
          <6>1. i \in DOMAIN uses
            BY DEF Remembered
          <6>2. uses[i].time > now - Seconds /\ uses[i].time <= now
            BY <1>1, <1>7, <3>2, <5>1, <6>1
          <6> QED
            BY <5>1, <6>2 DEF Counted
        <5> QED
          BY <1>1, <1>4, <5>1 DEF Counted
      <4>2. IsFiniteSet(Counted(k, now)) /\ Cardinality(Counted(k, now)) \in Nat
        BY <1>2, CountedIsFinite
      <4>3. Cardinality(Counted(k, now)) <= Capacity
        <5>1. now \in 0..now
          BY <1>1
        <5> QED
          BY <1>2, <5>1 DEF NeverOverfull
      <4>4. /\ IsFiniteSet(Counted(k, time)')
            /\ Cardinality(Counted(k, time)') <= Cardinality(Counted(k, now))
        BY <4>1, <4>2, FS_Subset
      <4>5. Cardinality(Counted(k, time)') \in Nat
        BY <4>4, FS_CardinalityType
      <4>6. Capacity \in Nat
        BY DEF BudgetAssumption
      <4> QED
        BY <4>2, <4>3, <4>4, <4>5, <4>6
    <3>3. time \in 0..now \/ time = now + 1
      BY <1>1
    <3> QED
      BY <3>1, <3>2, <3>3
  <2> QED
    BY <1>1, <2>1 DEF NeverOverfull
<1> QED
  BY <1>3, <1>5, <1>6, <1>8, <1>9, <1>10 DEF BudgetInv

LEMMA AskKeeps ==
    ASSUME BudgetInv, BudgetAssumption, NEW k \in BudgetKeys, Ask(k)
    PROVE  BudgetInv'
<1>1. /\ now' = now /\ records' = records /\ uses' = uses
      /\ times' = [times EXCEPT ![k] = TimesOf(k)]
  BY DEF Ask
<1>2. BudgetTypeOK /\ LeastRecentFirst /\ EvictedAreForgotten /\ ClockAscends
      /\ TimesAreListed /\ NeverOverfull
  BY DEF BudgetInv
<1>3. times \in [BudgetKeys -> Seq(Nat)]
  BY <1>2 DEF BudgetTypeOK
<1>4. TimesOf(k) \in Seq(Nat) /\ \E g \in [DOMAIN TimesOf(k) -> DOMAIN uses] : Lists(k, TimesOf(k), g)
  <2>1. PICK of \in [DOMAIN times[k] -> DOMAIN uses] : Lists(k, times[k], of)
    BY <1>2 DEF TimesAreListed
  <2> QED
    BY <1>2, <2>1, PrunedIsListed
<1>5. BudgetTypeOK'
  BY <1>1, <1>2, <1>4 DEF BudgetTypeOK
<1>6. \A x \in BudgetKeys : Remembered(x)' = Remembered(x)
  BY <1>1 DEF Remembered
<1>7. LeastRecentFirst' /\ ClockAscends'
  BY <1>1, <1>2 DEF LeastRecentFirst, ClockAscends
<1>8. EvictedAreForgotten'
  <2>1. times[k] = <<>> => TimesOf(k) = <<>>
    <3>1. DOMAIN <<>> = {}
      OBVIOUS
    <3> QED
      BY <3>1 DEF TimesOf, Pruned
  <2> QED
    BY <1>1, <1>2, <1>3, <1>6, <2>1 DEF EvictedAreForgotten, IsKept
<1>9. TimesAreListed'
  <2>1. ASSUME NEW x \in BudgetKeys
        PROVE  (\E of \in [DOMAIN times[x] -> DOMAIN uses] : Lists(x, times[x], of))'
    <3>1. \E of \in [DOMAIN times'[x] -> DOMAIN uses] : Lists(x, times'[x], of)
      <4>1. CASE x = k
        BY <1>1, <1>3, <1>4, <4>1
      <4>2. CASE x # k
        BY <1>1, <1>2, <1>3, <4>2 DEF TimesAreListed
      <4> QED
        BY <4>1, <4>2
    <3>2. PICK of \in [DOMAIN times'[x] -> DOMAIN uses] : Lists(x, times'[x], of)
      BY <3>1
    <3>3. Lists(x, times[x], of)'
      BY <1>1, <1>6, <3>2 DEF Lists, Outside
    <3> QED
      BY <1>1, <3>2, <3>3
  <2> QED
    BY <2>1 DEF TimesAreListed
<1>10. NeverOverfull'
  BY <1>1, <1>2, <1>6 DEF NeverOverfull, Counted
<1> QED
  BY <1>5, <1>7, <1>8, <1>9, <1>10 DEF BudgetInv

LEMMA RecordKeeps ==
    ASSUME BudgetInv, BudgetAssumption, NEW k \in BudgetKeys, Record(k)
    PROVE  BudgetInv'
<1> DEFINE n == Len(uses)
           u == RecordedUse(k)
           left == TimesOf(k)
           l == Len(left)
<1>1. /\ u \in Use /\ uses' = Append(uses, u) /\ records' \in Seq(BudgetKeys)
  BY OrderAfter
<1>2. u.key = k /\ u.time = now /\ (u.taken <=> ~IsBlocked(k))
  BY DEF RecordedUse
<1>3. BudgetTypeOK /\ ClockAscends /\ NeverOverfull /\ EvictedAreForgotten /\ TimesAreListed
  BY DEF BudgetInv
<1>4. /\ n \in Nat /\ DOMAIN uses = 1..n /\ DOMAIN uses' = 1..(n + 1)
      /\ uses' \in Seq(Use) /\ \A i \in 1..n : uses[i] \in Use
      /\ \A i \in 1..n : uses'[i] = uses[i]
      /\ uses'[n + 1] = u
  BY <1>1, <1>3, UsesBy
<1>5. Remembered(k)' = Remembered(k) \cup {n + 1}
  BY <1>1, <1>2, <1>3, RememberedOfKey
<1>6. \A x : Remembered(x) \subseteq 1..n
  BY <1>4 DEF Remembered
<1>7. /\ now' = now /\ now \in Nat
      /\ times' = [x \in BudgetKeys |->
                     IF x = k THEN IF IsBlocked(k) THEN left ELSE Append(left, now)
                     ELSE times'[x]]
  BY <1>3 DEF Record, BudgetTypeOK
<1>8. /\ left \in Seq(Nat) /\ l \in Nat
      /\ IsFiniteSet(Counted(k, now)) /\ Cardinality(Counted(k, now)) = l
  BY TimesAreCounted
<1>9. PICK g \in [DOMAIN left -> DOMAIN uses] : Lists(k, left, g)
  <2>1. PICK of \in [DOMAIN times[k] -> DOMAIN uses] : Lists(k, times[k], of)
    BY <1>3 DEF TimesAreListed
  <2> QED
    BY <1>3, <2>1, PrunedIsListed
<1>10. IsBlocked(k) <=> l >= Capacity
  BY DEF IsBlocked
<1>11. \A x \in BudgetKeys : x # k =>
          \/ ~IsKept(x)' /\ Remembered(x)' = {} /\ times'[x] = <<>>
          \/ /\ Remembered(x)' = Remembered(x) /\ times'[x] = times[x]
             /\ IsKept(x) => IsKept(x)'
  BY OthersAfter
<1>12. times'[k] = IF IsBlocked(k) THEN left ELSE Append(left, now)
  BY <1>7
<1>13. /\ Append(left, now) \in Seq(Nat) /\ Len(Append(left, now)) = l + 1
       /\ \A p \in 1..l : Append(left, now)[p] = left[p]
       /\ Append(left, now)[l + 1] = now
  BY <1>7, <1>8, AppendProperties
<1> HIDE DEF n, u, left, l
<1>14. BudgetTypeOK'
  <2>1. ASSUME NEW x \in BudgetKeys PROVE times'[x] \in Seq(Nat)
    <3>1. CASE x = k
      BY <1>8, <1>12, <1>13, <3>1
    <3>2. CASE x # k
      <4>1. times[x] \in Seq(Nat) /\ <<>> \in Seq(Nat)
        BY <1>3 DEF BudgetTypeOK
      <4> QED
        BY <1>11, <3>2, <4>1
    <3> QED
      BY <3>1, <3>2
  <2>2. times' = [x \in BudgetKeys |-> times'[x]]
    BY <1>7
  <2>3. times' \in [BudgetKeys -> Seq(Nat)]
    BY <2>1, <2>2
  <2>4. now' \in 0..MaxTime
    BY <1>3, <1>7 DEF BudgetTypeOK
  <2> QED
    BY <1>1, <1>4, <2>3, <2>4 DEF BudgetTypeOK, Use
<1>15. LeastRecentFirst' /\ IsKept(k)'
  BY KeysStayInOrder
<1>16. EvictedAreForgotten'
  BY <1>3, <1>11, <1>15 DEF EvictedAreForgotten
<1>17. ClockAscends'
  <2>1. \A i \in DOMAIN uses' : uses'[i].time <= now
    <3>1. ASSUME NEW i \in 1..(n + 1) PROVE uses'[i].time <= now
      <4>1. CASE i = n + 1
        BY <1>2, <1>4, <1>7, <4>1
      <4>2. CASE i \in 1..n
        BY <1>3, <1>4, <4>2 DEF ClockAscends
      <4> QED
        BY <1>4, <4>1, <4>2
    <3> QED
      BY <1>4, <3>1
  <2>2. ASSUME NEW i \in 1..(n + 1), NEW j \in 1..(n + 1), i <= j
        PROVE  uses'[i].time <= uses'[j].time
    <3>1. CASE j = n + 1
      BY <1>2, <1>4, <2>1, <3>1
    <3>2. CASE j # n + 1
      <4>1. i \in 1..n /\ j \in 1..n
        BY <1>4, <2>2, <3>2
      <4> QED
        BY <1>3, <1>4, <2>2, <4>1 DEF ClockAscends
    <3> QED
      BY <3>1, <3>2
  <2> QED
    BY <1>4, <1>7, <2>1, <2>2 DEF ClockAscends
<1>18. TimesAreListed'
  <2>1. (\E of \in [DOMAIN times[k] -> DOMAIN uses] : Lists(k, times[k], of))'
    <3>1. DOMAIN left = 1..l
      BY <1>8 DEF l
    <3>2. /\ \A p \in 1..l : g[p] \in Remembered(k) /\ uses[g[p]].taken /\ uses[g[p]].time = left[p]
          /\ \A p, q \in 1..l : p < q => g[p] < g[q]
          /\ \A i \in Remembered(k) : uses[i].taken /\ ~Outside(uses[i].time) =>
                \E p \in 1..l : g[p] = i
      BY <1>9, <3>1 DEF Lists
    <3>3. \A t : Outside(t)' <=> Outside(t)
      BY <1>7 DEF Outside
    <3>4. \A p \in 1..l : g[p] \in 1..n /\ uses'[g[p]] = uses[g[p]]
      BY <1>4, <1>6, <3>2
    <3>5. CASE IsBlocked(k)
      <4>1. times'[k] = left
        BY <1>12, <3>5
      <4>2. g \in [DOMAIN left -> DOMAIN uses']
        BY <1>4, <1>9
      <4>3. ASSUME NEW i \in Remembered(k)', uses'[i].taken, ~(Outside(uses'[i].time))
            PROVE  \E p \in 1..l : g[p] = i
        <5>1. i # n + 1
          BY <1>2, <1>4, <3>5, <4>3
        <5>2. i \in Remembered(k) /\ uses'[i] = uses[i]
          BY <1>4, <1>5, <1>6, <4>3, <5>1
        <5> QED
          BY <3>2, <4>3, <5>2
      <4>4. Lists(k, times[k], g)'
        <5>1. DOMAIN times'[k] = 1..l
          BY <3>1, <4>1
        <5>2. \A p \in 1..l : g[p] \in Remembered(k)' /\ uses'[g[p]].taken
                              /\ uses'[g[p]].time = times'[k][p]
          BY <1>5, <3>2, <3>4, <4>1
        <5>3. \A i \in Remembered(k)' : uses'[i].taken /\ ~(Outside(uses'[i].time)) =>
                 \E p \in 1..l : g[p] = i
          BY <4>3
        <5>4. \A i \in Remembered(k)' : uses'[i].taken /\ ~(uses'[i].time <= now' - Seconds) =>
                 \E p \in 1..l : g[p] = i
          BY <1>7, <5>3 DEF Outside
        <5> QED
          BY <3>2, <5>1, <5>2, <5>4 DEF Lists, Outside
      <4> QED
        BY <4>1, <4>2, <4>4
    <3>6. CASE ~IsBlocked(k)
      <4>0. PICK h : h = [p \in 1..(l + 1) |-> IF p = l + 1 THEN n + 1 ELSE g[p]]
        OBVIOUS
      <4>1. times'[k] = Append(left, now) /\ DOMAIN times'[k] = 1..(l + 1)
        BY <1>12, <1>13, <3>6
      <4>2. h \in [1..(l + 1) -> DOMAIN uses']
        <5>1. ASSUME NEW p \in 1..(l + 1), p # l + 1 PROVE p \in 1..l
          BY <1>8, <5>1
        <5> QED
          BY <1>4, <3>4, <4>0, <5>1
      <4>3. h[l + 1] = n + 1 /\ \A p \in 1..l : h[p] = g[p]
        BY <1>8, <4>0
      <4>4. \A p \in 1..(l + 1) : p = l + 1 \/ p \in 1..l
        BY <1>8
      <4>5. ASSUME NEW p \in 1..(l + 1)
            PROVE  h[p] \in Remembered(k)' /\ uses'[h[p]].taken /\ uses'[h[p]].time = times'[k][p]
        <5>1. CASE p = l + 1
          BY <1>2, <1>4, <1>5, <1>13, <3>6, <4>1, <4>3, <5>1
        <5>2. CASE p \in 1..l
          BY <1>5, <1>13, <3>2, <3>4, <4>1, <4>3, <5>2
        <5> QED
          BY <4>4, <5>1, <5>2
      <4>6. ASSUME NEW p \in 1..(l + 1), NEW q \in 1..(l + 1), p < q PROVE h[p] < h[q]
        <5>1. p \in 1..l
          BY <1>8, <4>6
        <5>2. CASE q = l + 1
          <6>1. h[p] \in 1..n
            BY <3>4, <4>3, <5>1
          <6> QED
            BY <1>4, <4>3, <5>2, <6>1
        <5>3. CASE q \in 1..l
          BY <3>2, <4>3, <4>6, <5>1, <5>3
        <5> QED
          BY <4>4, <5>2, <5>3
      <4>7. ASSUME NEW i \in Remembered(k)', uses'[i].taken, ~(Outside(uses'[i].time))
            PROVE  \E p \in 1..(l + 1) : h[p] = i
        <5>1. CASE i = n + 1
          <6>1. l + 1 \in 1..(l + 1)
            BY <1>8
          <6> QED
            BY <4>3, <5>1, <6>1
        <5>2. CASE i # n + 1
          <6>1. i \in Remembered(k) /\ uses'[i] = uses[i]
            BY <1>4, <1>5, <1>6, <4>7, <5>2
          <6>2. PICK p \in 1..l : g[p] = i
            BY <3>2, <4>7, <6>1
          <6>3. p \in 1..(l + 1)
            BY <1>8
          <6> QED
            BY <4>3, <6>2, <6>3
        <5> QED
          BY <5>1, <5>2
      <4>8. Lists(k, times[k], h)'
        <5>1. \A i \in Remembered(k)' : uses'[i].taken /\ ~(uses'[i].time <= now' - Seconds) =>
                 \E p \in 1..(l + 1) : h[p] = i
          BY <1>7, <4>7 DEF Outside
        <5>2. DOMAIN times'[k] = 1..(l + 1)
          BY <4>1
        <5>3. \A p \in 1..(l + 1) : h[p] \in Remembered(k)' /\ uses'[h[p]].taken
                                    /\ uses'[h[p]].time = times'[k][p]
          BY <4>5
        <5>4. \A p, q \in 1..(l + 1) : p < q => h[p] < h[q]
          BY <4>6
        <5> QED
          BY <5>1, <5>2, <5>3, <5>4 DEF Lists, Outside
      <4>9. h \in [DOMAIN times'[k] -> DOMAIN uses']
        BY <4>1, <4>2
      <4> QED
        BY <4>8, <4>9
    <3> QED
      BY <3>5, <3>6
  <2>2. ASSUME NEW x \in BudgetKeys, x # k
        PROVE  (\E of \in [DOMAIN times[x] -> DOMAIN uses] : Lists(x, times[x], of))'
    <3>1. CASE Remembered(x)' = {} /\ times'[x] = <<>>
      <4>1. DOMAIN times'[x] = {} /\ <<>> \in [DOMAIN times'[x] -> DOMAIN uses']
        BY <3>1
      <4>2. Lists(x, times[x], <<>>)'
        BY <3>1, <4>1 DEF Lists
      <4> QED
        BY <4>1, <4>2
    <3>2. CASE Remembered(x)' = Remembered(x) /\ times'[x] = times[x]
      <4>1. PICK of \in [DOMAIN times[x] -> DOMAIN uses] : Lists(x, times[x], of)
        BY <1>3 DEF TimesAreListed
      <4>2. \A i \in Remembered(x) : uses'[i] = uses[i]
        BY <1>4, <1>6
      <4>3. Lists(x, times[x], of)'
        BY <1>7, <3>2, <4>1, <4>2 DEF Lists, Outside
      <4>4. of \in [DOMAIN times'[x] -> DOMAIN uses']
        BY <1>4, <3>2
      <4> QED
        BY <4>3, <4>4
    <3> QED
      BY <1>11, <2>2, <3>1, <3>2
  <2> QED
    BY <2>1, <2>2 DEF TimesAreListed
<1>19. NeverOverfull'
  <2>1. ASSUME NEW x \in BudgetKeys, x # k, NEW time \in 0..now
        PROVE  Cardinality(Counted(x, time)') <= Capacity
    <3>1. CASE Remembered(x)' = {}
      <4>1. Counted(x, time)' = {}
        BY <3>1 DEF Counted
      <4>2. Cardinality(Counted(x, time)') = 0 /\ Capacity \in Nat
        BY <4>1, FS_EmptySet DEF BudgetAssumption
      <4> QED
        BY <4>2
    <3>2. CASE Remembered(x)' = Remembered(x)
      <4>1. \A i \in Remembered(x) : uses'[i] = uses[i]
        BY <1>4, <1>6
      <4>2. Counted(x, time)' = Counted(x, time)
        BY <3>2, <4>1 DEF Counted
      <4> QED
        BY <1>3, <4>2 DEF NeverOverfull
    <3> QED
      BY <1>11, <2>1, <3>1, <3>2
  <2>2. ASSUME NEW time \in 0..now PROVE Cardinality(Counted(k, time)') <= Capacity
    <3>1. \A i \in Remembered(k) : uses'[i] = uses[i] /\ i # n + 1
      BY <1>4, <1>6
    <3>2. ASSUME ~(u.taken /\ u.time <= time)
          PROVE  Cardinality(Counted(k, time)') <= Capacity
      <4>1. Counted(k, time)' = Counted(k, time)
        BY <1>4, <1>5, <3>1, <3>2 DEF Counted
      <4> QED
        BY <1>3, <4>1 DEF NeverOverfull
    <3>3. ASSUME u.taken, u.time <= time
          PROVE  Cardinality(Counted(k, time)') <= Capacity
      <4>1. time = now
        BY <1>2, <1>7, <3>3
      <4>2. Counted(k, time)' \subseteq Counted(k, now) \cup {n + 1}
        BY <1>5, <3>1, <4>1 DEF Counted
      <4>3. n + 1 \notin Counted(k, now)
        BY <3>1 DEF Counted
      <4>4. /\ IsFiniteSet(Counted(k, now) \cup {n + 1})
            /\ Cardinality(Counted(k, now) \cup {n + 1}) = l + 1
        BY <1>8, <4>3, FS_AddElement
      <4>5. IsFiniteSet(Counted(k, time)') /\ Cardinality(Counted(k, time)') <= l + 1
        BY <4>2, <4>4, FS_Subset
      <4>6. Cardinality(Counted(k, time)') \in Nat
        BY <4>5, FS_CardinalityType
      <4>7. l + 1 <= Capacity
        BY <1>2, <1>8, <1>10, <3>3 DEF BudgetAssumption
      <4> QED
        BY <1>8, <4>5, <4>6, <4>7 DEF BudgetAssumption
    <3> QED
      BY <3>2, <3>3
  <2> QED
    BY <1>7, <2>1, <2>2 DEF NeverOverfull
<1> QED
  BY <1>14, <1>15, <1>16, <1>17, <1>18, <1>19 DEF BudgetInv

LEMMA BudgetKept == BudgetAssumption /\ BudgetInv /\ [BudgetNext]_budgetVars => BudgetInv'
<1> SUFFICES ASSUME BudgetAssumption, BudgetInv, [BudgetNext]_budgetVars PROVE BudgetInv'
  OBVIOUS
<1>1. CASE Tick
  BY <1>1, TickKeeps
<1>2. ASSUME NEW k \in BudgetKeys, Ask(k) PROVE BudgetInv'
  BY <1>2, AskKeeps
<1>3. ASSUME NEW k \in BudgetKeys, Record(k) PROVE BudgetInv'
  BY <1>3, RecordKeeps
<1>4. ASSUME NEW k \in BudgetKeys, Accept(k) PROVE BudgetInv'
  BY <1>2, <1>3, <1>4 DEF Accept
<1>5. CASE UNCHANGED budgetVars
  <2>1. /\ now' = now /\ records' = records /\ times' = times /\ uses' = uses
    BY <1>5 DEF budgetVars
  <2>2. BudgetTypeOK' /\ LeastRecentFirst' /\ ClockAscends'
    BY <2>1 DEF BudgetInv, BudgetTypeOK, LeastRecentFirst, ClockAscends
  <2>3. \A x : Remembered(x)' = Remembered(x)
    BY <2>1 DEF Remembered
  <2>4. EvictedAreForgotten'
    BY <2>1, <2>3 DEF BudgetInv, EvictedAreForgotten, IsKept
  <2>5. \A x, ts, of : Lists(x, ts, of)' <=> Lists(x, ts, of)
    BY <2>1, <2>3 DEF Lists, Outside
  <2>6. TimesAreListed'
    BY <2>1, <2>5 DEF BudgetInv, TimesAreListed
  <2>7. NeverOverfull'
    BY <2>1, <2>3 DEF BudgetInv, NeverOverfull, Counted
  <2> QED
    BY <2>2, <2>4, <2>6, <2>7 DEF BudgetInv
<1> QED
  BY <1>1, <1>2, <1>3, <1>4, <1>5 DEF BudgetNext

\* What the windows of a budget say is what was used: a key is blocked exactly while its
\* window is full of the uses that took a place, a window is never overfull, refused uses
\* prolong no block, and retry_after is when the block ends (WindowBudget).
THEOREM BudgetsAreExact == BudgetSpec => []BudgetIsExact
<1>1. BudgetInit => BudgetInv
  BY BudgetStarts, BudgetAssumption
<1>2. BudgetInv /\ [BudgetNext]_budgetVars => BudgetInv'
  BY BudgetKept, BudgetAssumption
<1>3. BudgetInv => BudgetIsExact
  BY ExactNow, BudgetAssumption
<1> QED
  BY <1>1, <1>2, <1>3, PTL DEF BudgetSpec

\* A budget keeps lists of times for no more keys than it may, the most recently used.
THEOREM BudgetsStaySmall == BudgetSpec => [](BudgetTypeOK /\ LeastRecentFirst)
<1>1. BudgetInit => BudgetInv
  BY BudgetStarts, BudgetAssumption
<1>2. BudgetInv /\ [BudgetNext]_budgetVars => BudgetInv'
  BY BudgetKept, BudgetAssumption
<1>3. BudgetInv => BudgetTypeOK /\ LeastRecentFirst
  BY DEF BudgetInv
<1> QED
  BY <1>1, <1>2, <1>3, PTL DEF BudgetSpec
-----------------------------------------------------------------------------
(* The two parts together *)

\* Recording a use moves no socket and a socket's handler no budget: what TLC checks is a
\* behaviour of the endpoint and of a budget, so what is proved of each holds of it.
LEMMA GatewayRunsBoth == MCSpec => ConnectionsSpec /\ BudgetSpec
<1>1. MCInit => ConnectionsInit /\ BudgetInit
  BY DEF MCInit
<1>2. [MCNext]_<<part, connectionVars, budgetVars>> => [ConnectionsNext]_connectionVars
  BY DEF MCNext
<1>3. [MCNext]_<<part, connectionVars, budgetVars>> => [BudgetNext]_budgetVars
  BY DEF MCNext
<1> QED
  BY <1>1, <1>2, <1>3, PTL DEF MCSpec, ConnectionsSpec, BudgetSpec

\* Sockets, logins, games and budgets hold what their types say, and no more sockets are
\* pending and no more keys are kept than the settings allow.
THEOREM GatewayTyped == MCSpec => []TypeOK
<1> DEFINE Whole == part \in {"sockets", "budget"}
<1>1. MCInit => Whole
  BY DEF MCInit
<1>2. Whole /\ [MCNext]_<<part, connectionVars, budgetVars>> => Whole'
  BY DEF MCNext
<1>3. (ConnectionsTypeOK /\ BudgetTypeOK /\ LeastRecentFirst /\ Whole) => TypeOK
  BY DEF TypeOK
<1> HIDE DEF Whole
<1> QED
  BY <1>1, <1>2, <1>3, GatewayRunsBoth, ConnectionsTyped, BudgetsStaySmall, PTL DEF MCSpec
=============================================================================
