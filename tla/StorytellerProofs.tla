-------------------------- MODULE StorytellerProofs --------------------------
(***************************************************************************)
(* Proofs about the two parts of the storyteller that keep a state of      *)
(* their own: the cache of token counts is accounted for to the byte, and  *)
(* a round rolls nothing the host's rule and the planner do not authorize. *)
(***************************************************************************)
EXTENDS MCChronicle, ChronicleProofs, SequenceTheorems, WellFoundedInduction, TLAPS

-----------------------------------------------------------------------------
(* Induction over the places of a list *)

\* The library's induction takes a predicate; a set of numbers does as well.
LEMMA Counting ==
    ASSUME NEW S \in SUBSET Nat, 0 \in S, \A n \in S : n + 1 \in S
    PROVE  \A n \in Nat : n \in S
<1> DEFINE missing == Nat \ S
           less == OpToRel(<, Nat)
<1>1. SUFFICES ASSUME missing # {}
               PROVE  FALSE
  OBVIOUS
<1>2. \A i, j \in Nat : i < j => <<i, j>> \in less
  BY DEF OpToRel
<1>3. IsWellFoundedOn(less, Nat)
  BY NatLessThanWellFounded
<1>4. missing \subseteq Nat
  OBVIOUS
<1> HIDE DEF less, missing
<1>5. PICK x \in missing : \A y \in missing : ~(<<y, x>> \in less)
  BY <1>1, <1>3, <1>4, WFMin
<1>6. x \in Nat /\ x # 0 /\ x \notin S
  BY <1>5 DEF missing
<1>7. x - 1 \in Nat /\ x - 1 < x /\ (x - 1) + 1 = x
  BY <1>6
<1>8. x - 1 \in S
  BY <1>2, <1>5, <1>6, <1>7 DEF missing
<1> QED
  BY <1>6, <1>7, <1>8

Runs(S, base, step, N) ==
    \E f \in [0..N -> S] :
        /\ f[0] = base
        /\ \A n \in 1..N : f[n] = step[<<f[n - 1], n>>]

\* A step that stays in a set can be repeated any number of times.
LEMMA Iteration ==
    ASSUME NEW S, NEW base \in S, NEW step \in [S \X Nat -> S], NEW N \in Nat
    PROVE  Runs(S, base, step, N)
<1> DEFINE Good(f, m) == f[0] = base /\ \A n \in 1..m : f[n] = step[<<f[n - 1], n>>]
           reached == {m \in Nat : \E f \in [0..m -> S] : Good(f, m)}
<1>1. 0 \in reached
  <2>1. [n \in 0..0 |-> base] \in [0..0 -> S] /\ Good([n \in 0..0 |-> base], 0)
    OBVIOUS
  <2> QED
    BY <2>1
<1>2. ASSUME NEW m \in reached
      PROVE  m + 1 \in reached
  <2>1. PICK f \in [0..m -> S] : Good(f, m)
    BY <1>2
  <2> DEFINE g == [n \in 0..(m + 1) |-> IF n \in 0..m THEN f[n] ELSE step[<<f[m], m + 1>>]]
  <2>2. m \in Nat /\ m \in 0..m /\ f[m] \in S /\ step[<<f[m], m + 1>>] \in S
    BY <1>2
  <2>3. g \in [0..(m + 1) -> S]
    BY <2>1, <2>2
  <2>4. ASSUME NEW n \in 1..(m + 1)
        PROVE  g[n] = step[<<g[n - 1], n>>]
    <3>1. CASE n \in 1..m
      <4>1. n \in 0..m /\ n - 1 \in 0..m /\ n \in 0..(m + 1) /\ n - 1 \in 0..(m + 1)
        BY <2>2, <3>1
      <4>2. g[n] = f[n] /\ g[n - 1] = f[n - 1]
        BY <4>1
      <4> QED
        BY <2>1, <3>1, <4>2
    <3>2. CASE n = m + 1
      <4>1. n \notin 0..m /\ n - 1 = m /\ n \in 0..(m + 1) /\ m \in 0..(m + 1)
        BY <2>2, <3>2
      <4> QED
        BY <2>2, <3>2, <4>1
    <3> QED
      BY <2>2, <3>1, <3>2
  <2>5. g[0] = base
    BY <2>1, <2>2
  <2>6. Good(g, m + 1)
    BY <2>4, <2>5
  <2> HIDE DEF g, Good
  <2> QED
    BY <2>2, <2>3, <2>6
<1> HIDE DEF reached
<1>3. N \in reached
  <2>1. reached \in SUBSET Nat
    BY DEF reached
  <2> QED
    BY <1>1, <1>2, <2>1, Counting
<1> QED
  BY <1>3 DEF reached, Runs

-----------------------------------------------------------------------------
(* The size of a list of keys *)

Sums(f, s) == f[0] = 0 /\ \A n \in 1..Len(s) : f[n] = f[n - 1] + Bytes[s[n]]

LEMMA WeightIs ==
    ASSUME CountsAssumption, NEW s \in Seq(Keys)
    PROVE  \E f \in [0..Len(s) -> Nat] : Sums(f, s) /\ Weight(s) = f[Len(s)]
<1> DEFINE N == Len(s)
           step == [p \in Nat \X Nat |-> IF p[2] \in 1..N THEN p[1] + Bytes[s[p[2]]] ELSE p[1]]
           Adds(f) == f = [n \in 0..N |-> IF n = 0 THEN 0 ELSE f[n - 1] + Bytes[s[n]]]
           sum == CHOOSE f : Adds(f)
<1>1. N \in Nat /\ \A n \in 1..N : Bytes[s[n]] \in Nat
  BY DEF CountsAssumption
<1>2. step \in [Nat \X Nat -> Nat]
  BY <1>1
<1>3. \A t \in Nat, n \in 1..N : step[<<t, n>>] = t + Bytes[s[n]]
  BY <1>1
<1>4. Weight(s) = sum[N]
  BY DEF Weight
<1> HIDE DEF step, N
<1>5. PICK g \in [0..N -> Nat] : g[0] = 0 /\ \A n \in 1..N : g[n] = step[<<g[n - 1], n>>]
  <2>1. Runs(Nat, 0, step, N)
    BY <1>1, <1>2, Iteration
  <2> QED
    BY <2>1 DEF Runs
<1>6. \A n \in 1..N : n - 1 \in 0..N /\ n \in 0..N /\ n # 0
  BY <1>1
<1>7. Adds(g)
  <2>1. \A n \in 1..N : g[n] = g[n - 1] + Bytes[s[n]]
    BY <1>3, <1>5, <1>6
  <2>2. \A n \in 0..N : g[n] = IF n = 0 THEN 0 ELSE g[n - 1] + Bytes[s[n]]
    <3>1. \A n \in 0..N : n = 0 \/ n \in 1..N
      BY <1>1
    <3> QED
      BY <1>5, <2>1, <3>1
  <2>3. g = [n \in 0..N |-> g[n]]
    OBVIOUS
  <2> QED
    BY <2>2, <2>3
<1>8. Adds(sum)
  <2>1. \E f : Adds(f)
    BY <1>7
  <2> HIDE DEF Adds
  <2> QED
    BY <2>1, Zenon
<1> HIDE DEF sum
<1>9. sum[0] = 0 /\ \A n \in 1..N : sum[n] = sum[n - 1] + Bytes[s[n]]
  <2>1. \A n \in 0..N : sum[n] = IF n = 0 THEN 0 ELSE sum[n - 1] + Bytes[s[n]]
    BY <1>8
  <2>2. 0 \in 0..N
    BY <1>1
  <2> QED
    BY <1>6, <2>1, <2>2
<1> DEFINE typed == {n \in Nat : n \in 0..N => sum[n] \in Nat}
<1>10. \A n \in Nat : n \in typed
  <2>1. 0 \in typed
    BY <1>9
  <2>2. ASSUME NEW n \in typed PROVE n + 1 \in typed
    <3>1. CASE n + 1 \in 0..N
      <4>1. n \in 0..N /\ n + 1 \in 1..N /\ (n + 1) - 1 = n
        BY <1>1, <3>1
      <4>2. sum[n + 1] = sum[n] + Bytes[s[n + 1]]
        <5>1. sum[n + 1] = sum[(n + 1) - 1] + Bytes[s[n + 1]]
          BY <1>9, <4>1
        <5> QED
          BY <4>1, <5>1
      <4>3. sum[n] \in Nat
        BY <4>1
      <4>4. Bytes[s[n + 1]] \in Nat
        BY <1>1, <4>1
      <4>5. sum[n + 1] \in Nat
        BY <4>2, <4>3, <4>4
      <4> QED
        BY <4>5
    <3> QED
      BY <3>1
  <2> HIDE DEF typed
  <2>3. typed \in SUBSET Nat
    BY DEF typed
  <2> QED
    BY <2>1, <2>2, <2>3, Counting
<1>11. sum \in [0..N -> Nat]
  <2>1. sum = [n \in 0..N |-> sum[n]]
    BY <1>8
  <2>2. \A n \in 0..N : sum[n] \in Nat
    BY <1>1, <1>10
  <2> QED
    BY <2>1, <2>2
<1> QED
  BY <1>4, <1>9, <1>11 DEF N, Sums

\* Lists that agree up to a place have the same sums there.
SameTo(f, g, m) == \A n \in 0..m : f[n] = g[n]
Agree(s, t, m) ==
    /\ m \in Nat /\ Len(s) \in Nat /\ Len(t) \in Nat /\ m <= Len(s) /\ m <= Len(t)
    /\ \A n \in 1..m : s[n] = t[n]

LEMMA SameSums ==
    ASSUME NEW s, NEW t, NEW f, NEW g, Sums(f, s), Sums(g, t), NEW m, Agree(s, t, m)
    PROVE  SameTo(f, g, m)
<1> USE DEF Agree
<1> DEFINE same == {n \in Nat : n \in 0..m => f[n] = g[n]}
<1>1. 0 \in same
  BY DEF Sums
<1>2. ASSUME NEW n \in same PROVE n + 1 \in same
  <2>1. CASE n + 1 \in 0..m
    <3>1. n \in 0..m /\ n + 1 \in 1..Len(s) /\ n + 1 \in 1..Len(t) /\ (n + 1) - 1 = n
          /\ n + 1 \in 1..m
      BY <2>1
    <3>2. f[n + 1] = f[n] + Bytes[s[n + 1]] /\ g[n + 1] = g[n] + Bytes[t[n + 1]]
      BY <3>1 DEF Sums
    <3> QED
      BY <3>1, <3>2
  <2> QED
    BY <2>1
<1> HIDE DEF same
<1>3. \A n \in Nat : n \in same
  <2>1. same \in SUBSET Nat
    BY DEF same
  <2> QED
    BY <1>1, <1>2, <2>1, Counting
<1> QED
  BY <1>3 DEF same, SameTo

LEMMA WeightAppended ==
    ASSUME CountsAssumption, NEW s \in Seq(Keys), NEW k \in Keys
    PROVE  /\ Weight(s) \in Nat /\ Bytes[k] \in Nat
           /\ Weight(Append(s, k)) = Weight(s) + Bytes[k]
<1>1. PICK f \in [0..Len(s) -> Nat] : Sums(f, s) /\ Weight(s) = f[Len(s)]
  BY WeightIs
<1> DEFINE t == Append(s, k)
<1>2. /\ t \in Seq(Keys) /\ Len(t) = Len(s) + 1 /\ Len(s) \in Nat
      /\ \A n \in 1..Len(s) : t[n] = s[n]
      /\ t[Len(s) + 1] = k
  BY AppendProperties
<1> HIDE DEF t
<1>3. PICK g \in [0..Len(t) -> Nat] : Sums(g, t) /\ Weight(t) = g[Len(t)]
  BY <1>2, WeightIs
<1>4. f[Len(s)] = g[Len(s)]
  <2>1. Agree(s, t, Len(s))
    BY <1>2 DEF Agree
  <2>2. SameTo(f, g, Len(s))
    BY <1>1, <1>3, <2>1, SameSums
  <2> QED
    BY <1>2, <2>2 DEF SameTo
<1>5. g[Len(s) + 1] = g[Len(s)] + Bytes[k]
  <2>1. Len(s) + 1 \in 1..Len(t) /\ (Len(s) + 1) - 1 = Len(s)
    BY <1>2
  <2> QED
    BY <1>2, <1>3, <2>1 DEF Sums
<1>6. Bytes[k] \in Nat /\ f[Len(s)] \in Nat
  <2>1. Len(s) \in 0..Len(s)
    BY <1>2
  <2>2. f[Len(s)] \in Nat
    BY <1>1, <2>1
  <2>3. Bytes \in [Keys -> Nat \ {0}]
    BY DEF CountsAssumption
  <2>4. Bytes[k] \in Nat
    BY <2>3
  <2> QED
    BY <2>2, <2>4
<1> QED
  BY <1>1, <1>2, <1>3, <1>4, <1>5, <1>6 DEF t

\* The rest of a list weighs what the list does without the key taken out.
LEMMA RestOf ==
    ASSUME NEW S, NEW s \in Seq(S), NEW i \in 1..Len(s)
    PROVE  /\ RemoveAt(s, i) \in Seq(S) /\ Len(RemoveAt(s, i)) = Len(s) - 1
           /\ \A p \in 1..(Len(s) - 1) : RemoveAt(s, i)[p] = IF p < i THEN s[p] ELSE s[p + 1]
<1> DEFINE n == Len(s)
           left == SubSeq(s, 1, i - 1)
           right == SubSeq(s, i + 1, n)
           both == left \o right
<1>1. n \in Nat /\ DOMAIN s = 1..n /\ \A p \in 1..n : s[p] \in S
  OBVIOUS
<1>2. i \in Int /\ 1 <= i /\ i <= n
  BY <1>1
<1>3. /\ left \in Seq(S) /\ Len(left) = i - 1
      /\ \A p \in 1..(i - 1) : left[p] = s[p]
  <2>1. 1 \in Int /\ i - 1 \in Int /\ \A p \in 1..(i - 1) : s[p] \in S
    BY <1>1, <1>2
  <2>2. /\ left \in Seq(S)
        /\ Len(left) = IF 1 <= i - 1 THEN i - 1 - 1 + 1 ELSE 0
        /\ \A p \in 1..(i - 1 - 1 + 1) : left[p] = s[1 + p - 1]
    BY <2>1, SubSeqProperties
  <2> HIDE DEF left
  <2>3. i - 1 - 1 + 1 = i - 1 /\ \A p \in 1..(i - 1) : 1 + p - 1 = p
    BY <1>2
  <2>4. Len(left) = i - 1
    BY <1>2, <2>2
  <2> QED
    BY <2>2, <2>3, <2>4
<1>4. /\ right \in Seq(S) /\ Len(right) = n - i
      /\ \A p \in 1..(n - i) : right[p] = s[i + p]
  <2>1. i + 1 \in Int /\ n \in Int /\ \A p \in (i + 1)..n : s[p] \in S
    BY <1>1, <1>2
  <2>2. /\ right \in Seq(S)
        /\ Len(right) = IF i + 1 <= n THEN n - (i + 1) + 1 ELSE 0
        /\ \A p \in 1..(n - (i + 1) + 1) : right[p] = s[(i + 1) + p - 1]
    BY <2>1, SubSeqProperties
  <2> HIDE DEF right, n
  <2>3. n - (i + 1) + 1 = n - i /\ \A p \in 1..(n - i) : (i + 1) + p - 1 = i + p
    BY <1>1, <1>2
  <2>4. CASE i + 1 <= n
    BY <2>2, <2>3, <2>4
  <2>5. CASE ~(i + 1 <= n)
    <3>1. n - i = 0
      BY <1>1, <1>2, <2>5
    <3> QED
      BY <2>2, <2>3, <2>5, <3>1
  <2> QED
    BY <2>4, <2>5
<1> HIDE DEF left, right
<1>5. /\ both \in Seq(S) /\ Len(both) = Len(left) + Len(right)
      /\ \A p \in 1..(Len(left) + Len(right)) :
            both[p] = IF p <= Len(left) THEN left[p] ELSE right[p - Len(left)]
  BY <1>3, <1>4, ConcatProperties
<1> HIDE DEF both
<1>6. ASSUME NEW p \in 1..(n - 1) PROVE both[p] = IF p < i THEN s[p] ELSE s[p + 1]
  <2>1. CASE p < i
    <3>1. p \in 1..(i - 1) /\ p \in 1..(Len(left) + Len(right)) /\ p <= Len(left)
      BY <1>1, <1>2, <1>3, <1>4, <2>1
    <3> QED
      BY <1>3, <1>5, <2>1, <3>1
  <2>2. CASE ~(p < i)
    <3>1. /\ p \in 1..(Len(left) + Len(right)) /\ ~(p <= Len(left))
          /\ p - Len(left) \in 1..(n - i) /\ i + (p - Len(left)) = p + 1
      BY <1>1, <1>2, <1>3, <1>4, <2>2
    <3> QED
      BY <1>4, <1>5, <2>2, <3>1
  <2> QED
    BY <2>1, <2>2
<1>7. Len(left) + Len(right) = n - 1
  BY <1>1, <1>2, <1>3, <1>4
<1>8. RemoveAt(s, i) = both
  BY DEF RemoveAt, both, left, right
<1> QED
  BY <1>5, <1>6, <1>7, <1>8

LEMMA WeightOfRest ==
    ASSUME CountsAssumption, NEW s \in Seq(Keys), NEW i \in 1..Len(s)
    PROVE  Weight(RemoveAt(s, i)) = Weight(s) - Bytes[s[i]]
<1> DEFINE t == RemoveAt(s, i)
           l == Len(s)
<1>1. /\ t \in Seq(Keys) /\ Len(t) = l - 1 /\ l \in Nat /\ i \in Nat /\ 1 <= i /\ i <= l
      /\ \A p \in 1..(l - 1) : t[p] = IF p < i THEN s[p] ELSE s[p + 1]
  <2>1. l \in Nat /\ i \in Nat /\ 1 <= i /\ i <= l
    OBVIOUS
  <2>2. /\ t \in Seq(Keys) /\ Len(t) = Len(s) - 1
        /\ \A p \in 1..(Len(s) - 1) : t[p] = IF p < i THEN s[p] ELSE s[p + 1]
    BY RestOf
  <2> QED
    BY <2>1, <2>2
<1> HIDE DEF t
<1>2. PICK f \in [0..l -> Nat] : Sums(f, s) /\ Weight(s) = f[l]
  BY WeightIs
<1>3. PICK g \in [0..Len(t) -> Nat] : Sums(g, t) /\ Weight(t) = g[Len(t)]
  BY <1>1, WeightIs
<1>4. Bytes[s[i]] \in Nat /\ \A p \in 1..l : Bytes[s[p]] \in Nat
  BY <1>1 DEF CountsAssumption
<1>0. Sums(f, s) /\ Sums(g, t) /\ l = Len(s)
  BY <1>2, <1>3
<1>12. Len(t) = l - 1 /\ l \in Nat /\ i \in Nat /\ 1 <= i /\ i <= l
  BY <1>1
<1> HIDE DEF l
<1>5. g[i - 1] = f[i - 1]
  <2>1. Agree(s, t, i - 1)
    <3>1. i - 1 \in Nat /\ i - 1 <= l /\ i - 1 <= Len(t) /\ Len(t) \in Nat
      BY <1>12
    <3>2. \A n \in 1..(i - 1) : s[n] = t[n]
      BY <1>1
    <3> QED
      BY <1>0, <1>1, <3>1, <3>2 DEF Agree
  <2>2. SameTo(f, g, i - 1)
    BY <1>0, <2>1, SameSums
  <2> QED
    BY <1>1, <2>2 DEF SameTo
<1> DEFINE less == {n \in Nat : i + n <= l => g[i - 1 + n] = f[i + n] - Bytes[s[i]]}
<1>6. 0 \in less
  <2>1. f[i] = f[i - 1] + Bytes[s[i]] /\ f[i - 1] \in Nat
    <3>1. i \in 1..l /\ i - 1 \in 0..l
      BY <1>12
    <3>2. f[i] = f[i - 1] + Bytes[s[i]]
      BY <1>0, <3>1 DEF Sums
    <3> QED
      BY <1>2, <3>1, <3>2
  <2>2. f[i] - Bytes[s[i]] = f[i - 1]
    BY <1>4, <2>1
  <2>3. i - 1 + 0 = i - 1 /\ i + 0 = i
    BY <1>1
  <2> QED
    BY <1>5, <2>2, <2>3
<1>7. ASSUME NEW n \in less PROVE n + 1 \in less
  <2>1. ASSUME i + (n + 1) <= l PROVE g[i - 1 + (n + 1)] = f[i + (n + 1)] - Bytes[s[i]]
    <3>0. n \in Nat
      OBVIOUS
    <3>1. /\ n \in Nat /\ i + n <= l /\ i + n \in 1..(l - 1) /\ ~(i + n < i)
          /\ (i + n) - 1 = i - 1 + n /\ i - 1 + (n + 1) = i + n
          /\ i + n + 1 = i + (n + 1) /\ i + n + 1 \in 1..l /\ (i + n + 1) - 1 = i + n
      <4> HIDE DEF less
      <4>1. i + n <= l /\ i + n \in 1..(l - 1) /\ ~(i + n < i)
        BY <1>12, <2>1, <3>0
      <4>2. /\ (i + n) - 1 = i - 1 + n /\ i - 1 + (n + 1) = i + n
            /\ i + n + 1 = i + (n + 1) /\ (i + n + 1) - 1 = i + n
        BY <1>1, <3>0
      <4>3. i + n + 1 \in 1..l
        BY <1>1, <2>1, <3>0
      <4> QED
        BY <3>0, <4>1, <4>2, <4>3
    <3>2. g[i - 1 + n] = f[i + n] - Bytes[s[i]]
      BY <3>1
    <3>3. t[i + n] = s[i + n + 1]
      BY <1>1, <3>1
    <3>4. g[i + n] = g[i - 1 + n] + Bytes[t[i + n]]
      BY <1>0, <1>1, <3>1 DEF Sums
    <3>5. f[i + n + 1] = f[i + n] + Bytes[s[i + n + 1]]
      BY <1>2, <3>1 DEF Sums, l
    <3>6. f[i + n] \in Nat /\ Bytes[s[i + n + 1]] \in Nat
      <4>1. i + n \in 0..l
        BY <1>1, <3>1
      <4> QED
        BY <1>2, <1>4, <3>1, <4>1
    <3>7. g[i + n] = f[i + n + 1] - Bytes[s[i]]
      BY <1>4, <3>2, <3>3, <3>4, <3>5, <3>6
    <3> QED
      BY <3>1, <3>7
  <2> QED
    BY <2>1
<1> HIDE DEF less
<1>8. \A n \in Nat : n \in less
  <2>1. less \in SUBSET Nat
    BY DEF less
  <2> QED
    BY <1>6, <1>7, <2>1, Counting
<1>9. l - i \in Nat /\ i + (l - i) <= l /\ i - 1 + (l - i) = l - 1 /\ i + (l - i) = l
  BY <1>1
<1>10. g[l - 1] = f[l] - Bytes[s[i]]
  BY <1>8, <1>9 DEF less
<1> QED
  BY <1>1, <1>2, <1>3, <1>10 DEF t

-----------------------------------------------------------------------------
(* What is kept of a cache that is too large *)

LEMMA SuffixOf ==
    ASSUME CountsAssumption, NEW e \in Seq(Keys), NEW s \in Suffixes(e)
    PROVE  /\ s \in Seq(Keys) /\ Len(s) <= Len(e)
           /\ IsInjective(e) => IsInjective(s)
<1> DEFINE n == Len(e)
<1>1. n \in Nat /\ DOMAIN e = 1..n /\ \A p \in 1..n : e[p] \in Keys
  OBVIOUS
<1>2. CASE s = <<>>
  BY <1>1, <1>2 DEF IsInjective
<1>3. ASSUME NEW l \in 1..n, s = SubSeq(e, l, n)
      PROVE  s \in Seq(Keys) /\ Len(s) <= n /\ (IsInjective(e) => IsInjective(s))
  <2>1. l \in Int /\ n \in Int /\ 1 <= l /\ l <= n
    BY <1>1
  <2>2. \A p \in l..n : e[p] \in Keys
    BY <1>1
  <2>3. /\ s \in Seq(Keys)
        /\ Len(s) = IF l <= n THEN n - l + 1 ELSE 0
        /\ \A p \in 1..(n - l + 1) : s[p] = e[l + p - 1]
    BY <1>3, <2>1, <2>2, SubSeqProperties
  <2> HIDE DEF n
  <2>4. Len(s) = n - l + 1 /\ DOMAIN s = 1..(n - l + 1)
    BY <2>1, <2>3
  <2>5. ASSUME IsInjective(e), NEW p \in DOMAIN s, NEW q \in DOMAIN s, s[p] = s[q]
        PROVE  p = q
    <3>1. p \in 1..(n - l + 1) /\ q \in 1..(n - l + 1)
      BY <2>4
    <3>2. e[l + p - 1] = e[l + q - 1]
      BY <2>3, <2>5, <3>1
    <3>3. l + p - 1 \in 1..n /\ l + q - 1 \in 1..n
      BY <1>1, <2>1, <3>1
    <3>4. l + p - 1 = l + q - 1
      BY <1>1, <2>5, <3>2, <3>3 DEF IsInjective
    <3> QED
      BY <2>1, <3>1, <3>4
  <2>6. Len(s) <= n
    BY <2>1, <2>4
  <2> QED
    BY <2>3, <2>5, <2>6 DEF IsInjective
<1> QED
  BY <1>2, <1>3 DEF Suffixes

LEMMA WeightOfNothing ==
    ASSUME CountsAssumption
    PROVE  Weight(<<>>) = 0
<1>1. <<>> \in Seq(Keys) /\ Len(<<>>) = 0
  OBVIOUS
<1>2. PICK f \in [0..Len(<<>>) -> Nat] : Sums(f, <<>>) /\ Weight(<<>>) = f[Len(<<>>)]
  BY <1>1, WeightIs
<1> QED
  BY <1>1, <1>2 DEF Sums

\* The longest suffix that fits exists, as the empty one does.
LEMMA KeptFits ==
    ASSUME CountsAssumption, NEW e \in Seq(Keys)
    PROVE  Kept(e, Weight(e)) \in Fitting(e, Weight(e))
<1> DEFINE fits == Fitting(e, Weight(e))
           spare == {n \in Nat : \E s \in fits : n = Len(e) - Len(s)}
           less == OpToRel(<, Nat)
<1>1. Weight(e) \in Nat
  BY WeightAppended DEF CountsAssumption
<1>2. <<>> \in fits
  <2>1. Weight(e) - (Weight(e) - Weight(<<>>)) = 0
    BY <1>1, WeightOfNothing
  <2>2. 0 <= MaxBytes /\ Len(<<>>) <= MaxEntries
    BY DEF CountsAssumption
  <2>3. <<>> \in Suffixes(e)
    BY DEF Suffixes
  <2> QED
    BY <2>1, <2>2, <2>3 DEF Fitting
<1>3. \A s \in fits : s \in Seq(Keys) /\ Len(s) <= Len(e)
  BY SuffixOf DEF Fitting
<1>4. \A s \in fits : Len(e) - Len(s) \in spare
  BY <1>3
<1>5. \A i, j \in Nat : i < j => <<i, j>> \in less
  BY DEF OpToRel
<1>6. IsWellFoundedOn(less, Nat)
  BY NatLessThanWellFounded
<1>7. spare \subseteq Nat /\ spare # {}
  BY <1>2, <1>4
<1> HIDE DEF less
<1>8. PICK x \in spare : \A y \in spare : ~(<<y, x>> \in less)
  <2> HIDE DEF spare
  <2> QED
    BY <1>6, <1>7, WFMin
<1>9. PICK s \in fits : x = Len(e) - Len(s)
  BY <1>8
<1>10. \A r \in fits : Len(r) <= Len(s)
  <2> TAKE r \in fits
  <2>1. Len(e) - Len(r) \in spare /\ x \in Nat /\ Len(e) - Len(r) \in Nat
    BY <1>4, <1>8
  <2>2. ~(Len(e) - Len(r) < x)
    BY <1>5, <1>8, <2>1
  <2>3. Len(e) \in Nat /\ Len(r) \in Nat /\ Len(s) \in Nat
    BY <1>3
  <2> QED
    BY <1>9, <2>2, <2>3
<1>11. Kept(e, Weight(e)) = CHOOSE t \in fits : \A r \in fits : Len(r) <= Len(t)
  BY DEF Kept
<1> HIDE DEF fits
<1> QED
  BY <1>10, <1>11 DEF fits

-----------------------------------------------------------------------------
(* The cache of token counts *)

CountsInv == CountsTypeOK /\ Len(tasks) <= MaxTasks /\ CacheIsAccounted

LEMMA CountsStart ==
    ASSUME CountsAssumption, CountsInit
    PROVE  CountsInv
<1>1. cache = <<>> /\ cache \in Seq(Keys) /\ Len(cache) = 0 /\ IsInjective(cache)
  BY DEF CountsInit, IsInjective
<1>2. CacheIsAccounted
  BY <1>1, WeightOfNothing DEF CountsInit, CacheIsAccounted, CountsAssumption
<1>3. Idling \in [key : Keys, task : 0..MaxTasks]
  BY DEF Idling, CountsAssumption
<1>4. CountsTypeOK
  BY <1>1, <1>3 DEF CountsInit, CountsTypeOK, CountsAssumption
<1>5. Len(tasks) <= MaxTasks
  BY DEF CountsInit, CountsAssumption
<1> QED
  BY <1>2, <1>4, <1>5 DEF CountsInv

\* A step that leaves the cache alone.
CacheStays == UNCHANGED <<cache, cacheBytes>>

LEMMA StaysAccounted ==
    ASSUME CacheIsAccounted, CacheStays
    PROVE  CacheIsAccounted'
BY DEF CacheIsAccounted, CacheStays

LEMMA HitStep ==
    ASSUME CountsAssumption, CountsInv, NEW c \in Callers, NEW k \in Keys, Hit(c, k)
    PROVE  CountsInv'
<1>1. /\ cache \in Seq(Keys) /\ CacheIsAccounted
      /\ UNCHANGED <<cacheBytes, inflight, tasks, waiting>>
  BY DEF CountsInv, CountsTypeOK, Hit
<1>2. PICK i : i = CHOOSE j \in DOMAIN cache : cache[j] = k
  OBVIOUS
<1>3. cache' = Append(RemoveAt(cache, i), k)
  BY <1>2 DEF Hit
<1>4. i \in 1..Len(cache) /\ cache[i] = k
  <2>1. \E j \in DOMAIN cache : cache[j] = k
    BY DEF Hit, ToSet
  <2> QED
    BY <1>1, <1>2, <2>1
<1>5. PICK rest : rest = RemoveAt(cache, i)
  OBVIOUS
<1>6. /\ rest \in Seq(Keys) /\ Len(rest) = Len(cache) - 1 /\ Len(cache) \in Nat
      /\ \A p \in 1..(Len(cache) - 1) : rest[p] = IF p < i THEN cache[p] ELSE cache[p + 1]
  <2>1. /\ RemoveAt(cache, i) \in Seq(Keys) /\ Len(RemoveAt(cache, i)) = Len(cache) - 1
        /\ \A p \in 1..(Len(cache) - 1) :
              RemoveAt(cache, i)[p] = IF p < i THEN cache[p] ELSE cache[p + 1]
    BY <1>1, <1>4, RestOf
  <2>2. Len(cache) \in Nat
    BY <1>1
  <2> QED
    BY <1>5, <2>1, <2>2
<1>7. Weight(rest) = Weight(cache) - Bytes[k]
  BY <1>1, <1>4, <1>5, WeightOfRest
<1>8. /\ cache' = Append(rest, k) /\ cache' \in Seq(Keys) /\ Len(cache') = Len(cache)
      /\ \A p \in 1..(Len(cache) - 1) : cache'[p] = rest[p]
      /\ cache'[Len(cache)] = k
  BY <1>3, <1>5, <1>6, AppendProperties
<1>9. Weight(cache') = Weight(cache)
  <2>1. Weight(Append(rest, k)) = Weight(rest) + Bytes[k]
    BY <1>6, WeightAppended
  <2>2. Weight(cache) \in Nat /\ Bytes[k] \in Nat
    BY <1>1, WeightAppended
  <2>3. Weight(Append(rest, k)) = Weight(cache)
    BY <1>7, <2>1, <2>2
  <2> QED
    BY <1>8, <2>3
<1>10. IsInjective(cache')
  \* Where in the old cache the key at place p was.
  <2> DEFINE n == Len(cache)
             was(p) == IF p = n THEN i ELSE IF p < i THEN p ELSE p + 1
  <2>1. \A p \in 1..n : was(p) \in 1..n /\ cache'[p] = cache[was(p)]
    <3> TAKE p \in 1..n
    <3>1. CASE p = n
      BY <1>4, <1>8, <3>1
    <3>2. CASE p # n
      <4>1. p \in 1..(n - 1) /\ i \in Int /\ n \in Nat
        BY <1>4, <1>6, <3>2
      <4>2. cache'[p] = rest[p] /\ rest[p] = IF p < i THEN cache[p] ELSE cache[p + 1]
        BY <1>6, <1>8, <4>1
      <4>3. was(p) = IF p < i THEN p ELSE p + 1
        BY <3>2
      <4>4. was(p) \in 1..n
        BY <4>1, <4>3
      <4> QED
        BY <4>2, <4>3, <4>4
    <3> QED
      BY <3>1, <3>2
  <2>2. \A p, q \in 1..n : was(p) = was(q) => p = q
    BY <1>4, <1>6
  <2> HIDE DEF was
  <2>3. DOMAIN cache' = 1..n /\ DOMAIN cache = 1..n /\ IsInjective(cache)
    BY <1>1, <1>8 DEF CacheIsAccounted
  <2> HIDE DEF n
  <2>4. ASSUME NEW p \in 1..n, NEW q \in 1..n, cache'[p] = cache'[q]
        PROVE  p = q
    <3>1. was(p) \in 1..n /\ was(q) \in 1..n /\ cache[was(p)] = cache[was(q)]
      BY <2>1, <2>4
    <3>2. was(p) = was(q)
      BY <2>3, <3>1 DEF IsInjective
    <3> QED
      BY <2>2, <3>2
  <2> QED
    BY <2>3, <2>4 DEF IsInjective
<1>11. CacheIsAccounted'
  BY <1>1, <1>8, <1>9, <1>10 DEF CacheIsAccounted
<1>12. CountsTypeOK' /\ Len(tasks') <= MaxTasks
  BY <1>1, <1>8 DEF CountsInv, CountsTypeOK
<1> QED
  BY <1>11, <1>12 DEF CountsInv

LEMMA MissStep ==
    ASSUME CountsAssumption, CountsInv, NEW c \in Callers, NEW k \in Keys, Miss(c, k)
    PROVE  CountsInv'
<1> USE DEF CountsInv, CountsTypeOK
<1>1. CacheIsAccounted'
  BY StaysAccounted DEF Miss, CacheStays
<1>2. CASE inflight[k] # 0
  <2>1. /\ waiting' = [waiting EXCEPT ![c] = [key |-> k, task |-> inflight[k]]]
        /\ UNCHANGED <<inflight, tasks, cache, cacheBytes>>
    BY <1>2 DEF Miss
  <2>2. [key |-> k, task |-> inflight[k]] \in [key : Keys, task : 0..MaxTasks]
    OBVIOUS
  <2> QED
    BY <1>1, <2>1, <2>2
<1>3. CASE inflight[k] = 0
  <2>1. /\ tasks' \in Seq({"running", "exact", "estimate", "cancelled"})
        /\ Len(tasks') = Len(tasks) + 1 /\ Len(tasks) < MaxTasks /\ Len(tasks) \in Nat
    <3>1. tasks' = Append(tasks, "running") /\ Len(tasks) < MaxTasks
      BY <1>3 DEF Miss
    <3> QED
      BY <3>1
  <2>2. Len(tasks') \in 0..MaxTasks /\ Len(tasks') <= MaxTasks
    BY <2>1 DEF CountsAssumption
  <2>3. /\ inflight' = [inflight EXCEPT ![k] = Len(tasks')]
        /\ waiting' = [waiting EXCEPT ![c] = [key |-> k, task |-> Len(tasks')]]
        /\ UNCHANGED <<cache, cacheBytes>>
    BY <1>3 DEF Miss
  <2> QED
    BY <1>1, <2>1, <2>2, <2>3
<1> QED
  BY <1>2, <1>3

LEMMA IdleIsTyped ==
    ASSUME CountsAssumption
    PROVE  Idling \in [key : Keys, task : 0..MaxTasks]
BY DEF Idling, CountsAssumption

LEMMA ReleasedIsTyped ==
    ASSUME CountsAssumption, CountsInv, NEW c \in Callers, Released(c)
    PROVE  inflight' \in [Keys -> 0..MaxTasks]
<1>1. inflight \in [Keys -> 0..MaxTasks] /\ 0 \in 0..MaxTasks
  BY DEF CountsInv, CountsTypeOK, CountsAssumption
<1> QED
  BY <1>1 DEF Released

LEMMA ResumeStep ==
    ASSUME CountsAssumption, CountsInv, NEW c \in Callers, Resume(c)
    PROVE  CountsInv'
<1>1. /\ cache \in Seq(Keys) /\ cacheBytes \in Int /\ CacheIsAccounted
      /\ tasks' = tasks /\ waiting \in [Callers -> [key : Keys, task : 0..MaxTasks]]
      /\ waiting' = [waiting EXCEPT ![c] = Idling]
  BY DEF CountsInv, CountsTypeOK, Resume
<1>2. waiting' \in [Callers -> [key : Keys, task : 0..MaxTasks]]
  BY <1>1, IdleIsTyped
<1>3. inflight' \in [Keys -> 0..MaxTasks]
  BY ReleasedIsTyped DEF Resume
<1>4. PICK k \in Keys : k = waiting[c].key
  BY <1>1
<1>5. cache' \in Seq(Keys) /\ cacheBytes' \in Int /\ CacheIsAccounted'
  <2>1. CASE tasks[waiting[c].task] = "exact" /\ AddsKey(k)
    <3>1. PICK e : e = Append(cache, k)
      OBVIOUS
    <3>2. (IF k \in ToSet(cache) THEN cache ELSE Append(cache, k)) = e
      BY <2>1, <3>1 DEF AddsKey
    <3>3. /\ cache' = Kept(e, cacheBytes + Bytes[k])
          /\ cacheBytes' = cacheBytes + Bytes[k] - (Weight(e) - Weight(cache'))
      BY <1>4, <2>1, <3>2 DEF Resume
    <3>4. /\ e \in Seq(Keys) /\ Len(e) = Len(cache) + 1 /\ Len(cache) \in Nat
          /\ \A p \in 1..Len(cache) : e[p] = cache[p]
          /\ e[Len(cache) + 1] = k
      BY <1>1, <3>1, AppendProperties
    <3>5. Weight(e) = cacheBytes + Bytes[k] /\ Weight(e) \in Nat
      <4>1. Weight(e) = Weight(cache) + Bytes[k]
        BY <1>1, <3>1, WeightAppended
      <4>2. Weight(e) \in Nat
        BY <3>4, WeightAppended
      <4> QED
        BY <1>1, <4>1, <4>2 DEF CacheIsAccounted
    <3>6. cache' \in Fitting(e, Weight(e))
      BY <3>3, <3>4, <3>5, KeptFits
    <3>7. /\ cache' \in Suffixes(e) /\ Len(cache') <= MaxEntries
          /\ Weight(e) - (Weight(e) - Weight(cache')) <= MaxBytes
      BY <3>6 DEF Fitting
    <3>8. cache' \in Seq(Keys) /\ (IsInjective(e) => IsInjective(cache'))
      BY <3>4, <3>7, SuffixOf
    <3>9. IsInjective(e)
      <4>1. IsInjective(cache) /\ DOMAIN cache = 1..Len(cache) /\ DOMAIN e = 1..(Len(cache) + 1)
        BY <1>1, <3>4 DEF CacheIsAccounted
      <4>2. \A p \in 1..Len(cache) : cache[p] # k
        BY <2>1, <4>1 DEF AddsKey, ToSet
      <4>3. \A p \in 1..(Len(cache) + 1) : p \in 1..Len(cache) \/ p = Len(cache) + 1
        BY <3>4
      <4>4. \A p, q \in 1..(Len(cache) + 1) : e[p] = e[q] => p = q
        BY <3>4, <4>1, <4>2, <4>3 DEF IsInjective
      <4> QED
        BY <4>1, <4>4 DEF IsInjective
    <3>10. Weight(cache') \in Nat
      <4>1. \A s \in Seq(Keys) : Weight(s) \in Nat
        BY <1>4, WeightAppended
      <4> QED
        BY <3>8, <4>1
    <3>11. cacheBytes' = Weight(cache') /\ cacheBytes' <= MaxBytes /\ cacheBytes' \in Int
      <4>1. PICK w \in Nat : w = Weight(cache')
        BY <3>10
      <4>2. PICK v \in Nat : v = Weight(e)
        BY <3>5
      <4>3. cacheBytes' = v - (v - w) /\ v - (v - w) <= MaxBytes
        <5>1. cacheBytes \in Int /\ Bytes[k] \in Nat
          BY <1>1, WeightAppended
        <5>2. cacheBytes' = cacheBytes + Bytes[k] - (v - w) /\ v = cacheBytes + Bytes[k]
          BY <3>3, <3>5, <4>1, <4>2
        <5>3. cacheBytes' = v - (v - w)
          BY <5>1, <5>2
        <5> QED
          BY <3>7, <4>1, <4>2, <5>3
      <4>4. v - (v - w) = w
        OBVIOUS
      <4> QED
        BY <4>1, <4>3, <4>4
    <3> QED
      BY <3>7, <3>8, <3>9, <3>11 DEF CacheIsAccounted
  <2>2. CASE ~(tasks[waiting[c].task] = "exact" /\ AddsKey(k))
    <3>1. CacheStays
      BY <1>4, <2>2 DEF Resume, CacheStays
    <3> QED
      BY <1>1, <3>1, StaysAccounted DEF CacheStays
  <2> QED
    BY <2>1, <2>2
<1> QED
  BY <1>1, <1>2, <1>3, <1>5 DEF CountsInv, CountsTypeOK

LEMMA CancelCallerStep ==
    ASSUME CountsAssumption, CountsInv, NEW c \in Callers, CancelCaller(c)
    PROVE  CountsInv'
<1>1. waiting' \in [Callers -> [key : Keys, task : 0..MaxTasks]]
  BY IdleIsTyped DEF CancelCaller, CountsInv, CountsTypeOK
<1>2. inflight' \in [Keys -> 0..MaxTasks]
  BY ReleasedIsTyped DEF CancelCaller
<1>3. CacheIsAccounted'
  BY StaysAccounted DEF CountsInv, CancelCaller, CacheStays
<1> QED
  BY <1>1, <1>2, <1>3 DEF CountsInv, CountsTypeOK, CancelCaller

LEMMA MeasuredStep ==
    ASSUME CountsInv, NEW t \in DOMAIN tasks, NEW method \in {"exact", "estimate"},
           Measured(t, method)
    PROVE  CountsInv'
<1>1. CacheIsAccounted'
  BY StaysAccounted DEF CountsInv, Measured, CacheStays
<1>2. /\ tasks' \in Seq({"running", "exact", "estimate", "cancelled"})
      /\ Len(tasks') = Len(tasks)
  BY DEF CountsInv, CountsTypeOK, Measured
<1> QED
  BY <1>1, <1>2 DEF CountsInv, CountsTypeOK, Measured

LEMMA ClosedStep ==
    ASSUME CountsAssumption, CountsInv, ClearCaches \/ CloseBudget
    PROVE  CountsInv'
<1>1. CASE ClearCaches
  <2>1. cache' = <<>> /\ cacheBytes' = 0 /\ UNCHANGED <<inflight, tasks, waiting>>
    BY <1>1 DEF ClearCaches
  <2>2. Weight(cache') = 0 /\ Len(cache') = 0 /\ IsInjective(cache')
    BY <2>1, WeightOfNothing DEF IsInjective
  <2>3. CacheIsAccounted'
    BY <2>1, <2>2 DEF CacheIsAccounted, CountsAssumption
  <2> QED
    BY <2>1, <2>3 DEF CountsInv, CountsTypeOK
<1>2. CASE CloseBudget
  <2>1. CacheIsAccounted'
    BY <1>2, StaysAccounted DEF CountsInv, CloseBudget, CacheStays
  <2>2. /\ tasks' \in Seq({"running", "exact", "estimate", "cancelled"})
        /\ Len(tasks') = Len(tasks)
    <3> DEFINE settled == [t \in DOMAIN tasks |-> IF Settled(t) THEN tasks[t] ELSE "cancelled"]
               Ends == {"running", "exact", "estimate", "cancelled"}
    <3>1. tasks \in Seq(Ends) /\ DOMAIN tasks = 1..Len(tasks) /\ Len(tasks) \in Nat
      BY DEF CountsInv, CountsTypeOK
    <3>2. settled \in [1..Len(tasks) -> Ends]
      BY <3>1
    <3>3. settled \in Seq(Ends) /\ Len(settled) = Len(tasks)
      BY <3>1, <3>2, SeqDef
    <3> QED
      BY <1>2, <3>3 DEF CloseBudget
  <2>3. inflight' \in [Keys -> 0..MaxTasks]
    BY <1>2 DEF CloseBudget, CountsAssumption
  <2> QED
    BY <1>2, <2>1, <2>2, <2>3 DEF CountsInv, CountsTypeOK, CloseBudget
<1> QED
  BY <1>1, <1>2

LEMMA CountsStep ==
    ASSUME CountsAssumption, CountsInv, [CountsNext]_countVars
    PROVE  CountsInv'
<1>1. CASE UNCHANGED countVars
  <2>1. CacheIsAccounted'
    BY <1>1, StaysAccounted DEF CountsInv, CacheStays, countVars
  <2> QED
    BY <1>1, <2>1 DEF CountsInv, CountsTypeOK, countVars
<1>2. ASSUME NEW c \in Callers, NEW k \in Keys, Hit(c, k) \/ Miss(c, k)
      PROVE  CountsInv'
  BY <1>2, HitStep, MissStep
<1>3. ASSUME NEW t \in DOMAIN tasks, NEW method \in {"exact", "estimate"}, Measured(t, method)
      PROVE  CountsInv'
  BY <1>3, MeasuredStep
<1>4. ASSUME NEW c \in Callers, Resume(c) \/ CancelCaller(c)
      PROVE  CountsInv'
  BY <1>4, ResumeStep, CancelCallerStep
<1>5. CASE ClearCaches \/ CloseBudget
  BY <1>5, ClosedStep
<1> QED
  BY <1>1, <1>2, <1>3, <1>4, <1>5 DEF CountsNext

\* Types, and what the cache of token counts promises: the bytes counted are those of the lists
\* cached, each once, within both limits, whoever shares, cancels or outlives a measurement
\* (TokenBudget.input_tokens, clear_caches and close).
THEOREM CacheAccounted == CountsSpec => [](CountsTypeOK /\ CacheIsAccounted)
<1> USE CountsAssumption
<1>1. CountsInit => CountsInv
  BY CountsStart
<1>2. CountsInv /\ [CountsNext]_countVars => CountsInv'
  BY CountsStep
<1>3. CountsInv => CountsTypeOK /\ CacheIsAccounted
  BY DEF CountsInv
<1> QED
  BY <1>1, <1>2, <1>3, PTL DEF CountsSpec

-----------------------------------------------------------------------------
(* The first of each occurrence *)

\* One place further in the answer.
Further(answer, allowed, sofar, n) ==
    IF answer[n] \in allowed \ ToSet(sofar) THEN Append(sofar, answer[n]) ELSE sofar

LEMMA AppendedStaysInjective ==
    ASSUME NEW S, NEW s \in Seq(S), IsInjective(s), NEW x \in S, x \notin ToSet(s)
    PROVE  /\ Append(s, x) \in Seq(S) /\ IsInjective(Append(s, x))
           /\ ToSet(Append(s, x)) = ToSet(s) \cup {x}
<1>1. PICK t : t = Append(s, x)
  OBVIOUS
<1>2. /\ t \in Seq(S) /\ Len(t) = Len(s) + 1 /\ Len(s) \in Nat
      /\ \A p \in 1..Len(s) : t[p] = s[p]
      /\ t[Len(s) + 1] = x
  BY <1>1, AppendProperties
<1>3. DOMAIN s = 1..Len(s) /\ DOMAIN t = 1..(Len(s) + 1)
  BY <1>2
<1>4. \A p \in 1..(Len(s) + 1) : p \in 1..Len(s) \/ p = Len(s) + 1
  BY <1>2
<1>5. \A p \in 1..Len(s) : s[p] # x /\ p \in 1..(Len(s) + 1)
  BY <1>2, <1>3 DEF ToSet
<1>6. \A p, q \in 1..(Len(s) + 1) : t[p] = t[q] => p = q
  BY <1>2, <1>3, <1>4, <1>5 DEF IsInjective
<1>7. IsInjective(t)
  BY <1>3, <1>6 DEF IsInjective
<1>8. ToSet(t) = ToSet(s) \cup {x}
  <2>1. Len(s) + 1 \in 1..(Len(s) + 1)
    BY <1>2
  <2>2. \A y : y \in ToSet(t) <=> \E p \in 1..(Len(s) + 1) : y = t[p]
    BY <1>3 DEF ToSet
  <2>3. \A y : y \in ToSet(s) <=> \E p \in 1..Len(s) : y = s[p]
    BY <1>3 DEF ToSet
  <2>4. \A y : y \in ToSet(t) <=> y \in ToSet(s) \/ y = x
    BY <1>2, <1>4, <1>5, <2>1, <2>2, <2>3
  <2> QED
    BY <2>4
<1> QED
  BY <1>1, <1>2, <1>7, <1>8

\* What is chosen of the first n places, for every n.
Chooses(f, answer, allowed) ==
    /\ f[0] = <<>>
    /\ \A n \in 1..Len(answer) : f[n] = Further(answer, allowed, f[n - 1], n)

LEMMA FirstOfIs ==
    ASSUME NEW S, NEW answer \in Seq(S), NEW allowed
    PROVE  \E f \in [0..Len(answer) -> Seq(S)] :
              Chooses(f, answer, allowed) /\ FirstOf(answer, allowed) = f[Len(answer)]
<1> DEFINE N == Len(answer)
           step == [p \in Seq(S) \X Nat |->
                       IF p[2] \in 1..N THEN Further(answer, allowed, p[1], p[2]) ELSE p[1]]
           Is(f) == f = [n \in 0..N |->
                            IF n = 0 THEN <<>>
                            ELSE IF answer[n] \in allowed \ ToSet(f[n - 1])
                            THEN Append(f[n - 1], answer[n]) ELSE f[n - 1]]
           first == CHOOSE f : Is(f)
<1>1. N \in Nat /\ \A n \in 1..N : answer[n] \in S
  OBVIOUS
<1>2. \A s \in Seq(S), n \in 1..N : Further(answer, allowed, s, n) \in Seq(S)
  BY <1>1 DEF Further
<1>3. step \in [Seq(S) \X Nat -> Seq(S)]
  BY <1>2
<1>4. \A s \in Seq(S), n \in 1..N : step[<<s, n>>] = Further(answer, allowed, s, n)
  BY <1>1
<1>5. FirstOf(answer, allowed) = first[N]
  BY DEF FirstOf
<1> HIDE DEF step, N
<1>6. PICK g \in [0..N -> Seq(S)] : g[0] = <<>> /\ \A n \in 1..N : g[n] = step[<<g[n - 1], n>>]
  <2>1. <<>> \in Seq(S)
    OBVIOUS
  <2>2. Runs(Seq(S), <<>>, step, N)
    BY <1>1, <1>3, <2>1, Iteration
  <2> QED
    BY <2>2 DEF Runs
<1>7. \A n \in 1..N : n - 1 \in 0..N /\ n \in 0..N /\ n # 0
  BY <1>1
<1>8. \A n \in 1..N : g[n] = Further(answer, allowed, g[n - 1], n)
  BY <1>4, <1>6, <1>7
<1>9. Is(g)
  <2>1. \A n \in 0..N : g[n] = IF n = 0 THEN <<>>
                               ELSE IF answer[n] \in allowed \ ToSet(g[n - 1])
                               THEN Append(g[n - 1], answer[n]) ELSE g[n - 1]
    <3>1. \A n \in 0..N : n = 0 \/ n \in 1..N
      BY <1>1
    <3> QED
      BY <1>6, <1>8, <3>1 DEF Further
  <2>2. g = [n \in 0..N |-> g[n]]
    OBVIOUS
  <2> QED
    BY <2>1, <2>2
<1>10. Is(first)
  <2>1. \E f : Is(f)
    BY <1>9
  <2> HIDE DEF Is
  <2> QED
    BY <2>1, Zenon
<1> HIDE DEF first
<1>11. first[0] = <<>> /\ \A n \in 1..N : first[n] = Further(answer, allowed, first[n - 1], n)
  <2>1. \A n \in 0..N : first[n] = IF n = 0 THEN <<>>
                                   ELSE IF answer[n] \in allowed \ ToSet(first[n - 1])
                                   THEN Append(first[n - 1], answer[n]) ELSE first[n - 1]
    BY <1>10
  <2>2. 0 \in 0..N
    BY <1>1
  <2> QED
    BY <1>7, <2>1, <2>2 DEF Further
<1> DEFINE typed == {n \in Nat : n \in 0..N => first[n] \in Seq(S)}
<1>12. \A n \in Nat : n \in typed
  <2>1. 0 \in typed
    <3>1. <<>> \in Seq(S) /\ first[0] = <<>>
      BY <1>11
    <3> QED
      BY <3>1
  <2>2. ASSUME NEW n \in typed PROVE n + 1 \in typed
    <3>1. CASE n + 1 \in 0..N
      <4>1. n \in 0..N /\ n + 1 \in 1..N /\ (n + 1) - 1 = n
        BY <1>1, <3>1
      <4>2. first[n + 1] = Further(answer, allowed, first[n], n + 1)
        <5>1. first[n + 1] = Further(answer, allowed, first[(n + 1) - 1], n + 1)
          BY <1>11, <4>1
        <5> QED
          BY <4>1, <5>1
      <4>3. first[n] \in Seq(S)
        BY <4>1
      <4>4. first[n + 1] \in Seq(S)
        BY <1>2, <4>1, <4>2, <4>3
      <4> QED
        BY <4>4
    <3> QED
      BY <3>1
  <2> HIDE DEF typed
  <2>3. typed \in SUBSET Nat
    BY DEF typed
  <2> QED
    BY <2>1, <2>2, <2>3, Counting
<1>13. first \in [0..N -> Seq(S)]
  <2>1. first = [n \in 0..N |-> first[n]]
    BY <1>10
  <2>2. \A n \in 0..N : first[n] \in Seq(S)
    BY <1>1, <1>12
  <2> QED
    BY <2>1, <2>2
<1> QED
  BY <1>5, <1>11, <1>13 DEF N, Chooses

\* Each at most once, and allowed.
LEMMA FirstOfOnce ==
    ASSUME NEW S, NEW answer \in Seq(S), NEW allowed
    PROVE  /\ FirstOf(answer, allowed) \in Seq(S) /\ IsInjective(FirstOf(answer, allowed))
           /\ ToSet(FirstOf(answer, allowed)) \subseteq allowed
<1> DEFINE N == Len(answer)
<1>1. PICK f \in [0..N -> Seq(S)] :
         Chooses(f, answer, allowed) /\ FirstOf(answer, allowed) = f[N]
  BY FirstOfIs
<1>2. N \in Nat /\ \A n \in 1..N : answer[n] \in S
  OBVIOUS
<1>3. f[0] = <<>> /\ \A n \in 1..N : f[n] = Further(answer, allowed, f[n - 1], n)
  BY <1>1 DEF Chooses
<1> HIDE DEF N
<1> DEFINE Once(s) == IsInjective(s) /\ ToSet(s) \subseteq allowed
           good == {n \in Nat : n \in 0..N => Once(f[n])}
<1>4. 0 \in good
  BY <1>3 DEF IsInjective, ToSet
<1>5. ASSUME NEW n \in good PROVE n + 1 \in good
  <2>1. CASE n + 1 \in 0..N
    <3>1. n \in 0..N /\ n + 1 \in 1..N /\ (n + 1) - 1 = n
      BY <1>2, <2>1
    <3>2. f[n + 1] = Further(answer, allowed, f[n], n + 1)
      <4>1. f[n + 1] = Further(answer, allowed, f[(n + 1) - 1], n + 1)
        BY <1>3, <3>1
      <4> QED
        BY <3>1, <4>1
    <3>3. f[n] \in Seq(S) /\ Once(f[n]) /\ answer[n + 1] \in S
      BY <1>1, <1>2, <3>1
    <3>4. CASE answer[n + 1] \in allowed \ ToSet(f[n])
      <4>1. f[n + 1] = Append(f[n], answer[n + 1])
        BY <3>2, <3>4 DEF Further
      <4>2. /\ IsInjective(Append(f[n], answer[n + 1]))
            /\ ToSet(Append(f[n], answer[n + 1])) = ToSet(f[n]) \cup {answer[n + 1]}
        BY <3>3, <3>4, AppendedStaysInjective
      <4>3. Once(f[n + 1])
        BY <3>3, <3>4, <4>1, <4>2
      <4> QED
        BY <4>3
    <3>5. CASE ~(answer[n + 1] \in allowed \ ToSet(f[n]))
      <4>1. f[n + 1] = f[n]
        BY <3>2, <3>5 DEF Further
      <4> QED
        BY <3>3, <4>1
    <3> QED
      BY <3>4, <3>5
  <2> QED
    BY <2>1
<1> HIDE DEF Once
<1>6. N \in good
  <2> HIDE DEF good
  <2>1. good \in SUBSET Nat
    BY DEF good
  <2> QED
    BY <1>2, <1>4, <1>5, <2>1, Counting
<1>7. N \in 0..N /\ f[N] \in Seq(S)
  BY <1>1, <1>2
<1>8. Once(f[N])
  BY <1>6, <1>7
<1> QED
  BY <1>1, <1>7, <1>8 DEF Once

\* All of an answer that names everyone once.
LEMMA FirstOfAll ==
    ASSUME NEW S, NEW answer \in Seq(S), IsInjective(answer)
    PROVE  FirstOf(answer, ToSet(answer)) = answer
<1> DEFINE N == Len(answer)
           allowed == ToSet(answer)
<1>1. PICK f \in [0..N -> Seq(S)] :
         Chooses(f, answer, allowed) /\ FirstOf(answer, allowed) = f[N]
  BY FirstOfIs
<1>2. N \in Nat /\ DOMAIN answer = 1..N /\ \A n \in 1..N : answer[n] \in S /\ answer[n] \in allowed
  BY DEF ToSet
<1>3. f[0] = <<>> /\ \A n \in 1..N : f[n] = Further(answer, allowed, f[n - 1], n)
  BY <1>1 DEF Chooses
<1> HIDE DEF N, allowed
<1> DEFINE Copies(s, n) == Len(s) = n /\ \A p \in 1..n : s[p] = answer[p]
           good == {n \in Nat : n \in 0..N => Copies(f[n], n)}
<1>4. 0 \in good
  BY <1>3
<1>5. ASSUME NEW n \in good PROVE n + 1 \in good
  <2>1. CASE n + 1 \in 0..N
    <3>1. n \in Nat /\ n \in 0..N /\ n + 1 \in 1..N /\ (n + 1) - 1 = n
      BY <1>2, <2>1
    <3>2. f[n + 1] = Further(answer, allowed, f[n], n + 1)
      <4>1. f[n + 1] = Further(answer, allowed, f[(n + 1) - 1], n + 1)
        BY <1>3, <3>1
      <4> QED
        BY <3>1, <4>1
    <3>3. PICK s \in Seq(S) : s = f[n]
      BY <1>1, <3>1
    <3>4. Len(s) = n /\ DOMAIN s = 1..n /\ \A p \in 1..n : s[p] = answer[p]
      BY <3>1, <3>3
    <3>5. answer[n + 1] \notin ToSet(s)
      <4>1. ASSUME NEW p \in 1..n, s[p] = answer[n + 1] PROVE FALSE
        <5>1. p \in 1..N /\ p # n + 1
          BY <1>2, <3>1
        <5>2. answer[p] = answer[n + 1]
          BY <3>4, <4>1
        <5> QED
          BY <1>2, <3>1, <5>1, <5>2 DEF IsInjective
      <4> QED
        BY <3>4, <4>1 DEF ToSet
    <3>6. f[n + 1] = Append(s, answer[n + 1])
      BY <1>2, <3>1, <3>2, <3>3, <3>5 DEF Further
    <3>7. PICK t : t = Append(s, answer[n + 1])
      OBVIOUS
    <3>8. /\ Len(t) = Len(s) + 1
          /\ \A p \in 1..Len(s) : t[p] = s[p]
          /\ t[Len(s) + 1] = answer[n + 1]
      BY <1>2, <3>1, <3>7, AppendProperties
    <3>9. \A p \in 1..(n + 1) : p \in 1..n \/ p = n + 1
      BY <3>1
    <3>10. Copies(t, n + 1)
      BY <3>4, <3>8, <3>9
    <3> QED
      BY <3>6, <3>7, <3>10
  <2> QED
    BY <2>1
<1> HIDE DEF Copies
<1>6. N \in good
  <2> HIDE DEF good
  <2>1. good \in SUBSET Nat
    BY DEF good
  <2> QED
    BY <1>2, <1>4, <1>5, <2>1, Counting
<1>7. N \in 0..N /\ f[N] \in Seq(S)
  BY <1>1, <1>2
<1>8. Copies(f[N], N)
  BY <1>6, <1>7
<1>9. f[N] = answer
  <2>1. Len(f[N]) = N /\ Len(answer) = N /\ \A p \in 1..N : f[N][p] = answer[p]
    BY <1>8 DEF Copies, N
  <2> QED
    BY <1>7, <2>1, SeqEqual
<1> QED
  BY <1>1, <1>9 DEF allowed

-----------------------------------------------------------------------------
(* What a round rolls *)

\* What the host's rule speaks about.
Subjects == IF rule.scope = "shared" THEN {Shared} ELSE ToSet(party)
Everybody == IF rule.scope = "per_player" THEN party ELSE <<Shared>>

\* Without a rule nothing is matched; with one for every round, everybody is.
MatchedByRule ==
    /\ rule = NoRule => plan.matched = <<>>
    /\ plan.step = "dice" /\ rule # NoRule /\ Unconditional => plan.matched = Everybody

ChanceInv == ChanceTypeOK /\ MatchedByRule /\ RollsAreAuthorized

LEMMA TypeOfRule ==
    ASSUME ChanceAssumption, ChanceTypeOK
    PROVE  /\ party \in Seq(Names) /\ party \in Seq(Words) /\ IsInjective(party)
           /\ ToSet(party) \subseteq Names
           /\ rule.scope \in {"shared", "per_player"} /\ rule.percent \in 0..100
           /\ rule # NoRule => rule.cadence \in {"per_round", "condition"}
<1>1. party \in Seq(Names) /\ IsInjective(party)
  BY DEF ChanceTypeOK, ChanceAssumption
<1>2. DOMAIN party = 1..Len(party) /\ Len(party) \in Nat /\ \A p \in 1..Len(party) : party[p] \in Names
  BY <1>1
<1>3. party \in Seq(Words)
  <2>1. Names \subseteq Words
    BY DEF Words
  <2>2. Seq(Names) \subseteq Seq(Words)
    BY <2>1
  <2> QED
    BY <1>1, <2>2
<1>4. ToSet(party) \subseteq Names
  BY <1>2 DEF ToSet
<1>5. rule.scope \in {"shared", "per_player"} /\ rule.percent \in 0..100
  BY DEF ChanceTypeOK, ChanceAssumption, NoRule
<1>6. rule # NoRule => rule.cadence \in {"per_round", "condition"}
  BY DEF ChanceTypeOK, ChanceAssumption
<1> QED
  BY <1>1, <1>3, <1>4, <1>5, <1>6

LEMMA SharedOnce ==
    /\ <<Shared>> \in Seq(Words) /\ IsInjective(<<Shared>>) /\ ToSet(<<Shared>>) = {Shared}
    /\ Len(<<Shared>>) = 1
    /\ <<>> \in Seq(Words) /\ IsInjective(<<>>) /\ ToSet(<<>>) = {}
BY DEF Words, IsInjective, ToSet

\* What is matched is what the rule speaks about, once each.
LEMMA OccurrencesOnce ==
    ASSUME ChanceAssumption, ChanceTypeOK, NEW answer \in Seq(Words)
    PROVE  /\ Occurrences(answer) \in Seq(Words) /\ IsInjective(Occurrences(answer))
           /\ ToSet(Occurrences(answer)) \subseteq Subjects
<1>1. CASE rule.scope = "per_player"
  <2>1. Occurrences(answer) = FirstOf(answer, ToSet(party))
    BY <1>1 DEF Occurrences, Matched
  <2>2. Subjects = ToSet(party)
    BY <1>1 DEF Subjects
  <2> QED
    BY <2>1, <2>2, FirstOfOnce
<1>2. CASE rule.scope # "per_player"
  <2>1. Subjects = {Shared}
    BY <1>2, TypeOfRule DEF Subjects
  <2>2. Occurrences(answer) = <<Shared>> \/ Occurrences(answer) = <<>>
    BY <1>2 DEF Occurrences
  <2> QED
    BY <2>1, <2>2, SharedOnce
<1> QED
  BY <1>1, <1>2

\* Matching everybody again changes nothing; nobody stays nobody.
LEMMA EverybodyAgain ==
    ASSUME ChanceAssumption, ChanceTypeOK
    PROVE  /\ Everybody \in Seq(Words)
           /\ Occurrences(Everybody) = Everybody
<1>1. CASE rule.scope = "per_player"
  <2>1. Everybody = party
    BY <1>1 DEF Everybody
  <2>2. Occurrences(Everybody) = FirstOf(party, ToSet(party))
    BY <1>1, <2>1 DEF Occurrences, Matched
  <2>3. FirstOf(party, ToSet(party)) = party
    BY TypeOfRule, FirstOfAll
  <2> QED
    BY <2>1, <2>2, <2>3, TypeOfRule
<1>2. CASE rule.scope # "per_player"
  <2>1. Everybody = <<Shared>>
    BY <1>2 DEF Everybody
  <2>2. Occurrences(Everybody) = <<Shared>>
    BY <1>2, <2>1, SharedOnce DEF Occurrences
  <2> QED
    BY <2>1, <2>2, SharedOnce
<1> QED
  BY <1>1, <1>2

LEMMA NoRuleNoEvents ==
    ASSUME rule = NoRule
    PROVE  Occurrences(<<>>) = <<>>
BY SharedOnce DEF Occurrences, NoRule

LEMMA FindTriggersStep ==
    ASSUME ChanceAssumption, ChanceInv, NEW answer \in Answers, FindTriggers(answer)
    PROVE  ChanceInv'
<1>1. /\ ChanceTypeOK /\ plan.step = "triggers" /\ UNCHANGED <<party, rule, repairs>>
      /\ rule = NoRule => plan.matched = <<>>
  BY DEF ChanceInv, MatchedByRule, FindTriggers
<1>2. answer \in Seq(Words)
  <2>1. PICK m \in 0..MaxAnswer : answer \in [1..m -> Words]
    BY DEF Answers, SeqOf
  <2>2. m \in Nat
    BY <2>1 DEF ChanceAssumption
  <2> QED
    BY <2>1, <2>2, SeqDef
<1>3. CASE rule = NoRule
  <2>1. plan' = [plan EXCEPT !.step = "dice"]
    BY <1>3 DEF FindTriggers
  <2>2. ChanceTypeOK'
    BY <1>1, <2>1 DEF ChanceTypeOK
  <2>3. plan'.step = "dice" /\ plan'.matched = plan.matched
    BY <1>1, <2>1 DEF ChanceTypeOK
  <2> QED
    BY <1>1, <1>3, <2>2, <2>3 DEF ChanceInv, MatchedByRule, RollsAreAuthorized
<1>4. CASE rule # NoRule
  <2>1. PICK m : m = (IF ~Unconditional THEN Occurrences(answer) ELSE Everybody)
    OBVIOUS
  <2>2. plan' = [plan EXCEPT !.step = "dice", !.matched = m]
    BY <1>4, <2>1 DEF FindTriggers, Everybody
  <2>3. m \in Seq(Words)
    BY <1>1, <1>2, <2>1, OccurrencesOnce, EverybodyAgain
  <2>4. ChanceTypeOK'
    BY <1>1, <2>2, <2>3 DEF ChanceTypeOK
  <2>5. plan'.step = "dice" /\ plan'.matched = m
    BY <1>1, <2>2 DEF ChanceTypeOK
  <2>6. (Unconditional <=> Unconditional') /\ Everybody' = Everybody
    BY <1>1 DEF Unconditional, Everybody
  <2>7. MatchedByRule'
    BY <1>1, <1>4, <2>1, <2>5, <2>6 DEF MatchedByRule
  <2> QED
    BY <2>4, <2>5, <2>7 DEF ChanceInv, RollsAreAuthorized
<1> QED
  BY <1>3, <1>4

\* The events of a plan, from what they are about.
LEMMA EventsAre ==
    ASSUME ChanceAssumption, ChanceInv, plan.step = "dice"
    PROVE  LET o == Occurrences(plan.matched)
           IN  /\ o \in Seq(Words) /\ IsInjective(o) /\ ToSet(o) \subseteq Subjects
               /\ Events = [i \in DOMAIN o |-> [percent |-> rule.percent,
                                                trigger |-> rule.cadence, about |-> o[i]]]
               /\ Events \in Seq(Event) /\ Len(Events) = Len(o) /\ DOMAIN Events = DOMAIN o
               /\ Events # <<>> => rule # NoRule
               /\ rule # NoRule /\ Unconditional => o = Everybody
<1> DEFINE o == Occurrences(plan.matched)
<1>1. ChanceTypeOK /\ plan.matched \in Seq(Words)
  BY DEF ChanceInv, ChanceTypeOK
<1>2. o \in Seq(Words) /\ IsInjective(o) /\ ToSet(o) \subseteq Subjects
  BY <1>1, OccurrencesOnce
<1>3. rule = NoRule => o = <<>>
  BY NoRuleNoEvents DEF ChanceInv, MatchedByRule
<1>4. rule # NoRule /\ Unconditional => o = Everybody
  BY <1>1, EverybodyAgain DEF ChanceInv, MatchedByRule
<1>5. Events = [i \in DOMAIN o |-> [percent |-> rule.percent, trigger |-> rule.cadence,
                                    about |-> o[i]]]
  BY DEF Events
<1> HIDE DEF o
<1>6. DOMAIN o = 1..Len(o) /\ Len(o) \in Nat /\ \A i \in 1..Len(o) : o[i] \in Words
  BY <1>2
<1>7. DOMAIN Events = 1..Len(o)
  BY <1>5, <1>6
<1>8. \A i \in 1..Len(o) : Events[i] \in Event
  <2> TAKE i \in 1..Len(o)
  <2>1. Events[i] = [percent |-> rule.percent, trigger |-> rule.cadence, about |-> o[i]]
    BY <1>5, <1>6
  <2>2. rule # NoRule
    <3>1. Len(o) # 0
      BY <1>6
    <3> QED
      BY <1>3, <3>1
  <2>3. rule.percent \in 0..100 /\ rule.cadence \in {"per_round", "condition"}
    BY <1>1, <2>2, TypeOfRule
  <2> QED
    BY <1>6, <2>1, <2>3 DEF Event
<1>9. Events \in [1..Len(o) -> Event]
  BY <1>5, <1>6, <1>7, <1>8
<1>10. Events \in Seq(Event) /\ Len(Events) = Len(o)
  BY <1>6, <1>9, SeqDef
<1>11. Events # <<>> => rule # NoRule
  <2>1. CASE rule = NoRule
    <3>1. Len(Events) = 0
      BY <1>3, <1>10, <2>1
    <3> QED
      BY <1>10, <3>1
  <2> QED
    BY <2>1
<1> QED
  BY <1>2, <1>4, <1>5, <1>6, <1>7, <1>10, <1>11 DEF o

LEMMA PlanDiceStep ==
    ASSUME ChanceAssumption, ChanceInv,
           NEW marked \in SUBSET Names, NEW rolled \in SUBSET marked,
           NEW hidden, NEW sourced, NEW confirmed,
           PlanDice(marked, rolled, hidden, sourced, confirmed)
    PROVE  ChanceInv'
<1>1. /\ ChanceTypeOK /\ MatchedByRule /\ plan.step = "dice" /\ UNCHANGED <<party, rule>>
  BY DEF ChanceInv, PlanDice
<1>2. (Unconditional <=> Unconditional') /\ Everybody' = Everybody
  BY <1>1 DEF Unconditional, Everybody
<1>3. CASE WellFormed(marked, rolled, hidden)
  <2>1. PICK secret : secret = {hidden[i] : i \in Labels(rolled, hidden)} \cap sourced \cap confirmed
    OBVIOUS
  <2>2. secret \subseteq rolled
    BY <2>1 DEF Labels
  <2>3. /\ plan' = [plan EXCEPT !.step = "planned", !.events = Events, !.rolls = rolled,
                       !.hidden = secret]
        /\ UNCHANGED repairs
    BY <1>3, <2>1 DEF PlanDice
  <2>4. PICK o : o = Occurrences(plan.matched)
    OBVIOUS
  <2>5. /\ o \in Seq(Words) /\ IsInjective(o) /\ ToSet(o) \subseteq Subjects
        /\ Events = [i \in DOMAIN o |-> [percent |-> rule.percent,
                                         trigger |-> rule.cadence, about |-> o[i]]]
        /\ Events \in Seq(Event) /\ Len(Events) = Len(o) /\ DOMAIN Events = DOMAIN o
        /\ Events # <<>> => rule # NoRule
        /\ rule # NoRule /\ Unconditional => o = Everybody
    BY <1>1, <2>4, EventsAre
  <2>6. PICK es : es = Events
    OBVIOUS
  <2>7. /\ plan'.step = "planned" /\ plan'.matched = plan.matched /\ plan'.events = es
        /\ plan'.rolls = rolled /\ plan'.hidden = secret
    BY <1>1, <2>3, <2>6 DEF ChanceTypeOK
  <2>8. ChanceTypeOK'
    <3>1. rolled \in SUBSET Names /\ secret \in SUBSET Names /\ es \in Seq(Event)
      BY <2>2, <2>5, <2>6
    <3> QED
      BY <1>1, <2>3, <2>6, <3>1 DEF ChanceTypeOK
  <2>9. MatchedByRule'
    BY <1>1, <1>2, <2>7 DEF MatchedByRule
  <2>10. ToSet(o) \cap Reserved = {}
    BY <1>3, <2>4 DEF WellFormed, Speakable
  <2>11. ASSUME NEW e \in ToSet(es)
         PROVE  /\ e.percent = rule.percent /\ e.trigger = rule.cadence
                /\ e.about \in Subjects /\ e.about \notin Reserved
    <3>1. PICK i \in DOMAIN o : e = es[i]
      BY <2>5, <2>6 DEF ToSet
    <3>2. e = [percent |-> rule.percent, trigger |-> rule.cadence, about |-> o[i]]
      BY <2>5, <2>6, <3>1
    <3>3. o[i] \in ToSet(o)
      BY DEF ToSet
    <3> QED
      BY <2>5, <2>10, <3>2, <3>3
  <2>12. ASSUME NEW i \in DOMAIN es, NEW j \in DOMAIN es, es[i].about = es[j].about
         PROVE  i = j
    <3>1. i \in DOMAIN o /\ j \in DOMAIN o /\ o[i] = o[j]
      BY <2>5, <2>6, <2>12
    <3> QED
      BY <2>5, <3>1 DEF IsInjective
  <2>13. rule # NoRule /\ Unconditional =>
            Len(es) = IF rule.scope = "shared" THEN 1 ELSE Len(party)
    <3>1. rule.scope \in {"shared", "per_player"}
      BY <1>1, TypeOfRule
    <3>2. rule # NoRule /\ Unconditional => Len(es) = Len(Everybody)
      BY <2>5, <2>6
    <3> QED
      BY <3>1, <3>2, SharedOnce DEF Everybody
  <2>14. /\ party' = party /\ rule' = rule
         /\ es # <<>> => rule # NoRule
    BY <1>1, <2>5, <2>6
  <2>15. RollsAreAuthorized'
    <3>1. plan'.hidden \subseteq plan'.rolls
      BY <2>2, <2>7
    <3>2. plan'.events # <<>> => rule' # NoRule
      BY <2>7, <2>14
    <3>3. \A e \in ToSet(plan'.events) :
             /\ e.percent = rule'.percent /\ e.trigger = rule'.cadence
             /\ e.about \in (IF rule'.scope = "shared" THEN {Shared} ELSE ToSet(party'))
             /\ e.about \notin Reserved
      BY <2>7, <2>11, <2>14 DEF Subjects
    <3>4. \A i, j \in DOMAIN plan'.events :
             plan'.events[i].about = plan'.events[j].about => i = j
      BY <2>7, <2>12
    <3>5. (rule' # NoRule /\ Unconditional') =>
             Len(plan'.events) = IF rule'.scope = "shared" THEN 1 ELSE Len(party')
      BY <1>2, <2>7, <2>13, <2>14
    <3> QED
      BY <3>1, <3>2, <3>3, <3>4, <3>5 DEF RollsAreAuthorized
  <2> QED
    BY <2>8, <2>9, <2>15 DEF ChanceInv
<1>4. CASE ~WellFormed(marked, rolled, hidden)
  <2>1. CASE repairs < Repairs
    <3>1. repairs' = repairs + 1 /\ UNCHANGED <<plan, party, rule>>
      BY <1>1, <1>4, <2>1 DEF PlanDice
    <3>2. ChanceTypeOK'
      BY <1>1, <2>1, <3>1 DEF ChanceTypeOK, ChanceAssumption
    <3>3. MatchedByRule'
      BY <1>1, <1>2, <3>1 DEF MatchedByRule
    <3> QED
      BY <1>1, <3>1, <3>2, <3>3 DEF ChanceInv, RollsAreAuthorized
  <2>2. CASE ~(repairs < Repairs)
    <3>1. plan' = [plan EXCEPT !.step = "failed"] /\ UNCHANGED <<repairs, party, rule>>
      BY <1>1, <1>4, <2>2 DEF PlanDice
    <3>2. plan'.step = "failed" /\ plan'.matched = plan.matched
      BY <1>1, <3>1 DEF ChanceTypeOK
    <3>3. ChanceTypeOK'
      BY <1>1, <3>1 DEF ChanceTypeOK
    <3>4. MatchedByRule'
      BY <1>1, <3>1, <3>2 DEF MatchedByRule
    <3> QED
      BY <3>2, <3>3, <3>4 DEF ChanceInv, RollsAreAuthorized
  <2> QED
    BY <2>1, <2>2
<1> QED
  BY <1>3, <1>4

LEMMA ChanceStart ==
    ASSUME ChanceAssumption, ChanceInit
    PROVE  ChanceInv
<1>1. plan.step = "triggers" /\ plan.matched = <<>>
  BY DEF ChanceInit, NoPlan
<1>2. NoPlan \in [step : {"triggers", "dice", "planned", "failed"}, matched : Seq(Words),
                  rolls : SUBSET Names, hidden : SUBSET Names, events : Seq(Event)]
  <2>1. <<>> \in Seq(Words) /\ <<>> \in Seq(Event)
    OBVIOUS
  <2> QED
    BY <2>1 DEF NoPlan
<1>3. ChanceTypeOK
  BY <1>2 DEF ChanceInit, ChanceTypeOK, ChanceAssumption
<1> QED
  BY <1>1, <1>3 DEF ChanceInv, MatchedByRule, RollsAreAuthorized

LEMMA ChanceStep ==
    ASSUME ChanceAssumption, ChanceInv, [ChanceNext]_chanceVars
    PROVE  ChanceInv'
<1>1. CASE UNCHANGED chanceVars
  BY <1>1 DEF chanceVars, ChanceInv, ChanceTypeOK, MatchedByRule, RollsAreAuthorized,
              Unconditional, Everybody
<1>2. ASSUME NEW answer \in Answers, FindTriggers(answer)
      PROVE  ChanceInv'
  BY <1>2, FindTriggersStep
<1>3. ASSUME NEW marked \in SUBSET Names, NEW rolled \in SUBSET marked,
             NEW hidden \in SeqOf(Names, 2),
             NEW sourced \in SUBSET ToSet(party), NEW confirmed \in SUBSET ToSet(party),
             PlanDice(marked, rolled, hidden, sourced, confirmed)
      PROVE  ChanceInv'
  BY <1>3, PlanDiceStep
<1> QED
  BY <1>1, <1>2, <1>3 DEF ChanceNext

\* Types, and what a round may roll: chance events only under the host's rule and about its
\* subjects, once each, everyone under an unconditional rule, nothing with a reserved name, and
\* no hidden check that is not required; whatever the provider answers and however often it is
\* repaired (_plan_chance_triggers, plan_dice, chance_events_from_decision).
THEOREM OnlyAuthorizedRolls == ChanceSpec => [](ChanceTypeOK /\ RollsAreAuthorized)
<1> USE ChanceAssumption
<1>1. ChanceInit => ChanceInv
  BY ChanceStart
<1>2. ChanceInv /\ [ChanceNext]_chanceVars => ChanceInv'
  BY ChanceStep
<1>3. ChanceInv => ChanceTypeOK /\ RollsAreAuthorized
  BY DEF ChanceInv
<1> QED
  BY <1>1, <1>2, <1>3, PTL DEF ChanceSpec
-----------------------------------------------------------------------------
(* The parts together *)

\* Neither the game's jobs, nor the cache of token counts, nor a dice plan moves another's
\* state: what TLC checks is a behaviour of each, so what is proved of each holds of it.
LEMMA StorytellerRunsAll == MCSpec => ChronicleSpec /\ CountsSpec /\ ChanceSpec
<1> DEFINE all == <<part, chronicleVars, countVars, chanceVars>>
<1>1. MCInit => ChronicleInit /\ CountsInit /\ ChanceInit
  BY DEF MCInit
<1>2. [MCNext]_all => [ChronicleNext]_chronicleVars
  BY DEF MCNext
<1>3. [MCNext]_all => [CountsNext]_countVars
  BY DEF MCNext
<1>4. [MCNext]_all => [ChanceNext]_chanceVars
  BY DEF MCNext
<1> QED
  BY <1>1, <1>2, <1>3, <1>4, PTL DEF MCSpec, ChronicleSpec, CountsSpec, ChanceSpec

\* Memory, archive, jobs, token counts and dice plans hold what their types say.
THEOREM StorytellerTyped == MCSpec => []TypeOK
<1> DEFINE Whole == part \in {"game", "counts", "chance"}
<1>1. MCInit => Whole
  BY DEF MCInit
<1>2. Whole /\ [MCNext]_<<part, chronicleVars, countVars, chanceVars>> => Whole'
  BY DEF MCNext
<1>3. (ChronicleTypeOK /\ CountsTypeOK /\ ChanceTypeOK /\ Whole) => TypeOK
  BY DEF TypeOK
<1> HIDE DEF Whole
<1> QED
  BY <1>1, <1>2, <1>3, StorytellerRunsAll, ChronicleTyped, CacheAccounted, OnlyAuthorizedRolls,
     PTL DEF MCSpec
=============================================================================
