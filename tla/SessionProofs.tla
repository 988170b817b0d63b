--------------------------- MODULE SessionProofs ---------------------------
(***************************************************************************)
(* What the operators of TurnOrder return, for queues of every length;     *)
(* type correctness of Session, and that SessionInv is inductive: for      *)
(* every party, every schedule, every number of attempts and every bound.  *)
(***************************************************************************)
EXTENDS SessionInvariants, SequenceTheorems, WellFoundedInduction, TLAPS

USE DEF Blank, Idle

-----------------------------------------------------------------------------
(* Rotation *)

\* deque.rotate moves players about without adding or losing one.
LEMMA RotateType ==
    ASSUME NEW S, NEW q \in Seq(S), NEW k \in 0..Len(q)
    PROVE  /\ Rotate(q, k) \in Seq(S)
           /\ Len(Rotate(q, k)) = Len(q)
           /\ \A i \in 1..Len(q) :
                 Rotate(q, k)[i] = IF i <= Len(q) - k THEN q[i + k] ELSE q[i + k - Len(q)]
<1>0. Len(q) \in Nat /\ k \in Nat /\ k <= Len(q)
  OBVIOUS
<1> DEFINE back == SubSeq(q, k + 1, Len(q))
           front == SubSeq(q, 1, k)
<1>1. /\ back \in Seq(S) /\ Len(back) = Len(q) - k
      /\ \A i \in 1..(Len(q) - k) : back[i] = q[i + k]
  <2>1. \A i \in (k + 1)..Len(q) : q[i] \in S
    OBVIOUS
  <2> HIDE DEF back
  <2>2. /\ back \in Seq(S)
        /\ Len(back) = IF k + 1 <= Len(q) THEN Len(q) - (k + 1) + 1 ELSE 0
        /\ \A i \in 1..(Len(q) - (k + 1) + 1) : back[i] = q[(k + 1) + i - 1]
    BY <2>1, SubSeqProperties DEF back
  <2>3. \A i \in 1..(Len(q) - k) : i \in 1..(Len(q) - (k + 1) + 1) /\ (k + 1) + i - 1 = i + k
    BY <1>0
  <2>4. Len(back) = Len(q) - k
    BY <1>0, <2>2
  <2> QED BY <2>2, <2>3, <2>4
<1>2. /\ front \in Seq(S) /\ Len(front) = k
      /\ \A i \in 1..k : front[i] = q[i]
  <2>1. \A i \in 1..k : q[i] \in S
    OBVIOUS
  <2> HIDE DEF front
  <2>2. /\ front \in Seq(S)
        /\ Len(front) = IF 1 <= k THEN k - 1 + 1 ELSE 0
        /\ \A i \in 1..(k - 1 + 1) : front[i] = q[1 + i - 1]
    BY <2>1, SubSeqProperties DEF front
  <2>3. \A i \in 1..k : i \in 1..(k - 1 + 1) /\ 1 + i - 1 = i
    BY <1>0
  <2>4. Len(front) = k
    BY <1>0, <2>2
  <2> QED BY <2>2, <2>3, <2>4
<1>3. q # <<>> => Rotate(q, k) = back \o front
  BY DEF Rotate
<1> HIDE DEF back, front
<1>4. /\ back \o front \in Seq(S)
      /\ Len(back \o front) = Len(back) + Len(front)
      /\ \A i \in 1..(Len(back) + Len(front)) :
            (back \o front)[i] = IF i <= Len(back) THEN back[i] ELSE front[i - Len(back)]
  BY <1>1, <1>2, ConcatProperties
<1>5. CASE q = <<>>
  <2>1. Rotate(q, k) = q /\ Len(q) = 0 /\ 1..Len(q) = {}
    BY <1>5 DEF Rotate
  <2> QED
    BY <2>1
<1>6. CASE q # <<>>
  <2>1. Rotate(q, k) = back \o front
    BY <1>3, <1>6
  <2>2. Len(back \o front) = Len(q) /\ \A i \in 1..Len(q) : i <= Len(back) <=> i <= Len(q) - k
    BY <1>0, <1>1, <1>2, <1>4
  <2>3. ASSUME NEW i \in 1..Len(q)
        PROVE  (back \o front)[i] =
                   IF i <= Len(q) - k THEN q[i + k] ELSE q[i + k - Len(q)]
    <3>1. CASE i <= Len(q) - k
      BY <1>0, <1>1, <1>2, <1>4, <3>1
    <3>2. CASE ~(i <= Len(q) - k)
      <4>1. i - Len(back) \in 1..k /\ i - Len(back) = i + k - Len(q)
        BY <1>0, <1>1, <3>2
      <4> QED
        BY <1>0, <1>1, <1>2, <1>4, <3>2, <4>1
    <3> QED
      BY <3>1, <3>2
  <2> QED
    BY <1>4, <2>1, <2>2, <2>3
<1> QED
  BY <1>5, <1>6

LEMMA RangeOfSequence ==
    ASSUME NEW S, NEW q \in Seq(S)
    PROVE  /\ Range(q) = {q[i] : i \in 1..Len(q)}
           /\ Range(q) \in SUBSET S
BY DEF Range

LEMMA RotateRange ==
    ASSUME NEW S, NEW q \in Seq(S), NEW k \in 0..Len(q)
    PROVE  Range(Rotate(q, k)) = Range(q)
<1> DEFINE r == Rotate(q, k)
<1>0. Len(q) \in Nat /\ k \in Nat /\ k <= Len(q)
  OBVIOUS
<1>1. /\ r \in Seq(S) /\ Len(r) = Len(q)
      /\ \A i \in 1..Len(q) :
            r[i] = IF i <= Len(q) - k THEN q[i + k] ELSE q[i + k - Len(q)]
  BY RotateType
<1> HIDE DEF r
<1>2. Range(q) = {q[i] : i \in 1..Len(q)} /\ Range(r) = {r[i] : i \in 1..Len(q)}
  BY <1>1, RangeOfSequence
<1>3. ASSUME NEW i \in 1..Len(q) PROVE r[i] \in {q[n] : n \in 1..Len(q)}
  <2>1. CASE i <= Len(q) - k
    BY <1>0, <1>1, <2>1
  <2>2. CASE i > Len(q) - k
    <3>1. i + k - Len(q) \in 1..Len(q) /\ ~(i <= Len(q) - k)
      BY <1>0, <2>2
    <3> QED BY <1>1, <3>1
  <2> QED BY <1>0, <2>1, <2>2
<1>4. ASSUME NEW i \in 1..Len(q) PROVE q[i] \in {r[n] : n \in 1..Len(q)}
  <2>1. CASE i > k
    <3>1. i - k \in 1..Len(q) /\ i - k <= Len(q) - k /\ (i - k) + k = i
      BY <1>0, <2>1
    <3> QED BY <1>1, <3>1
  <2>2. CASE i <= k
    <3>1. /\ i + (Len(q) - k) \in 1..Len(q)
          /\ ~(i + (Len(q) - k) <= Len(q) - k)
          /\ i + (Len(q) - k) + k - Len(q) = i
      BY <1>0, <2>2
    <3> QED BY <1>1, <3>1
  <2> QED BY <1>0, <2>1, <2>2
<1> QED BY <1>2, <1>3, <1>4 DEF r

\* Turning by one seat is safe for every queue, the empty one included.
LEMMA RotateOnce ==
    ASSUME NEW S, NEW q \in Seq(S)
    PROVE  Rotate(q, 1) \in Seq(S) /\ Range(Rotate(q, 1)) = Range(q)
<1>1. CASE q = <<>>
  BY <1>1 DEF Rotate
<1>2. CASE q # <<>>
  <2>1. 1 \in 0..Len(q)
    BY <1>2
  <2> QED
    BY <2>1, RotateType, RotateRange
<1> QED
  BY <1>1, <1>2

-----------------------------------------------------------------------------
(* Idling *)

\* Idling gives entries and takes none away.
LEMMA IdledType ==
    ASSUME NEW buf \in [Players -> Entry], NEW ps
    PROVE  /\ Idled(buf, ps) \in [Players -> Entry]
           /\ \A p \in Players : buf[p] # Blank => Idled(buf, ps)[p] = buf[p]
           /\ \A p \in Players : buf[p] = Blank =>
                 Idled(buf, ps)[p] = IF p \in ps THEN Idle ELSE Blank
BY DEF Idled, Entry
-----------------------------------------------------------------------------
(* Choosing the next turn *)

\* The position _next_turn_locked stops at is the first playable one.
LEMMA FirstPlayable ==
    ASSUME NEW q \in Seq(Players), NEW conn, NEW buf, Playable(q, conn, buf) # {}
    PROVE  LET k == CHOOSE i \in Playable(q, conn, buf) :
                        \A j \in Playable(q, conn, buf) : i <= j
           IN  /\ k \in 1..Len(q) /\ q[k] \in conn /\ buf[q[k]] = Blank
               /\ \A j \in Playable(q, conn, buf) : k <= j
<1> DEFINE playable == Playable(q, conn, buf)
<1>1. playable \in SUBSET Nat
  BY DEF Playable
<1>2. \E i \in playable : \A j \in playable : i <= j
  <2> DEFINE less == OpToRel(<, Nat)
  <2>1. \A i, j \in Nat : i < j => <<i, j>> \in less
    BY DEF OpToRel
  <2>2. IsWellFoundedOn(less, Nat)
    BY NatLessThanWellFounded
  <2> HIDE DEF less, playable
  <2>3. \E i \in playable : \A j \in playable : ~ (<<j, i>> \in less)
    BY <1>1, <2>2, WFMin DEF playable
  <2>4. PICK i \in playable : \A j \in playable : ~ (<<j, i>> \in less)
    BY <2>3
  <2>5. ASSUME NEW j \in playable PROVE ~(j < i)
    BY <1>1, <2>1, <2>4 DEF playable
  <2>6. \A j \in playable : i <= j
    BY <1>1, <2>5 DEF playable
  <2> QED BY <2>6
<1> QED BY <1>2 DEF Playable

\* The queue is only turned; an entry is never lost or changed, and only the players who
\* are passed over while absent get one.
OnlyTurns(q, conn, buf, next) ==
    /\ next.queue \in Seq(Players)
    /\ Range(next.queue) = Range(q)
    /\ next.buffer \in [Players -> Entry]
    /\ next.active \in conn \cup {NoOne}
    /\ \A p \in Players : next.buffer[p] \in {buf[p], Idle}
    /\ \A p \in Players : buf[p] # Blank => next.buffer[p] = buf[p]
    /\ conn = {} => next.active = NoOne /\ next.buffer = buf

\* While somebody in the queue can act, the turn goes to one who can and heads the queue;
\* if somebody is connected but nobody can act, everyone in the queue has an entry.
Chooses(q, conn, buf, next) ==
    /\ (\E p \in conn \cap Range(q) : buf[p] = Blank) =>
          /\ next.active \in conn
          /\ next.buffer[next.active] = Blank
          /\ next.queue # <<>> /\ next.queue[1] = next.active
    /\ conn # {} /\ (\A p \in conn \cap Range(q) : buf[p] # Blank) =>
          \A p \in Range(q) : next.buffer[p] # Blank

\* _next_turn_locked turns the queue and does nothing else to it or to the buffer.
LEMMA NextTurnType ==
    ASSUME NEW q \in Seq(Players), NEW conn \in SUBSET Players,
           NEW buf \in [Players -> Entry]
    PROVE  OnlyTurns(q, conn, buf, NextTurn(q, conn, buf))
<1> DEFINE next == NextTurn(q, conn, buf)
<1> SUFFICES OnlyTurns(q, conn, buf, next)
  OBVIOUS
<1> USE DEF OnlyTurns
<1> DEFINE playable == Playable(q, conn, buf)
<1>0. Range(q) = {q[i] : i \in 1..Len(q)} /\ Range(q) \subseteq Players /\ Len(q) \in Nat
  BY RangeOfSequence
<1>1. CASE conn = {}
  BY <1>0, <1>1 DEF NextTurn
<1>2. CASE conn # {} /\ playable = {}
  <2>1. next = [queue |-> q, buffer |-> Idled(buf, Range(q)), active |-> NoOne]
    BY <1>2 DEF NextTurn
  <2> QED
    BY <1>2, <2>1, IdledType
<1>3. CASE conn # {} /\ playable # {}
  <2> DEFINE k == CHOOSE i \in playable : \A j \in playable : i <= j
             passed == {q[i] : i \in 1..(k - 1)}
  <2>1. k \in 1..Len(q) /\ q[k] \in conn /\ buf[q[k]] = Blank
    BY <1>0, <1>3, FirstPlayable
  <2>2. next = [queue |-> Rotate(q, k - 1), buffer |-> Idled(buf, passed),
                active |-> q[k]]
    BY <1>3 DEF NextTurn
  <2> HIDE DEF k, passed
  <2>3. Rotate(q, k - 1) \in Seq(Players) /\ Range(Rotate(q, k - 1)) = Range(q)
    <3>1. k - 1 \in 0..Len(q)
      BY <1>0, <2>1
    <3> QED
      BY <3>1, RotateType, RotateRange
  <2> HIDE DEF next
  <2>4. /\ next.queue = Rotate(q, k - 1)
        /\ next.buffer = Idled(buf, passed)
        /\ next.active = q[k]
    BY <2>2 DEF next
  <2>5. /\ Idled(buf, passed) \in [Players -> Entry]
        /\ \A p \in Players : Idled(buf, passed)[p] \in {buf[p], Idle}
        /\ \A p \in Players : buf[p] # Blank => Idled(buf, passed)[p] = buf[p]
    BY IdledType
  <2> QED
    BY <1>3, <2>1, <2>3, <2>4, <2>5
<1> QED
  BY <1>1, <1>2, <1>3

\* _next_turn_locked finds a player who can act, if there is one.
LEMMA NextTurnChooses ==
    ASSUME NEW q \in Seq(Players), NEW conn \in SUBSET Players,
           NEW buf \in [Players -> Entry]
    PROVE  Chooses(q, conn, buf, NextTurn(q, conn, buf))
<1> DEFINE next == NextTurn(q, conn, buf)
<1> SUFFICES Chooses(q, conn, buf, next)
  OBVIOUS
<1> USE DEF Chooses
<1> DEFINE playable == Playable(q, conn, buf)
<1>0. Range(q) = {q[i] : i \in 1..Len(q)} /\ Range(q) \subseteq Players /\ Len(q) \in Nat
  BY RangeOfSequence
<1>1. CASE conn = {}
  BY <1>0, <1>1 DEF NextTurn
<1>2. CASE conn # {} /\ playable = {}
  <2>1. next = [queue |-> q, buffer |-> Idled(buf, Range(q)), active |-> NoOne]
    BY <1>2 DEF NextTurn
  <2>2. \A p \in Range(q) : next.buffer[p] # Blank
    BY <1>0, <2>1, IdledType
  <2>3. ~ \E p \in conn \cap Range(q) : buf[p] = Blank
    BY <1>0, <1>2 DEF Playable
  <2> QED
    BY <2>2, <2>3
<1>3. CASE conn # {} /\ playable # {}
  <2> DEFINE k == CHOOSE i \in playable : \A j \in playable : i <= j
             passed == {q[i] : i \in 1..(k - 1)}
  <2>1. /\ k \in 1..Len(q) /\ q[k] \in conn /\ buf[q[k]] = Blank
        /\ \A j \in playable : k <= j
    BY <1>0, <1>3, FirstPlayable
  <2>2. next = [queue |-> Rotate(q, k - 1), buffer |-> Idled(buf, passed),
                active |-> q[k]]
    BY <1>3 DEF NextTurn
  <2> HIDE DEF k
  <2>3. q[k] \notin passed
    BY <1>0, <2>1 DEF Playable
  <2> HIDE DEF passed
  <2>4. Idled(buf, passed)[q[k]] = Blank
    BY <2>1, <2>3, IdledType
  <2>5. Rotate(q, k - 1) # <<>> /\ Rotate(q, k - 1)[1] = q[k]
    <3>1. k - 1 \in 0..Len(q) /\ 1 \in 1..Len(q) /\ 1 <= Len(q) - (k - 1) /\ 1 + (k - 1) = k
      BY <1>0, <2>1
    <3>2. Rotate(q, k - 1)[1] = q[k] /\ Len(Rotate(q, k - 1)) = Len(q)
      BY <3>1, RotateType
    <3> QED
      BY <1>0, <3>1, <3>2, Len(<<>>) = 0
  <2>6. \E p \in conn \cap Range(q) : buf[p] = Blank
    BY <1>0, <2>1
  <2> HIDE DEF next
  <2>7. /\ next.queue = Rotate(q, k - 1)
        /\ next.buffer = Idled(buf, passed)
        /\ next.active = q[k]
    BY <2>2 DEF next
  <2> QED
    BY <2>1, <2>4, <2>5, <2>6, <2>7
<1> QED
  BY <1>1, <1>2, <1>3

\* The next turn has an entry for whoever was passed over, and for nobody who has no seat.
LEMMA NextTurnSeats ==
    ASSUME NEW q \in Seq(Players), NEW conn \in SUBSET Players,
           NEW buf \in [Players -> Entry], NEW p \in Players \ Range(q)
    PROVE  NextTurn(q, conn, buf).buffer[p] = buf[p]
<1> DEFINE next == NextTurn(q, conn, buf)
           playable == Playable(q, conn, buf)
<1>0. Range(q) = {q[i] : i \in 1..Len(q)} /\ Len(q) \in Nat
  BY RangeOfSequence
<1>1. CASE conn = {}
  BY <1>1 DEF NextTurn
<1>2. CASE conn # {} /\ playable = {}
  <2>1. next.buffer = Idled(buf, Range(q))
    BY <1>2 DEF NextTurn
  <2> QED
    BY <2>1, IdledType
<1>3. CASE conn # {} /\ playable # {}
  <2> DEFINE k == CHOOSE i \in playable : \A j \in playable : i <= j
             passed == {q[i] : i \in 1..(k - 1)}
  <2>1. k \in 1..Len(q)
    BY <1>3, FirstPlayable
  <2>2. next.buffer = Idled(buf, passed)
    BY <1>3 DEF NextTurn
  <2>3. p \notin passed
    <3> HIDE DEF k
    <3> QED
      BY <1>0, <2>1
  <2> HIDE DEF next, passed
  <2>4. Idled(buf, passed)[p] = buf[p]
    BY <2>3, IdledType
  <2> QED
    BY <2>2, <2>4 DEF next
<1> QED
  BY <1>1, <1>2, <1>3

\* Whoever heads the queue and can act has the turn already.
LEMMA NextTurnHolds ==
    ASSUME NEW q \in Seq(Players), NEW conn \in SUBSET Players,
           NEW buf \in [Players -> Entry],
           q # <<>>, q[1] \in conn, buf[q[1]] = Blank
    PROVE  NextTurn(q, conn, buf) = [queue |-> q, buffer |-> buf, active |-> q[1]]
<1> DEFINE playable == Playable(q, conn, buf)
           k == CHOOSE i \in playable : \A j \in playable : i <= j
<1>1. Len(q) \in Nat /\ 1 \in 1..Len(q)
  BY Len(<<>>) = 0
<1>2. 1 \in playable
  BY <1>1 DEF Playable
<1>3. k \in 1..Len(q) /\ \A j \in playable : k <= j
  BY <1>2, FirstPlayable
<1>4. NextTurn(q, conn, buf) = [queue |-> Rotate(q, k - 1),
                                buffer |-> Idled(buf, {q[i] : i \in 1..(k - 1)}),
                                active |-> q[k]]
  BY <1>2 DEF NextTurn
<1> HIDE DEF k, playable
<1>5. k = 1
  BY <1>1, <1>2, <1>3
<1>6. {q[i] : i \in 1..(k - 1)} = {}
  BY <1>5
<1>7. Idled(buf, {}) = buf
  BY DEF Idled
<1>8. Rotate(q, 0) = q
  <2>1. 0 \in 0..Len(q)
    BY <1>1
  <2>2. /\ Rotate(q, 0) \in Seq(Players) /\ Len(Rotate(q, 0)) = Len(q)
        /\ \A i \in 1..Len(q) : Rotate(q, 0)[i] = IF i <= Len(q) - 0 THEN q[i + 0] ELSE q[i + 0 - Len(q)]
    BY <2>1, RotateType
  <2>3. \A i \in 1..Len(q) : Rotate(q, 0)[i] = q[i]
    BY <1>1, <2>2
  <2> QED
    BY <2>2, <2>3, SeqEqual
<1>9. k - 1 = 0
  BY <1>5
<1> QED
  BY <1>4, <1>5, <1>6, <1>7, <1>8, <1>9

-----------------------------------------------------------------------------
(* The order of a round *)

\* Turning a queue twice is turning it once, by both distances.
LEMMA RotateTwice ==
    ASSUME NEW S, NEW q \in Seq(S), NEW k \in 0..Len(q), NEW m \in 0..Len(q),
           k + m <= Len(q)
    PROVE  Rotate(Rotate(q, k), m) = Rotate(q, k + m)
<1> DEFINE n == Len(q)
           once == Rotate(q, k)
           twice == Rotate(once, m)
           both == Rotate(q, k + m)
<1>1. n \in Nat /\ k \in Nat /\ m \in Nat /\ k + m \in 0..n
  OBVIOUS
<1>2. /\ once \in Seq(S) /\ Len(once) = n
      /\ \A i \in 1..n : once[i] = IF i <= n - k THEN q[i + k] ELSE q[i + k - n]
  BY RotateType
<1> HIDE DEF once
<1>3. /\ twice \in Seq(S) /\ Len(twice) = n
      /\ \A i \in 1..n : twice[i] = IF i <= n - m THEN once[i + m] ELSE once[i + m - n]
  <2>1. m \in 0..Len(once)
    BY <1>2
  <2> QED
    BY <1>2, <2>1, RotateType
<1>4. /\ both \in Seq(S) /\ Len(both) = n
      /\ \A i \in 1..n : both[i] = IF i <= n - (k + m) THEN q[i + (k + m)]
                                   ELSE q[i + (k + m) - n]
  BY <1>1, RotateType
<1> HIDE DEF twice, both, n
<1>5. ASSUME NEW i \in 1..n PROVE twice[i] = both[i]
  <2>1. CASE i <= n - (k + m)
    <3>1. i <= n - m /\ i + m \in 1..n /\ i + m <= n - k /\ (i + m) + k = i + (k + m)
      BY <1>1, <2>1
    <3> QED
      BY <1>2, <1>3, <1>4, <2>1, <3>1
  <2>2. CASE ~(i <= n - (k + m)) /\ i <= n - m
    <3>1. i + m \in 1..n /\ ~(i + m <= n - k) /\ (i + m) + k - n = i + (k + m) - n
      BY <1>1, <2>2
    <3> QED
      BY <1>2, <1>3, <1>4, <2>2, <3>1
  <2>3. CASE ~(i <= n - m)
    <3>1. /\ i + m - n \in 1..n /\ i + m - n <= n - k /\ (i + m - n) + k = i + (k + m) - n
          /\ ~(i <= n - (k + m))
      BY <1>1, <2>3
    <3> QED
      BY <1>2, <1>3, <1>4, <2>3, <3>1
  <2> QED
    BY <2>1, <2>2, <2>3
<1> QED
  BY <1>3, <1>4, <1>5, SeqEqual DEF twice, both, once

\* The queue is the line turned past those who have an entry.
ActedInOrder(q, buf, line) ==
    \E k \in 0..Len(line) :
        /\ q = Rotate(line, k)
        /\ \A i \in 1..Len(line) : buf[line[i]] # Blank <=> i <= k

Distinct(line) == \A i, j \in 1..Len(line) : line[i] = line[j] => i = j

\* A fresh round starts in line.
LEMMA FreshInOrder ==
    ASSUME NEW line \in Seq(Players), NEW buf, \A p \in Players : buf[p] = Blank
    PROVE  ActedInOrder(line, buf, line)
<1>1. Len(line) \in Nat /\ 0 \in 0..Len(line)
  OBVIOUS
<1>2. line = Rotate(line, 0)
  <2>1. /\ Rotate(line, 0) \in Seq(Players) /\ Len(Rotate(line, 0)) = Len(line)
        /\ \A i \in 1..Len(line) : Rotate(line, 0)[i] =
              IF i <= Len(line) - 0 THEN line[i + 0] ELSE line[i + 0 - Len(line)]
    BY <1>1, RotateType
  <2>2. \A i \in 1..Len(line) : Rotate(line, 0)[i] = line[i]
    BY <1>1, <2>1
  <2> QED
    BY <2>1, <2>2, SeqEqual
<1>3. \A i \in 1..Len(line) : line[i] \in Players /\ ~(i <= 0)
  BY <1>1
<1> QED
  BY <1>1, <1>2, <1>3 DEF ActedInOrder

\* When the one who heads the queue acts, the queue goes on by one seat.
LEMMA ActInOrder ==
    ASSUME NEW line \in Seq(Players), Distinct(line), NEW buf \in [Players -> Entry],
           NEW q, ActedInOrder(q, buf, line), q # <<>>, buf[q[1]] = Blank,
           NEW e, e # Blank
    PROVE  ActedInOrder(Rotate(q, 1), [buf EXCEPT ![q[1]] = e], line)
<1> DEFINE n == Len(line)
           after == [buf EXCEPT ![q[1]] = e]
<1>1. PICK k \in 0..n : /\ q = Rotate(line, k)
                        /\ \A i \in 1..n : buf[line[i]] # Blank <=> i <= k
  BY DEF ActedInOrder
<1>2. n \in Nat /\ \A i \in 1..n : line[i] \in Players
  OBVIOUS
<1>3. /\ Len(q) = n /\ q \in Seq(Players)
      /\ \A i \in 1..n : q[i] = IF i <= n - k THEN line[i + k] ELSE line[i + k - n]
  BY <1>1, RotateType
<1>4. n > 0 /\ 1 \in 1..n
  BY <1>2, <1>3, EmptySeq
<1>5. k < n
  <2> SUFFICES ASSUME k = n PROVE FALSE
    BY <1>2
  <2>1. ~(1 <= n - k) /\ 1 + k - n = 1
    BY <1>2
  <2>2. q[1] = line[1]
    BY <1>3, <1>4, <2>1
  <2> QED
    BY <1>1, <1>2, <1>4, <2>2
<1>6. q[1] = line[k + 1] /\ k + 1 \in 1..n
  <2>1. 1 <= n - k /\ 1 + k = k + 1
    BY <1>2, <1>5
  <2> QED
    BY <1>2, <1>3, <1>4, <1>5, <2>1
<1>7. Rotate(q, 1) = Rotate(line, k + 1)
  BY <1>1, <1>2, <1>4, <1>5, RotateTwice
<1>8. ASSUME NEW i \in 1..n PROVE after[line[i]] # Blank <=> i <= k + 1
  <2>1. CASE i = k + 1
    BY <1>2, <1>6, <2>1
  <2>2. CASE i # k + 1
    <3>1. line[i] # q[1]
      BY <1>6, <2>2 DEF Distinct
    <3>2. i <= k <=> i <= k + 1
      BY <1>2, <2>2
    <3> QED
      BY <1>1, <1>2, <3>1, <3>2
  <2> QED
    BY <2>1, <2>2
<1>9. k + 1 \in 0..n
  BY <1>2, <1>5
<1> QED
  BY <1>7, <1>8, <1>9 DEF ActedInOrder

\* _next_turn_locked goes on in line, past absent players only, unless the whole table
\* has acted or is idled.
LEMMA NextTurnInOrder ==
    ASSUME NEW line \in Seq(Players), Distinct(line), NEW buf \in [Players -> Entry],
           NEW conn \in SUBSET Players, NEW q, ActedInOrder(q, buf, line),
           conn = {} \/ \E p \in conn \cap Range(q) : buf[p] = Blank
    PROVE  LET next == NextTurn(q, conn, buf)
           IN  ActedInOrder(next.queue, next.buffer, line)
<1> DEFINE n == Len(line)
           next == NextTurn(q, conn, buf)
           playable == Playable(q, conn, buf)
<1>1. PICK k \in 0..n : /\ q = Rotate(line, k)
                        /\ \A i \in 1..n : buf[line[i]] # Blank <=> i <= k
  BY DEF ActedInOrder
<1>2. n \in Nat /\ \A i \in 1..n : line[i] \in Players
  OBVIOUS
<1>3. /\ Len(q) = n /\ q \in Seq(Players)
      /\ \A i \in 1..n : q[i] = IF i <= n - k THEN line[i + k] ELSE line[i + k - n]
  BY <1>1, RotateType
<1>4. CASE conn = {}
  <2>1. next.queue = q /\ next.buffer = buf
    BY <1>4 DEF NextTurn
  <2> QED
    BY <2>1
<1>5. CASE conn # {}
  <2> DEFINE m == CHOOSE i \in playable : \A j \in playable : i <= j
             passed == {q[i] : i \in 1..(m - 1)}
  <2>1. playable # {}
    <3>1. PICK p \in conn \cap Range(q) : buf[p] = Blank
      BY <1>5
    <3>2. Range(q) = {q[i] : i \in 1..Len(q)}
      BY <1>3, RangeOfSequence
    <3>3. PICK i \in 1..Len(q) : q[i] = p
      BY <3>2
    <3>4. i \in playable
      BY <3>1, <3>3 DEF Playable
    <3> QED
      BY <3>4
  <2>2. m \in 1..n /\ buf[q[m]] = Blank
    BY <1>3, <2>1, FirstPlayable
  <2>3. next.queue = Rotate(q, m - 1) /\ next.buffer = Idled(buf, passed)
    BY <1>5, <2>1 DEF NextTurn
  <2> HIDE DEF m, next
  <2>4. m <= n - k
    <3> SUFFICES ASSUME ~(m <= n - k) PROVE FALSE
      OBVIOUS
    <3>1. q[m] = line[m + k - n] /\ m + k - n \in 1..n /\ m + k - n <= k
      BY <1>2, <1>3, <2>2
    <3> QED
      BY <1>1, <2>2, <3>1
  <2>5. k + (m - 1) \in 0..n /\ m - 1 \in 0..n
    BY <1>2, <2>2, <2>4
  <2>6. Rotate(q, m - 1) = Rotate(line, k + (m - 1))
    BY <1>1, <2>5, RotateTwice
  <2>7. ASSUME NEW i \in 1..n
        PROVE  Idled(buf, passed)[line[i]] # Blank <=> i <= k + (m - 1)
    <3>1. CASE i <= k
      <4>1. buf[line[i]] # Blank
        BY <1>1, <3>1
      <4>2. i <= k + (m - 1)
        BY <1>2, <2>2, <3>1
      <4>3. Idled(buf, passed)[line[i]] = buf[line[i]]
        BY <1>2, <4>1, IdledType
      <4> QED
        BY <4>1, <4>2, <4>3
    <3>2. CASE ~(i <= k)
      <4>1. buf[line[i]] = Blank
        BY <1>1, <3>2
      <4>2. line[i] \in passed <=> i <= k + (m - 1)
        <5>1. \A a \in 1..(m - 1) : q[a] = line[a + k] /\ a + k \in 1..n
          BY <1>2, <1>3, <2>2, <2>4
        <5>2. ASSUME line[i] \in passed PROVE i <= k + (m - 1)
          <6>1. PICK a \in 1..(m - 1) : line[i] = q[a]
            BY <5>2
          <6>2. i = a + k
            BY <5>1, <6>1 DEF Distinct
          <6> QED
            BY <1>2, <2>2, <6>2
        <5>3. ASSUME i <= k + (m - 1) PROVE line[i] \in passed
          <6>1. i - k \in 1..(m - 1) /\ (i - k) + k = i
            BY <1>2, <2>2, <3>2, <5>3
          <6>2. q[i - k] = line[i]
            BY <5>1, <6>1
          <6> QED
            BY <6>1, <6>2
        <5> QED
          BY <5>2, <5>3
      <4> HIDE DEF passed
      <4>3. Idled(buf, passed)[line[i]] = IF line[i] \in passed THEN Idle ELSE Blank
        BY <1>2, <4>1, IdledType
      <4> QED
        BY <4>2, <4>3
    <3> QED
      BY <3>1, <3>2
  <2>8. ActedInOrder(next.queue, next.buffer, line)
    <3> HIDE DEF passed
    <3>1. /\ next.queue = Rotate(line, k + (m - 1))
          /\ \A i \in 1..n : next.buffer[line[i]] # Blank <=> i <= k + (m - 1)
      BY <2>3, <2>6, <2>7
    <3> QED
      BY <2>5, <3>1 DEF ActedInOrder
  <2> QED
    BY <2>8 DEF next
<1> QED
  BY <1>4, <1>5

-----------------------------------------------------------------------------
(* Values the actions build *)

LEMMA EmptyBufferType == EmptyBuffer \in [Players -> Entry]
BY DEF EmptyBuffer, Entry

LEMMA NoRoundType == NoRound \in Round
BY EmptyBufferType DEF NoRound, Round, NoDice

LEMMA ParticipantType ==
    ASSUME NEW p \in Players, NEW d, NEW r, NEW v \in Nat
    PROVE  [player |-> p, departed |-> p \in d, returned |-> p \in r, version |-> v]
               \in Participant
<1>1. (p \in d) \in BOOLEAN /\ (p \in r) \in BOOLEAN
  OBVIOUS
<1> QED
  BY <1>1, Zenon DEF Participant

LEMMA ParticipantsType == TypeOK => Participants \in SUBSET Participant
<1> SUFFICES ASSUME TypeOK PROVE Participants \in SUBSET Participant
  OBVIOUS
<1>1. Joined \in SUBSET Players /\ \A p \in Players : version[p] \in Nat
  BY RangeOfSequence DEF TypeOK, Joined
<1> QED
  BY <1>1, ParticipantType DEF Participants

\* A launched or moved job is a job.
LEMMA JobTypes ==
    ASSUME TypeOK
    PROVE  /\ \A kind \in {"scenario", "start", "round"} :
                 [epoch |-> generation + 1, kind |-> kind, attempt |-> 0,
                  stage |-> "opening"] \in Job
           /\ \A j \in jobs, s \in {"opening", "working", "archiving", "delivering",
                                    "failing", "recovering", "finishing"} :
                 [j EXCEPT !.stage = s] \in Job
           /\ \A j \in jobs : [j EXCEPT !.attempt = @ + 1] \in Job
<1>1. jobs \in SUBSET Job /\ generation \in Nat
  BY DEF TypeOK
<1> QED
  BY <1>1 DEF Job

\* Launching keeps the types of what it assigns.
LEMMA LaunchJobType ==
    ASSUME TypeOK, NEW kind \in {"scenario", "start", "round"}, LaunchJob(kind)
    PROVE  /\ phase' \in Phases /\ paused' \in BOOLEAN
           /\ generation' \in Nat /\ inferenceTask' \in Nat /\ jobs' \in SUBSET Job
<1>1. generation \in Nat /\ jobs \in SUBSET Job
  BY DEF TypeOK
<1> DEFINE job == [epoch |-> generation + 1, kind |-> kind, attempt |-> 0,
                   stage |-> "opening"]
<1>2. job \in Job
  BY JobTypes
<1>3. /\ generation' = generation + 1 /\ inferenceTask' = generation + 1
      /\ jobs' = jobs \cup {job} /\ phase' = "AWAITING_LLM"
  BY DEF LaunchJob
<1>4. paused' \in BOOLEAN
  BY DEF LaunchJob
<1> HIDE DEF job
<1> QED
  BY <1>1, <1>2, <1>3, <1>4 DEF Phases

\* The types of what a change of turn assigns.
TurnTypes ==
    /\ turnQueue \in Seq(Players) /\ buffer \in [Players -> Entry]
    /\ active \in Players \cup {NoOne}
    /\ phase \in Phases /\ paused \in BOOLEAN /\ pending \in Round
    /\ generation \in Nat /\ inferenceTask \in Nat /\ jobs \in SUBSET Job

\* So does a change of turn, whatever became of the party in the same step.
LEMMA ResumeTurnsType ==
    ASSUME TypeOK, NEW queue \in Seq(Players), NEW buf \in [Players -> Entry],
           joinOrder' \in Seq(Players), connected' \in SUBSET Players,
           version' \in [Players -> Nat],
           departed' \in SUBSET Players, returned' \in SUBSET Players,
           ResumeTurns(queue, buf)
    PROVE  TurnTypes'
<1> DEFINE next == NextTurn(queue, connected', buf)
<1>1. /\ next.queue \in Seq(Players) /\ next.buffer \in [Players -> Entry]
      /\ next.active \in Players \cup {NoOne}
  BY NextTurnType DEF OnlyTurns
<1> HIDE DEF next
<1>3. Participants' \in SUBSET Participant
  <2>1. Joined' \in SUBSET Players /\ \A p \in Players : version'[p] \in Nat
    BY RangeOfSequence DEF Joined
  <2> QED
    BY <2>1, ParticipantType DEF Participants
<1>4. CASE Complete(next.buffer, Joined)
  <2>1. pending' = [actions |-> next.buffer, participants |-> Participants', dice |-> NoDice]
    BY <1>4 DEF ResumeTurns, next
  <2>2. pending' \in Round
    BY <2>1, <1>1, <1>3 DEF Round
  <2>3. LaunchJob("round")
    BY <1>4 DEF ResumeTurns, next
  <2> QED
    BY <1>1, <2>2, <2>3, LaunchJobType DEF ResumeTurns, TurnTypes, next
<1>5. CASE ~Complete(next.buffer, Joined)
  BY <1>1, <1>5 DEF ResumeTurns, TurnTypes, next, TypeOK, work
<1> QED
  BY <1>4, <1>5

\* What is announced of a turn is an announcement.
LEMMA ToldTypes ==
    /\ \A p \in Players \cup {NoOne} : Told(p) \in Announcement
    /\ \A p \in Players, late \in BOOLEAN : [player |-> p, late |-> late] \in Announcement
BY DEF Told, Announcement

LEMMA AnnouncingType ==
    ASSUME TypeOK, NEW p \in Players \cup {NoOne}
    PROVE  Announcing(p) \in Announcement
<1>1. announced \in Announcement
  BY DEF TypeOK
<1> QED
  BY <1>1, ToldTypes DEF Announcing

\* Delivering an event shows the clients a round and a player.
LEMMA PublishHeadType ==
    ASSUME TypeOK, pendingDelivery # <<>>, PublishHead
    PROVE  shown' \in Int /\ announced' \in Announcement
<1>1. /\ pendingDelivery \in Seq(Event) /\ pendingDelivery # <<>>
      /\ shown \in Int /\ announced \in Announcement
  BY DEF TypeOK
<1>2. Head(pendingDelivery) \in Event
  BY <1>1
<1>3. Head(pendingDelivery).round \in Nat /\ Head(pendingDelivery).player \in Players \cup {NoOne}
  BY <1>2 DEF Event
<1> QED
  BY <1>1, <1>3, ToldTypes DEF PublishHead

LEMMA DeliverHeadType ==
    ASSUME TypeOK, DeliverHead
    PROVE  /\ pendingDelivery' \in Seq(Event)
           /\ shown' \in Int /\ announced' \in Announcement
<1>1. pendingDelivery \in Seq(Event) /\ pendingDelivery # <<>> /\ PublishHead
  BY DEF TypeOK, DeliverHead
<1> QED
  BY <1>1, PublishHeadType DEF DeliverHead

LEMMA DisownType ==
    ASSUME NEW p
    PROVE  /\ \A reqs \in SUBSET Submission : Disown(reqs, p) \in SUBSET Submission
           /\ \A reqs \in SUBSET Retry : Disown(reqs, p) \in SUBSET Retry
           /\ \A reqs \in SUBSET Greeting : Disown(reqs, p) \in SUBSET Greeting
<1>1. \A r \in Submission : [r EXCEPT !.owned = FALSE] \in Submission
  BY DEF Submission
<1>2. \A r \in Retry : [r EXCEPT !.owned = FALSE] \in Retry
  BY DEF Retry
<1>3. \A r \in Greeting : [r EXCEPT !.owned = FALSE] \in Greeting
  BY DEF Greeting
<1> QED
  BY <1>1, <1>2, <1>3 DEF Disown

LEMMA RequestTypes ==
    ASSUME TypeOK, NEW p \in Players
    PROVE  /\ \A n \in Nat \ {0} :
                 [client |-> p, owned |-> TRUE, epoch |-> generation,
                  participants |-> Participants, round |-> n] \in Submission
           /\ [client |-> p, owned |-> TRUE, epoch |-> inferenceTask,
               round |-> roundCounter] \in Retry
           /\ \A v \in {version[p], Unchecked} : [client |-> p, version |-> v] \in Leaver
<1>1. /\ Participants \in SUBSET Participant /\ generation \in Nat
      /\ inferenceTask \in Nat /\ roundCounter \in Nat /\ version[p] \in Nat
  BY ParticipantsType DEF TypeOK
<1> QED
  BY <1>1 DEF Submission, Retry, Leaver, Unchecked

-----------------------------------------------------------------------------
(* Every step keeps the types *)

LEMMA InitType == Init => TypeOK
<1> SUFFICES ASSUME Init PROVE TypeOK
  OBVIOUS
<1>1. paused \in BOOLEAN
  BY DEF Init
<1>2. /\ phase \in Phases /\ joinOrder \in Seq(Players) /\ turnQueue \in Seq(Players)
      /\ version \in [Players -> Nat] /\ pendingDelivery \in Seq(Event)
      /\ buffer \in [Players -> Entry] /\ pending \in Round
  BY EmptyBufferType, NoRoundType DEF Init, Phases
<1>3. /\ connected = {} /\ departed = {} /\ returned = {} /\ live = {} /\ active = NoOne
      /\ roundCounter = 0 /\ accepted = {} /\ generation = 0 /\ inferenceTask = 0
      /\ jobs = {} /\ effects = "free" /\ shown = -1 /\ endings = 0 /\ greetings = {}
      /\ submissions = {} /\ rejections = {} /\ leavers = {} /\ retries = {} /\ shutdowns = 0
  BY DEF Init
<1>4. announced \in Announcement
  BY ToldTypes DEF Init
<1> QED
  BY <1>1, <1>2, <1>3, <1>4 DEF TypeOK

LEMMA ClientStepType ==
    ASSUME TypeOK, NEW p \in Players, ClientStep(p)
    PROVE  TypeOK'
<1> USE DEF party, turn, round, work, output, requests
<1>1. CASE Join(p)
  BY <1>1 DEF Join, TypeOK, Phases
<1>2. CASE Reconnect(p)
  <2>1. /\ joinOrder' \in Seq(Players) /\ connected' \in SUBSET Players
        /\ version' \in [Players -> Nat] /\ departed' \in SUBSET Players
        /\ returned' \in SUBSET Players /\ live' \in SUBSET Players
    BY <1>2 DEF Reconnect, TypeOK
  <2>2. /\ submissions' \in SUBSET Submission /\ retries' \in SUBSET Retry
        /\ rejections' \in SUBSET Players
    BY <1>2, DisownType DEF Reconnect, TypeOK
  <2>3. TurnTypes'
    <3>1. CASE TurnStalled
      <4>1. ResumeTurns(turnQueue, buffer)
        BY <1>2, <3>1 DEF Reconnect
      <4>2. turnQueue \in Seq(Players) /\ buffer \in [Players -> Entry]
        BY DEF TypeOK
      <4> QED
        BY <2>1, <4>1, <4>2, ResumeTurnsType
    <3>2. CASE ~TurnStalled
      BY <1>2, <3>2 DEF Reconnect, TurnTypes, TypeOK
    <3> QED
      BY <3>1, <3>2
  <2>4. UNCHANGED <<roundCounter, accepted, effects, pendingDelivery, shown, announced,
                    endings, leavers, shutdowns>>
    BY <1>2 DEF Reconnect
  <2>5. greetings' \in SUBSET Greeting
    <3> DEFINE g == [client |-> p, owned |-> TRUE, version |-> version'[p],
                     player |-> active']
    <3>1. Disown(greetings, p) \in SUBSET Greeting
      BY DisownType DEF TypeOK
    <3>2. active' # NoOne => g \in Greeting
      BY <2>1, <2>3 DEF TurnTypes, Greeting
    <3>3. \/ greetings' = Disown(greetings, p)
          \/ active' # NoOne /\ greetings' = Disown(greetings, p) \cup {g}
      BY <1>2 DEF Reconnect
    <3> HIDE DEF g
    <3> QED
      BY <3>1, <3>2, <3>3
  <2> QED
    BY <2>1, <2>2, <2>3, <2>4, <2>5 DEF TurnTypes, TypeOK
<1>3. CASE \E how \in Losses : LoseSocket(p, how)
  <2>1. /\ leavers' \in SUBSET Leaver /\ live' \in SUBSET Players
        /\ rejections' \in SUBSET Players
    BY <1>3, RequestTypes DEF LoseSocket, TypeOK
  <2>2. /\ submissions' \in SUBSET Submission /\ retries' \in SUBSET Retry
        /\ greetings' \in SUBSET Greeting
    BY <1>3, DisownType DEF LoseSocket, TypeOK
  <2> QED
    BY <1>3, <2>1, <2>2 DEF LoseSocket, TypeOK
<1>4. CASE \E n \in {roundCounter, roundCounter + 1} \ {0} : Submit(p, n)
  <2>1. PICK n \in {roundCounter, roundCounter + 1} \ {0} : Submit(p, n)
    BY <1>4
  <2>2. n \in Nat \ {0}
    BY DEF TypeOK
  <2> DEFINE s == [client |-> p, owned |-> TRUE, epoch |-> generation,
                   participants |-> Participants, round |-> n]
  <2>3. s \in Submission
    BY <2>2, RequestTypes
  <2>4. /\ submissions' = submissions \cup {s} \/ submissions' = submissions
        /\ rejections' = rejections \cup {p} \/ rejections' = rejections
    BY <2>1 DEF Submit
  <2> HIDE DEF s
  <2>5. submissions' \in SUBSET Submission /\ rejections' \in SUBSET Players
    BY <2>3, <2>4 DEF TypeOK
  <2> QED
    BY <2>1, <2>5 DEF Submit, TypeOK
<1>5. CASE InitializeScenario(p)
  BY <1>5, LaunchJobType DEF InitializeScenario, TypeOK
<1>6. CASE StartGame(p)
  BY <1>6, LaunchJobType DEF StartGame, TypeOK
<1>7. CASE RequestRetry(p)
  BY <1>7, RequestTypes DEF RequestRetry, TypeOK
<1>8. CASE RequestEnd(p)
  BY <1>8 DEF RequestEnd, TypeOK
<1> QED
  BY <1>1, <1>2, <1>3, <1>4, <1>5, <1>6, <1>7, <1>8 DEF ClientStep

LEMMA ShutdownStepType == TypeOK /\ ShutdownStep => TypeOK'
<1> SUFFICES ASSUME TypeOK, ShutdownStep PROVE TypeOK'
  OBVIOUS
<1> USE DEF party, turn, round, work, output, requests
<1>1. CASE StopServer
  BY <1>1 DEF StopServer, TypeOK
<1>2. CASE BeginShutdown
  BY <1>2 DEF BeginShutdown, TypeOK
<1>3. CASE DeliverBeforeEnd
  BY <1>3, DeliverHeadType DEF DeliverBeforeEnd, TypeOK
<1>4. CASE EndSession
  <2>1. paused' \in BOOLEAN
    BY <1>4 DEF EndSession
  <2>2. /\ phase' \in Phases /\ effects' \in {"free", "job", "ending", "finalizing"}
        /\ generation' \in Nat /\ active' \in Players \cup {NoOne}
        /\ pendingDelivery' \in Seq(Event)
    BY <1>4 DEF EndSession, TypeOK, Phases
  <2> QED
    BY <1>4, <2>1, <2>2 DEF EndSession, TypeOK
<1>5. CASE AnnounceEnd
  BY <1>5 DEF AnnounceEnd, TypeOK
<1> QED
  BY <1>1, <1>2, <1>3, <1>4, <1>5 DEF ShutdownStep
LEMMA RequestStepType == TypeOK /\ RequestStep => TypeOK'
<1> SUFFICES ASSUME TypeOK, RequestStep PROVE TypeOK'
  OBVIOUS
<1> USE DEF party, turn, round, work, output, requests
<1>1. ASSUME NEW d \in leavers, Disconnect(d) PROVE TypeOK'
  <2>1. d.client \in Players /\ d \in Leaver
    BY DEF TypeOK, Leaver
  <2>2. /\ joinOrder' \in Seq(Players) /\ connected' \in SUBSET Players
        /\ version' \in [Players -> Nat] /\ departed' \in SUBSET Players
        /\ returned' \in SUBSET Players /\ live' \in SUBSET Players
        /\ leavers' \in SUBSET Leaver
    BY <1>1, <2>1 DEF Disconnect, TypeOK
  <2>3. TurnTypes'
    <3>1. turnQueue \in Seq(Players) /\ buffer \in [Players -> Entry]
      BY DEF TypeOK
    <3>2. CASE phase = "ACTIVE_TURN" /\ IdlesLeaver(d.client)
      <4>1. ResumeTurns(Rotate(turnQueue, 1), [buffer EXCEPT ![d.client] = Idle])
        BY <1>1, <3>2 DEF Disconnect
      <4>2. [buffer EXCEPT ![d.client] = Idle] \in [Players -> Entry]
        BY <2>1, <3>1 DEF Entry
      <4> QED
        BY <2>2, <3>1, <4>1, <4>2, RotateOnce, ResumeTurnsType
    <3>3. CASE phase = "ACTIVE_TURN" /\ ~IdlesLeaver(d.client)
      <4>1. ResumeTurns(turnQueue, buffer)
        BY <1>1, <3>3 DEF Disconnect
      <4> QED
        BY <2>2, <3>1, <4>1, ResumeTurnsType
    <3>4. CASE phase # "ACTIVE_TURN"
      BY <1>1, <3>4 DEF Disconnect, TurnTypes, TypeOK
    <3> QED
      BY <3>2, <3>3, <3>4
  <2>4. UNCHANGED <<roundCounter, accepted, effects, pendingDelivery, shown, endings,
                    submissions, rejections, retries, shutdowns, greetings>>
    BY <1>1 DEF Disconnect
  <2>5. announced' \in Announcement
    <3>1. active' \in Players \cup {NoOne} /\ announced \in Announcement
      BY <2>3 DEF TurnTypes, TypeOK
    <3>2. announced' = announced \/ announced' = Announcing(active')
      BY <1>1 DEF Disconnect
    <3> QED
      BY <3>1, <3>2, AnnouncingType
  <2> QED
    BY <2>2, <2>3, <2>4, <2>5 DEF TurnTypes, TypeOK
<1>2. ASSUME NEW d \in leavers, IgnoreDisconnect(d) PROVE TypeOK'
  BY <1>2 DEF IgnoreDisconnect, TypeOK
<1>3. ASSUME NEW s \in submissions, AcceptAction(s) PROVE TypeOK'
  <2>1. /\ s \in Submission /\ s.client \in Players /\ s.round \in Nat \ {0}
        /\ roundCounter \in Nat
    BY DEF TypeOK, Submission
  <2>2. UNCHANGED <<party, roundCounter, effects, pendingDelivery, shown, endings,
                    rejections, leavers, retries, shutdowns>>
    BY <1>3 DEF AcceptAction
  <2>3. submissions' \in SUBSET Submission /\ accepted' \in SUBSET (Players \X Nat)
    BY <1>3, <2>1 DEF AcceptAction, TypeOK
  <2>4. TurnTypes'
    <3>1. turnQueue \in Seq(Players) /\ [buffer EXCEPT ![s.client] = s.round] \in [Players -> Entry]
      BY <2>1 DEF TypeOK, Entry
    <3>2. ResumeTurns(Rotate(turnQueue, 1), [buffer EXCEPT ![s.client] = s.round])
      BY <1>3 DEF AcceptAction
    <3>3. /\ joinOrder' \in Seq(Players) /\ connected' \in SUBSET Players
          /\ version' \in [Players -> Nat] /\ departed' \in SUBSET Players
          /\ returned' \in SUBSET Players
      BY <2>2 DEF TypeOK
    <3> QED
      BY <3>1, <3>2, <3>3, RotateOnce, ResumeTurnsType
  <2>5. announced' \in Announcement
    <3>1. active' \in Players \cup {NoOne}
      BY <2>4 DEF TurnTypes
    <3>2. announced' = Announcing(active')
      BY <1>3 DEF AcceptAction
    <3> QED
      BY <3>1, <3>2, AnnouncingType
  <2> QED
    BY <2>2, <2>3, <2>4, <2>5 DEF TurnTypes, TypeOK
<1>4. ASSUME NEW s \in submissions, RejectAction(s) \/ AbandonAction(s) PROVE TypeOK'
  <2>1. s.client \in Players
    BY DEF TypeOK, Submission
  <2> QED
    BY <1>4, <2>1 DEF RejectAction, AbandonAction, TypeOK
<1>5. ASSUME NEW p \in Players, RestoreTurn(p) PROVE TypeOK'
  <2>1. /\ turnQueue' \in Seq(Players) /\ buffer' \in [Players -> Entry]
        /\ active' \in Players \cup {NoOne}
    <3>1. /\ turnQueue \in Seq(Players) /\ buffer \in [Players -> Entry]
          /\ active \in Players \cup {NoOne} /\ connected \in SUBSET Players
      BY DEF TypeOK
    <3> DEFINE next == NextTurn(turnQueue, connected, buffer)
    <3>2. /\ next.queue \in Seq(Players) /\ next.buffer \in [Players -> Entry]
          /\ next.active \in Players \cup {NoOne}
      BY <3>1, NextTurnType DEF OnlyTurns
    <3>3. \/ turnQueue' = next.queue /\ buffer' = next.buffer /\ active' = next.active
          \/ UNCHANGED turn
      BY <1>5 DEF RestoreTurn
    <3> HIDE DEF next
    <3> QED
      BY <3>1, <3>2, <3>3
  <2> QED
    BY <1>5, <2>1 DEF RestoreTurn, TypeOK
<1>6. ASSUME NEW r \in retries, RelaunchRound(r) PROVE TypeOK'
  BY <1>6, LaunchJobType DEF RelaunchRound, TypeOK
<1>7. ASSUME NEW r \in retries, RefuseRetry(r) PROVE TypeOK'
  BY <1>7 DEF RefuseRetry, TypeOK
<1>8. ASSUME NEW g \in greetings, AnnounceReturn(g) PROVE TypeOK'
  <2>1. g.player \in Players
    BY DEF TypeOK, Greeting
  <2>2. announced' \in Announcement
    BY <1>8, <2>1, ToldTypes DEF AnnounceReturn
  <2> QED
    BY <1>8, <2>2 DEF AnnounceReturn, TypeOK
<1> QED
  BY <1>1, <1>2, <1>3, <1>4, <1>5, <1>6, <1>7, <1>8 DEF RequestStep

\* Moving a job to another stage keeps the set of jobs.
LEMMA StageType ==
    ASSUME TypeOK, NEW j \in jobs,
           NEW s \in {"opening", "working", "archiving", "delivering", "failing",
                      "recovering", "finishing"},
           Stage(j, s)
    PROVE  jobs' \in SUBSET Job
<1>1. [j EXCEPT !.stage = s] \in Job /\ jobs \in SUBSET Job
  BY JobTypes DEF TypeOK
<1> QED
  BY <1>1 DEF Stage

LEMMA EventTypes ==
    /\ \A n \in Nat : Outcome(n) \in Event /\ RoundStart(n) \in Event
    /\ \A n \in Nat, p \in Players : Directive(n, p) \in Event
    /\ Started \in Event
BY DEF Outcome, RoundStart, Directive, Started, Event

\* What a commit queues for delivery is typed, with or without a directive.
LEMMA QueuedType ==
    ASSUME NEW q \in Seq(Event), NEW a \in Event, NEW b \in Event, NEW c \in Event,
           NEW d \in Event
    PROVE  /\ q \o <<a, b, c>> \o <<>> \in Seq(Event)
           /\ q \o <<a, b, c>> \o <<d>> \in Seq(Event)
           /\ q \o <<a>> \o <<>> \in Seq(Event)
           /\ q \o <<a>> \o <<b, c>> \in Seq(Event)
<1>1. /\ <<>> \in Seq(Event) /\ <<a>> \in Seq(Event) /\ <<d>> \in Seq(Event)
      /\ <<b, c>> \in Seq(Event) /\ <<a, b, c>> \in Seq(Event)
  OBVIOUS
<1>2. q \o <<a, b, c>> \in Seq(Event) /\ q \o <<a>> \in Seq(Event)
  BY <1>1, ConcatProperties
<1> QED
  BY <1>1, <1>2, ConcatProperties

LEMMA JobStepType ==
    ASSUME TypeOK, NEW j \in jobs, JobStep(j)
    PROVE  TypeOK'
<1> USE DEF party, turn, round, work, output, requests
<1>0. j \in Job /\ j.epoch \in Nat
  BY DEF TypeOK, Job
<1>1. CASE OpenJob(j)
  <2>1. Stage(j, "working") \/ Stage(j, "finishing")
    BY <1>1 DEF OpenJob
  <2> QED
    BY <1>1, <2>1, StageType DEF OpenJob, TypeOK
<1>2. CASE FailWork(j)
  BY <1>2, StageType DEF FailWork, TypeOK
<1>3. CASE CancelJob(j)
  BY <1>3, StageType DEF CancelJob, TypeOK
<1>4. CASE DropResult(j)
  BY <1>4, StageType DEF DropResult, TypeOK
<1>5. CASE FailArchive(j)
  BY <1>5, StageType DEF FailArchive, TypeOK
<1>6. CASE FinishDelivery(j)
  BY <1>6, StageType DEF FinishDelivery, TypeOK
<1>7. CASE AbandonFailure(j)
  BY <1>7, StageType DEF AbandonFailure, TypeOK
<1>8. CASE OpenLobby(j)
  BY <1>8, StageType DEF OpenLobby, TypeOK, Phases
<1>9. CASE BeginArchive(j)
  BY <1>9, StageType DEF BeginArchive, TypeOK
<1>10. CASE RetryAttempt(j)
  BY <1>10, JobTypes DEF RetryAttempt, TypeOK
<1>11. CASE \E outcome \in DiceOutcomes : PlanDice(j, outcome)
  <2>1. pending' \in Round
    BY <1>11 DEF PlanDice, TypeOK, Round
  <2> QED
    BY <1>11, <2>1 DEF PlanDice, TypeOK
<1>12. CASE CommitStart(j)
  <2> DEFINE next == NextTurn(turnQueue, connected, buffer)
             opening == pendingDelivery \o <<Outcome(0), Started, RoundStart(1)>>
  <2>1. /\ next.queue \in Seq(Players) /\ next.buffer \in [Players -> Entry]
        /\ next.active \in Players \cup {NoOne}
    BY NextTurnType DEF TypeOK, OnlyTurns
  <2>2. /\ turnQueue' = next.queue /\ buffer' = next.buffer /\ active' = next.active
        /\ phase' = "ACTIVE_TURN" /\ departed' = Joined \ connected /\ returned' = {}
        /\ pendingDelivery' = opening \o (IF next.active = NoOne THEN <<>>
                                          ELSE <<Directive(1, next.active)>>)
        /\ UNCHANGED <<joinOrder, connected, version, live, greetings, round, generation,
                       inferenceTask, effects, shown, announced, endings, requests>>
    BY <1>12 DEF CommitStart
  <2>3. jobs' \in SUBSET Job
    BY <1>12, StageType DEF CommitStart
  <2> HIDE DEF next
  <2>4. pendingDelivery' \in Seq(Event)
    <3>1. pendingDelivery \in Seq(Event)
      BY DEF TypeOK
    <3>2. CASE next.active = NoOne
      BY <2>2, <3>1, <3>2, EventTypes, QueuedType
    <3>3. CASE next.active # NoOne
      BY <2>1, <2>2, <3>1, <3>3, EventTypes, QueuedType
    <3> QED
      BY <3>2, <3>3
  <2>5. departed' \in SUBSET Players
    BY <2>2, RangeOfSequence DEF TypeOK, Joined
  <2> QED
    BY <2>1, <2>2, <2>3, <2>4, <2>5 DEF TypeOK, Phases
<1>13. CASE CommitRound(j)
  <2> DEFINE next == NewRound
             number == roundCounter + 1
  <2>1. /\ next.queue \in Seq(Players) /\ next.buffer \in [Players -> Entry]
        /\ next.active \in Players \cup {NoOne}
    BY NextTurnType, EmptyBufferType DEF TypeOK, NewRound, OnlyTurns
  <2>2. /\ turnQueue' = next.queue /\ buffer' = next.buffer /\ active' = next.active
        /\ phase' = "ACTIVE_TURN" /\ pending' = NoRound /\ roundCounter' = number
        /\ departed' \in SUBSET departed /\ returned' \in SUBSET returned
        /\ accepted' \in SUBSET accepted /\ effects' = "job"
        /\ pendingDelivery' = pendingDelivery \o <<Outcome(number)>>
             \o (IF next.active = NoOne THEN <<>>
                 ELSE <<RoundStart(number + 1), Directive(number + 1, next.active)>>)
        /\ UNCHANGED <<joinOrder, connected, version, live, greetings, paused, generation,
                       inferenceTask, shown, announced, endings, requests>>
    BY <1>13 DEF CommitRound
  <2>3. jobs' \in SUBSET Job
    BY <1>13, StageType DEF CommitRound
  <2> HIDE DEF next
  <2>4. pendingDelivery' \in Seq(Event)
    <3>1. pendingDelivery \in Seq(Event) /\ number \in Nat /\ number + 1 \in Nat
      BY DEF TypeOK
    <3> HIDE DEF number
    <3>2. CASE next.active = NoOne
      BY <2>2, <3>1, <3>2, EventTypes, QueuedType
    <3>3. CASE next.active # NoOne
      BY <2>1, <2>2, <3>1, <3>3, EventTypes, QueuedType
    <3> QED
      BY <3>2, <3>3
  <2> QED
    BY <2>1, <2>2, <2>3, <2>4, NoRoundType DEF TypeOK, Phases
<1>14. CASE Deliver(j)
  BY <1>14, DeliverHeadType DEF Deliver, TypeOK
<1>15. CASE MissDeadline(j)
  <2>1. shown' \in Int /\ announced' \in Announcement
    BY <1>15, PublishHeadType DEF MissDeadline, TypeOK
  <2>2. jobs' \in SUBSET Job
    BY <1>15, StageType DEF MissDeadline
  <2> QED
    BY <1>15, <2>1, <2>2 DEF MissDeadline, TypeOK
<1>16. CASE Rollback(j)
  <2>1. paused' \in BOOLEAN
    BY <1>16 DEF Rollback, Pauses
  <2>2. jobs' \in SUBSET Job
    BY <1>16, StageType DEF Rollback
  <2>3. phase' \in Phases
    BY <1>0, <1>16 DEF Rollback, Phases, Job
  <2> QED
    BY <1>16, <2>1, <2>2, <2>3 DEF Rollback, TypeOK
<1>17. CASE Recover(j)
  <2> DEFINE next == NextTurn(turnQueue, connected, buffer)
  <2>1. /\ next.queue \in Seq(Players) /\ next.buffer \in [Players -> Entry]
        /\ next.active \in Players \cup {NoOne}
    BY NextTurnType DEF TypeOK, OnlyTurns
  <2>2. /\ turnQueue' \in {turnQueue, next.queue} /\ buffer' \in {buffer, next.buffer}
        /\ active' \in {active, next.active}
        /\ announced' \in {announced, Told(active), Told(next.active)}
        /\ effects' = "job"
        /\ UNCHANGED <<phase, party, round, generation, inferenceTask, pendingDelivery,
                       shown, endings, requests>>
    BY <1>17 DEF Recover
  <2>3. jobs' \in SUBSET Job
    BY <1>17, StageType DEF Recover
  <2> HIDE DEF next
  <2>4. announced' \in Announcement
    BY <2>1, <2>2, ToldTypes DEF TypeOK
  <2> QED
    BY <2>1, <2>2, <2>3, <2>4 DEF TypeOK
<1>18. CASE EndJob(j)
  BY <1>0, <1>18 DEF EndJob, TypeOK
<1> QED
  BY <1>1, <1>2, <1>3, <1>4, <1>5, <1>6, <1>7, <1>8, <1>9, <1>10, <1>11, <1>12, <1>13,
     <1>14, <1>15, <1>16, <1>17, <1>18 DEF JobStep

LEMMA NextType == TypeOK /\ [Next]_vars => TypeOK'
<1> SUFFICES ASSUME TypeOK, [Next]_vars PROVE TypeOK'
  OBVIOUS
<1>1. CASE UNCHANGED vars
  BY <1>1 DEF vars, party, turn, round, work, output, requests, TypeOK
<1>2. CASE Next
  BY <1>2, ClientStepType, RequestStepType, JobStepType, ShutdownStepType DEF Next
<1> QED
  BY <1>1, <1>2

\* Every variable of the session keeps its type, whatever the size of the party and the
\* number of rounds: no handler leaves a half-built queue, buffer, round or job behind.
THEOREM TypeCorrect == Spec => []TypeOK
BY InitType, NextType, PTL DEF Spec

-----------------------------------------------------------------------------
(* The two outcomes of a change of turn *)

\* The buffer was complete: a round with all of its actions is pending.
RoundLaunched ==
    /\ LaunchJob("round")
    /\ pending'.actions = buffer'
    /\ \A p \in Joined : buffer'[p] # Blank
    /\ buffer' # EmptyBuffer

\* The next player was chosen, or nobody is connected.
TurnPassed ==
    /\ UNCHANGED <<phase, paused, pending, work>>
    /\ connected' = {} => active' = NoOne
    /\ connected' # {} =>
          /\ active' \in connected'
          /\ buffer'[active'] = Blank
          /\ turnQueue' # <<>> /\ turnQueue'[1] = active'

LEMMA EmptyBufferIsBlank == \A p \in Players : EmptyBuffer[p] = Blank
BY DEF EmptyBuffer

\* A change of turn launches the round or passes the turn; the queue keeps its seats and
\* the buffer its entries.
LEMMA ResumeTurnsEffect ==
    ASSUME NEW queue \in Seq(Players), NEW buf \in [Players -> Entry],
           Range(queue) = Joined, joinOrder' = joinOrder, joinOrder \in Seq(Players),
           connected' \in SUBSET Joined, ResumeTurns(queue, buf)
    PROVE  /\ Range(turnQueue') = Joined
           /\ \A p \in Players : buffer'[p] \in {buf[p], Idle}
           /\ \A p \in Players : buf[p] # Blank => buffer'[p] = buf[p]
           /\ RoundLaunched \/ TurnPassed
<1> DEFINE next == NextTurn(queue, connected', buf)
<1>1. Joined \in SUBSET Players
  BY RangeOfSequence DEF Joined
<1>2. connected' \in SUBSET Players
  BY <1>1
<1>3. OnlyTurns(queue, connected', buf, next)
  BY <1>2, NextTurnType
<1>4. Chooses(queue, connected', buf, next)
  BY <1>2, NextTurnChooses
<1>5. turnQueue' = next.queue /\ buffer' = next.buffer /\ active' = next.active
  BY DEF ResumeTurns
<1>6. \/ /\ Complete(next.buffer, Joined)
         /\ pending' = [actions |-> next.buffer, participants |-> Participants',
                        dice |-> NoDice]
         /\ LaunchJob("round")
      \/ ~Complete(next.buffer, Joined) /\ UNCHANGED <<phase, paused, pending, work>>
  BY DEF ResumeTurns
<1> HIDE DEF next
<1> USE DEF OnlyTurns, Chooses
<1>7. CASE Complete(next.buffer, Joined)
  <2>1. pending'.actions = buffer' /\ LaunchJob("round")
    BY <1>5, <1>6, <1>7
  <2>2. Joined # {} /\ \A p \in Joined : buffer'[p] # Blank
    BY <1>5, <1>7 DEF Complete
  <2>3. buffer' # EmptyBuffer
    BY <1>1, <2>2, EmptyBufferIsBlank
  <2> QED
    BY <1>3, <1>5, <2>1, <2>2, <2>3 DEF RoundLaunched
<1>8. CASE ~Complete(next.buffer, Joined)
  <2>1. UNCHANGED <<phase, paused, pending, work>>
    BY <1>6, <1>8
  <2>2. CASE connected' = {}
    BY <1>3, <1>5, <2>1, <2>2 DEF TurnPassed
  <2>3. CASE connected' # {}
    <3>1. \E p \in connected' \cap Range(queue) : buf[p] = Blank
      BY <1>4, <1>8, <2>3 DEF Complete
    <3> QED
      BY <1>3, <1>4, <1>5, <2>1, <2>3, <3>1 DEF TurnPassed
  <2> QED
    BY <1>3, <1>5, <2>2, <2>3
<1> QED
  BY <1>7, <1>8

-----------------------------------------------------------------------------
(* Launching a job *)

\* With no unsettled job a launch keeps the jobs in order.
LEMMA LaunchJobInv ==
    ASSUME TypeOK, JobInv, NEW kind \in {"scenario", "start", "round"}, LaunchJob(kind),
           \A j \in jobs : j.stage \notin Unsettled,
           kind = "round" <=> pending' # NoRound
    PROVE  JobInv'
<1> DEFINE job == [epoch |-> generation + 1, kind |-> kind, attempt |-> 0,
                   stage |-> "opening"]
<1>1. /\ generation' = generation + 1 /\ phase' = "AWAITING_LLM"
      /\ jobs' = jobs \cup {job}
  BY DEF LaunchJob
<1>2. ~paused'
  BY DEF LaunchJob
<1>3. job.epoch = generation + 1 /\ job.kind = kind /\ job.stage = "opening"
  OBVIOUS
<1>4. generation \in Nat /\ \A j \in jobs : j.epoch \in Nat
  BY DEF TypeOK, Job
<1>5. \A j \in jobs : j.epoch <= generation
  BY DEF JobInv, GenerationsAreUnique
<1> HIDE DEF job
<1>6. \A j \in jobs : j.epoch < generation' /\ j.epoch # job.epoch
  BY <1>1, <1>3, <1>4, <1>5
<1>7. GenerationsAreUnique'
  BY <1>1, <1>3, <1>4, <1>6 DEF JobInv, GenerationsAreUnique
<1>8. UnsettledIsCurrent'
  BY <1>1, <1>2, <1>3 DEF UnsettledIsCurrent
<1>9. \A j \in jobs' : Current(j.epoch)' => j = job
  BY <1>1, <1>3, <1>4, <1>6 DEF Current
<1>10. KindMatchesPending'
  <2>1. \A j \in jobs' : j.stage \in Unsettled => j = job
    BY <1>1
  <2> QED
    BY <1>3, <1>9, <2>1 DEF KindMatchesPending, Unsettled
<1>11. DeliveryFollowsCommit'
  BY <1>3, <1>9 DEF DeliveryFollowsCommit
<1>12. PausedIsRetryable'
  BY <1>2 DEF PausedIsRetryable
<1>13. SomeoneResolves'
  BY <1>1, <1>3 DEF SomeoneResolves, Current
<1> QED
  BY <1>7, <1>8, <1>10, <1>11, <1>12, <1>13 DEF JobInv
-----------------------------------------------------------------------------
(* Steps that leave part of the state alone *)

\* Submissions are dropped or lose their owner, but none is made.
SubmissionsFrom ==
    \A s \in submissions' : \E r \in submissions : r.epoch = s.epoch /\ r.round = s.round

LEMMA DisownKeepsRounds ==
    ASSUME TypeOK, NEW p, submissions' = Disown(submissions, p)
    PROVE  SubmissionsFrom
<1>1. ASSUME NEW r \in Submission
      PROVE  /\ [r EXCEPT !.owned = FALSE].epoch = r.epoch
             /\ [r EXCEPT !.owned = FALSE].round = r.round
  BY DEF Submission
<1>2. ASSUME NEW s \in submissions'
      PROVE  \E r \in submissions : r.epoch = s.epoch /\ r.round = s.round
  <2>1. PICK r \in submissions :
            s = IF r.client = p THEN [r EXCEPT !.owned = FALSE] ELSE r
    BY DEF Disown
  <2>2. r \in Submission
    BY DEF TypeOK
  <2> QED
    BY <1>1, <2>1, <2>2
<1> QED
  BY <1>2 DEF SubmissionsFrom

LEMMA SameJobsInv ==
    ASSUME JobInv, UNCHANGED <<phase, paused, pending, generation, jobs>>
    PROVE  JobInv'
BY DEF JobInv, GenerationsAreUnique, UnsettledIsCurrent, KindMatchesPending,
       DeliveryFollowsCommit, PausedIsRetryable, SomeoneResolves, Current

\* While the phase is not AWAITING_LLM and the game has not ended, no job can commit.
LEMMA NoneUnsettled ==
    ASSUME JobInv, phase \notin {"AWAITING_LLM", "ENDED"} \/ paused
    PROVE  \A j \in jobs : j.stage \notin Unsettled
<1>1. paused => phase = "AWAITING_LLM"
  BY DEF JobInv, PausedIsRetryable
<1> QED
  BY <1>1 DEF JobInv, UnsettledIsCurrent

LEMMA SameTurnInv ==
    ASSUME TurnInv, UNCHANGED <<phase, joinOrder, connected, turn>>
    PROVE  TurnInv'
BY DEF TurnInv, SeatsKept, EmptyTableWaits, TurnIsPlayable, Joined, turn

LEMMA SameEntryInv ==
    ASSUME EntryInv, UNCHANGED <<phase, buffer, roundCounter, accepted, generation>>,
           SubmissionsFrom
    PROVE  EntryInv'
<1>1. ActionsOfThisRound' /\ AcknowledgedIsCounted'
  BY DEF EntryInv, ActionsOfThisRound, AcknowledgedIsCounted
<1>2. SubmissionsAreFresh'
  BY DEF EntryInv, SubmissionsAreFresh, SubmissionsFrom
<1> QED
  BY <1>1, <1>2 DEF EntryInv

LEMMA SameRoundInv ==
    ASSUME RoundInv, UNCHANGED <<phase, joinOrder, buffer, pending>>
    PROVE  RoundInv'
BY DEF RoundInv, PendingIsComplete, PendingHasActions, PreparationIsEmpty, Joined

LEMMA SameEnd ==
    ASSUME EndIsQuiet, UNCHANGED <<phase, active, paused>>,
           pendingDelivery' = pendingDelivery \/ pendingDelivery # <<>>
    PROVE  EndIsQuiet'
BY DEF EndIsQuiet

\* Every step of the core keeps CoreInv; SessionInv is TypeOK and CoreInv.
CoreInv == TurnInv /\ EntryInv /\ RoundInv /\ JobInv /\ EndIsQuiet

-----------------------------------------------------------------------------
(* Changes of turn *)

LEMMA TurnChangeInv ==
    ASSUME SessionInv, NEW queue \in Seq(Players), NEW buf \in [Players -> Entry],
           phase = "ACTIVE_TURN", Range(queue) = Joined, joinOrder' = joinOrder,
           connected' \in SUBSET Joined, UNCHANGED <<roundCounter, pendingDelivery>>,
           \A p \in Players : buf[p] # buffer[p] =>
               buffer[p] = Blank /\ buf[p] \in {Idle, roundCounter + 1},
           accepted' \in SUBSET (Players \X Nat),
           \A a \in accepted' :
               a \in accepted \/ (a[2] = roundCounter + 1 /\ buf[a[1]] = a[2]),
           SubmissionsFrom,
           ResumeTurns(queue, buf)
    PROVE  CoreInv'
<1> USE DEF SessionInv
<1>1. /\ Range(turnQueue') = Joined
      /\ \A p \in Players : buffer'[p] \in {buf[p], Idle}
      /\ \A p \in Players : buf[p] # Blank => buffer'[p] = buf[p]
      /\ RoundLaunched \/ TurnPassed
  BY ResumeTurnsEffect DEF TypeOK
<1>2. \A j \in jobs : j.stage \notin Unsettled
  BY NoneUnsettled
<1>3. pending = NoRound
  BY DEF RoundInv, PendingIsComplete
<1>4. Joined' = Joined /\ roundCounter \in Nat
  BY DEF Joined, TypeOK
<1>5. ActionsOfThisRound'
  BY <1>1 DEF EntryInv, ActionsOfThisRound
<1>6. AcknowledgedIsCounted'
  <2>1. ASSUME NEW a \in accepted'
        PROVE  a[2] <= roundCounter + 1 /\ (a[2] = roundCounter + 1 => buffer'[a[1]] = a[2])
    <3>1. a[1] \in Players /\ a[2] \in Nat
      OBVIOUS
    <3>2. a \in accepted => /\ a[2] <= roundCounter + 1
                            /\ a[2] = roundCounter + 1 => buffer[a[1]] = a[2]
      BY DEF EntryInv, AcknowledgedIsCounted
    <3>3. a[2] = roundCounter + 1 => buf[a[1]] = a[2] /\ a[2] # Blank
      BY <1>4, <3>1, <3>2 DEF Blank
    <3> QED
      BY <1>1, <1>4, <3>1, <3>2, <3>3
  <2> QED
    BY <2>1 DEF AcknowledgedIsCounted
<1>7. CASE RoundLaunched
  <2>1. /\ phase' = "AWAITING_LLM" /\ generation' = generation + 1 /\ LaunchJob("round")
        /\ pending'.actions = buffer' /\ buffer' # EmptyBuffer
        /\ \A p \in Joined : buffer'[p] # Blank
    BY <1>7 DEF RoundLaunched, LaunchJob
  <2>2. pending' # NoRound
    BY <2>1 DEF NoRound
  <2>3. TurnInv'
    BY <1>1, <1>4, <2>1 DEF TurnInv, SeatsKept, EmptyTableWaits, TurnIsPlayable
  <2>4. SubmissionsAreFresh'
    <3>1. \A r \in submissions : r.epoch \in Nat /\ r.epoch <= generation
      BY DEF TypeOK, Submission, EntryInv, SubmissionsAreFresh
    <3>2. generation \in Nat
      BY DEF TypeOK
    <3> QED
      BY <2>1, <3>1, <3>2 DEF SubmissionsAreFresh, SubmissionsFrom
  <2>5. RoundInv'
    BY <1>4, <2>1, <2>2 DEF RoundInv, PendingIsComplete, PendingHasActions,
                            PreparationIsEmpty
  <2>6. JobInv'
    BY <1>2, <2>1, <2>2, LaunchJobInv
  <2>7. EndIsQuiet'
    BY <2>1 DEF EndIsQuiet
  <2> QED
    BY <1>5, <1>6, <2>3, <2>4, <2>5, <2>6, <2>7 DEF CoreInv, EntryInv
<1>8. CASE TurnPassed
  <2>1. UNCHANGED <<phase, paused, pending, generation, jobs>>
    BY <1>8 DEF TurnPassed, work
  <2>2. TurnInv'
    BY <1>1, <1>4, <1>8 DEF TurnPassed, TurnInv, SeatsKept, EmptyTableWaits, TurnIsPlayable
  <2>3. SubmissionsAreFresh'
    BY <2>1 DEF EntryInv, SubmissionsAreFresh, SubmissionsFrom
  <2>4. RoundInv'
    BY <1>3, <2>1 DEF RoundInv, PendingIsComplete, PendingHasActions, PreparationIsEmpty
  <2>5. JobInv'
    BY <2>1, SameJobsInv
  <2>6. EndIsQuiet'
    BY <2>1 DEF EndIsQuiet
  <2> QED
    BY <1>5, <1>6, <2>2, <2>3, <2>4, <2>5, <2>6 DEF CoreInv, EntryInv
<1> QED
  BY <1>1, <1>7, <1>8
-----------------------------------------------------------------------------
(* Moves of one job *)

\* A job moves to another stage while the phase, the round and the generation stay.
LEMMA JobMoveInv ==
    ASSUME TypeOK, JobInv, NEW j \in jobs, NEW k, jobs' = (jobs \ {j}) \cup {k},
           k.epoch = j.epoch, k.kind = j.kind,
           UNCHANGED <<phase, paused, pending, generation>>,
           k.stage \in Unsettled => j.stage \in Unsettled,
           k.stage = "archiving" => k.kind = "start",
           k.stage \in {"delivering", "recovering"} /\ Current(j.epoch) =>
               phase # "AWAITING_LLM",
           paused /\ Current(j.epoch) => k.stage = "finishing",
           Current(j.epoch) /\ phase = "AWAITING_LLM"
               /\ j.stage \in Unsettled \cup {"failing"} =>
                      k.stage \in Unsettled \cup {"failing"}
    PROVE  JobInv'
<1>1. GenerationsAreUnique'
  BY DEF JobInv, GenerationsAreUnique
<1>2. UnsettledIsCurrent'
  BY DEF JobInv, UnsettledIsCurrent
<1>3. KindMatchesPending'
  BY DEF JobInv, KindMatchesPending, Current
<1>4. DeliveryFollowsCommit'
  BY DEF JobInv, DeliveryFollowsCommit, Current
<1>5. PausedIsRetryable'
  BY DEF JobInv, PausedIsRetryable, Current
<1>6. SomeoneResolves'
  BY DEF JobInv, SomeoneResolves, Current, Unsettled
<1> QED
  BY <1>1, <1>2, <1>3, <1>4, <1>5, <1>6 DEF JobInv

\* The current job settles what the session waits for: no other job could have.
LEMMA SettleInv ==
    ASSUME TypeOK, JobInv, NEW j \in jobs, Current(j.epoch), phase = "AWAITING_LLM",
           j.stage \in Unsettled \cup {"failing"},
           NEW k, jobs' = (jobs \ {j}) \cup {k}, k.epoch = j.epoch, k.kind = j.kind,
           k.stage \in {"delivering", "finishing"}, UNCHANGED generation,
           \/ phase' \notin {"AWAITING_LLM", "ENDED"} /\ ~paused'
           \/ /\ phase' = "AWAITING_LLM" /\ paused' /\ pending' = pending
              /\ j.kind = "round" /\ k.stage = "finishing"
    PROVE  JobInv'
<1>1. GenerationsAreUnique'
  BY DEF JobInv, GenerationsAreUnique
<1>2. \A i \in jobs' : i.stage \notin Unsettled
  <2>1. \A i \in jobs : i.stage \in Unsettled => i.epoch = j.epoch
    BY DEF JobInv, UnsettledIsCurrent, Current
  <2> QED
    BY <2>1 DEF JobInv, GenerationsAreUnique, Unsettled
<1>3. UnsettledIsCurrent'
  BY <1>2 DEF UnsettledIsCurrent
<1>4. \A i \in jobs' : Current(i.epoch)' => i = k
  BY DEF JobInv, GenerationsAreUnique, Current
<1>5. \A i \in jobs' : i.stage # "archiving"
  BY <1>2 DEF Unsettled
<1>6. j.kind = "round" => pending # NoRound
  BY DEF JobInv, KindMatchesPending
<1>7. KindMatchesPending'
  BY <1>2, <1>4, <1>5, <1>6 DEF KindMatchesPending
<1>8. DeliveryFollowsCommit'
  BY <1>4 DEF DeliveryFollowsCommit
<1>9. PausedIsRetryable'
  BY <1>4, <1>6 DEF PausedIsRetryable
<1>10. SomeoneResolves'
  BY DEF SomeoneResolves
<1> QED
  BY <1>1, <1>3, <1>7, <1>8, <1>9, <1>10 DEF JobInv

-----------------------------------------------------------------------------
(* Advancing the queue without looking for a complete round *)

LEMMA AdvanceTurnInv ==
    ASSUME NEW queue \in Seq(Players), NEW buf \in [Players -> Entry],
           NEW next, next = NextTurn(queue, connected, buf),
           joinOrder \in Seq(Players), Range(queue) = Joined, connected \subseteq Joined,
           connected # {} => \E p \in connected : buf[p] = Blank,
           UNCHANGED <<joinOrder, connected>>,
           turnQueue' = next.queue, buffer' = next.buffer, active' = next.active
    PROVE  TurnInv' /\ OnlyTurns(queue, connected, buf, next)
<1>1. connected \in SUBSET Players
  BY RangeOfSequence DEF Joined
<1>2. OnlyTurns(queue, connected, buf, next)
  BY <1>1, NextTurnType
<1>3. Chooses(queue, connected, buf, next)
  BY <1>1, NextTurnChooses
<1>4. SeatsKept'
  BY <1>2 DEF OnlyTurns, SeatsKept, Joined
<1>5. EmptyTableWaits'
  BY <1>2 DEF OnlyTurns, EmptyTableWaits
<1>6. TurnIsPlayable'
  <2>1. connected # {} => \E p \in connected \cap Range(queue) : buf[p] = Blank
    OBVIOUS
  <2> QED
    BY <1>3, <2>1 DEF Chooses, TurnIsPlayable
<1> QED
  BY <1>2, <1>4, <1>5, <1>6 DEF TurnInv

\* In a turn phase the holder of the turn can act, so advancing cannot strand the round.
LEMMA AdvanceInv ==
    ASSUME SessionInv, phase = "ACTIVE_TURN",
           UNCHANGED <<phase, joinOrder, connected, pending, roundCounter, accepted,
                       generation>>,
           SubmissionsFrom, NEW next, next = NextTurn(turnQueue, connected, buffer),
           turnQueue' = next.queue, buffer' = next.buffer, active' = next.active
    PROVE  TurnInv' /\ EntryInv' /\ RoundInv'
<1>1. /\ turnQueue \in Seq(Players) /\ buffer \in [Players -> Entry]
      /\ joinOrder \in Seq(Players) /\ roundCounter \in Nat
      /\ accepted \in SUBSET (Players \X Nat)
  BY DEF SessionInv, TypeOK
<1>2. /\ Range(turnQueue) = Joined /\ connected \subseteq Joined
      /\ connected # {} => active \in connected /\ buffer[active] = Blank
  BY DEF SessionInv, TurnInv, SeatsKept, TurnIsPlayable
<1>3. TurnInv' /\ OnlyTurns(turnQueue, connected, buffer, next)
  BY <1>1, <1>2, AdvanceTurnInv
<1>4. /\ \A p \in Players : buffer'[p] \in {buffer[p], Idle}
      /\ \A p \in Players : buffer[p] # Blank => buffer'[p] = buffer[p]
  BY <1>3 DEF OnlyTurns
<1>5. EntryInv'
  <2>1. ActionsOfThisRound'
    BY <1>4 DEF SessionInv, EntryInv, ActionsOfThisRound
  <2>2. AcknowledgedIsCounted'
    BY <1>1, <1>4 DEF SessionInv, EntryInv, AcknowledgedIsCounted, Blank
  <2>3. SubmissionsAreFresh'
    BY DEF SessionInv, EntryInv, SubmissionsAreFresh, SubmissionsFrom
  <2> QED
    BY <2>1, <2>2, <2>3 DEF EntryInv
<1>6. RoundInv'
  BY DEF SessionInv, RoundInv, PendingIsComplete, PendingHasActions, PreparationIsEmpty
<1> QED
  BY <1>3, <1>5, <1>6

-----------------------------------------------------------------------------
(* Each action keeps CoreInv *)

\* A step that leaves phase, turn, round and work alone, and makes no submission.
LEMMA QuietInv ==
    ASSUME SessionInv, UNCHANGED <<phase, joinOrder, connected, turn, round, work>>,
           SubmissionsFrom,
           pendingDelivery' = pendingDelivery \/ pendingDelivery # <<>>
    PROVE  CoreInv'
<1> USE DEF SessionInv, turn, round, work
<1>1. TurnInv'
  BY SameTurnInv
<1>2. EntryInv'
  BY SameEntryInv
<1>3. RoundInv'
  BY SameRoundInv
<1>4. JobInv'
  BY SameJobsInv
<1>5. EndIsQuiet'
  BY SameEnd
<1> QED
  BY <1>1, <1>2, <1>3, <1>4, <1>5 DEF CoreInv

\* A step of one job that leaves phase, turn and round alone.
LEMMA QuietJobInv ==
    ASSUME SessionInv, UNCHANGED <<phase, joinOrder, connected, turn, round, generation,
                                   submissions>>,
           pendingDelivery' = pendingDelivery \/ pendingDelivery # <<>>,
           JobInv'
    PROVE  CoreInv'
<1> USE DEF SessionInv, turn, round
<1>1. TurnInv'
  BY SameTurnInv
<1>2. EntryInv'
  BY SameEntryInv DEF SubmissionsFrom
<1>3. RoundInv'
  BY SameRoundInv
<1>4. EndIsQuiet'
  BY SameEnd
<1> QED
  BY <1>1, <1>2, <1>3, <1>4 DEF CoreInv

\* Appending a player seats that player.
LEMMA RangeAppend ==
    ASSUME NEW q \in Seq(Players), NEW p \in Players
    PROVE  Range(Append(q, p)) = Range(q) \cup {p}
<1>1. Append(q, p) \in Seq(Players) /\ Len(Append(q, p)) = Len(q) + 1
  OBVIOUS
<1>2. \A i \in 1..Len(q) : Append(q, p)[i] = q[i]
  OBVIOUS
<1>3. Append(q, p)[Len(q) + 1] = p
  OBVIOUS
<1>4. Range(q) = {q[i] : i \in 1..Len(q)}
  BY RangeOfSequence
<1>5. Range(Append(q, p)) = {Append(q, p)[i] : i \in 1..(Len(q) + 1)}
  BY <1>1, RangeOfSequence
<1>6. Len(q) \in Nat
  OBVIOUS
<1> QED
  BY <1>2, <1>3, <1>4, <1>5, <1>6

\* The host's commands launch a job in a phase where none is unsettled.
LEMMA LaunchStepInv ==
    ASSUME SessionInv, NEW kind \in {"scenario", "start", "round"},
           LaunchJob(kind), UNCHANGED <<party, turn, pending, roundCounter, accepted,
                                        submissions, pendingDelivery>>,
           \/ phase \in {"SCENARIO_INJECTION", "AWAITING_PLAYERS"} /\ kind # "round"
           \/ paused /\ pending # NoRound /\ kind = "round"
    PROVE  CoreInv'
<1> USE DEF SessionInv, party, turn
<1>1. /\ generation' = generation + 1 /\ phase' = "AWAITING_LLM"
  BY DEF LaunchJob
<1>2. ~paused'
  BY DEF LaunchJob
<1>3. phase \notin {"AWAITING_LLM", "ENDED"} \/ paused
  OBVIOUS
<1>4. \A j \in jobs : j.stage \notin Unsettled
  BY <1>3, NoneUnsettled
<1>5. kind = "round" <=> pending # NoRound
  BY DEF RoundInv, PendingIsComplete
<1>6. TurnInv'
  BY <1>1 DEF TurnInv, SeatsKept, EmptyTableWaits, TurnIsPlayable, Joined
<1>7. EntryInv'
  <2>1. ActionsOfThisRound' /\ AcknowledgedIsCounted'
    BY DEF EntryInv, ActionsOfThisRound, AcknowledgedIsCounted
  <2>2. generation \in Nat /\ \A s \in submissions : s.epoch \in Nat /\ s.epoch <= generation
    BY DEF TypeOK, Submission, EntryInv, SubmissionsAreFresh
  <2>3. SubmissionsAreFresh'
    BY <1>1, <2>2 DEF SubmissionsAreFresh
  <2> QED
    BY <2>1, <2>3 DEF EntryInv
<1>8. phase # "ACTIVE_TURN" /\ phase # "ENDED"
  BY DEF JobInv, PausedIsRetryable
<1>9. RoundInv'
  BY <1>1, <1>8 DEF RoundInv, PendingIsComplete, PendingHasActions, PreparationIsEmpty, Joined
<1>10. JobInv'
  BY <1>4, <1>5, LaunchJobInv
<1>11. EndIsQuiet'
  BY <1>1 DEF EndIsQuiet
<1> QED
  BY <1>6, <1>7, <1>9, <1>10, <1>11 DEF CoreInv

LEMMA JoinInv ==
    ASSUME SessionInv, NEW p \in Players, Join(p)
    PROVE  CoreInv'
<1> USE DEF SessionInv, Join, round, work, requests, output
<1>1. joinOrder \in Seq(Players) /\ turnQueue \in Seq(Players)
  BY DEF TypeOK
<1>2. Joined' = Joined \cup {p} /\ Range(turnQueue') = Range(turnQueue) \cup {p}
  BY <1>1, RangeAppend DEF Joined
<1>3. /\ phase \in {"AWAITING_HOST", "AWAITING_PLAYERS"}
      /\ phase' \in {"SCENARIO_INJECTION", "AWAITING_PLAYERS"}
  OBVIOUS
<1>4. TurnInv'
  BY <1>2, <1>3 DEF TurnInv, SeatsKept, EmptyTableWaits, TurnIsPlayable
<1>5. EntryInv'
  BY <1>3 DEF EntryInv, ActionsOfThisRound, AcknowledgedIsCounted, SubmissionsAreFresh
<1>6. pending = NoRound
  BY <1>3 DEF RoundInv, PendingIsComplete
<1>7. RoundInv'
  BY <1>3, <1>6 DEF RoundInv, PendingIsComplete, PendingHasActions, PreparationIsEmpty
<1>8. JobInv'
  <2>1. \A j \in jobs : j.stage \notin Unsettled
    BY <1>3, NoneUnsettled
  <2>2. ~paused
    BY <1>3 DEF JobInv, PausedIsRetryable
  <2>3. GenerationsAreUnique' /\ UnsettledIsCurrent'
    BY <2>1 DEF JobInv, GenerationsAreUnique, UnsettledIsCurrent
  <2>4. KindMatchesPending' /\ DeliveryFollowsCommit'
    BY <1>3, <2>1 DEF KindMatchesPending, DeliveryFollowsCommit, Unsettled
  <2>5. PausedIsRetryable'
    BY <2>2 DEF PausedIsRetryable
  <2>6. SomeoneResolves'
    BY <1>3 DEF SomeoneResolves
  <2> QED
    BY <2>3, <2>4, <2>5, <2>6 DEF JobInv
<1>9. EndIsQuiet'
  BY <1>3 DEF EndIsQuiet
<1> QED
  BY <1>4, <1>5, <1>7, <1>8, <1>9 DEF CoreInv

LEMMA ReconnectInv ==
    ASSUME SessionInv, NEW p \in Players, Reconnect(p)
    PROVE  CoreInv'
<1> USE DEF SessionInv
<1>1. /\ p \in Joined /\ connected' = connected \cup {p}
      /\ joinOrder' = joinOrder /\ submissions' = Disown(submissions, p)
      /\ UNCHANGED <<roundCounter, accepted, pendingDelivery>>
  BY DEF Reconnect, output
<1>2. SubmissionsFrom
  BY <1>1, DisownKeepsRounds
<1>3. connected' \in SUBSET Joined
  BY <1>1 DEF TurnInv, SeatsKept
<1>4. CASE TurnStalled
  <2>1. phase = "ACTIVE_TURN" /\ ResumeTurns(turnQueue, buffer)
    BY <1>4 DEF Reconnect, TurnStalled
  <2>2. /\ turnQueue \in Seq(Players) /\ buffer \in [Players -> Entry]
        /\ accepted \in SUBSET (Players \X Nat)
    BY DEF TypeOK
  <2>3. Range(turnQueue) = Joined
    BY DEF TurnInv, SeatsKept
  <2> QED
    BY <1>1, <1>2, <1>3, <2>1, <2>2, <2>3, TurnChangeInv
<1>5. CASE ~TurnStalled
  <2>1. UNCHANGED <<phase, turn, paused, pending, work>>
    BY <1>5 DEF Reconnect
  <2>2. TurnInv'
    <3>1. SeatsKept'
      BY <1>1, <1>3, <2>1 DEF TurnInv, SeatsKept, Joined, turn
    <3>2. EmptyTableWaits'
      BY <1>1 DEF EmptyTableWaits
    <3>3. ASSUME phase = "ACTIVE_TURN"
          PROVE  connected # {}
      <4>1. active \in connected'
        BY <1>5, <3>3 DEF TurnStalled
      <4>2. active \in Players
        BY <1>3, <4>1, RangeOfSequence DEF Joined, TypeOK
      <4> QED
        BY <3>3, <4>2, NoOneAssumption DEF TurnInv, EmptyTableWaits
    <3>4. TurnIsPlayable'
      BY <1>1, <2>1, <3>3 DEF TurnInv, TurnIsPlayable, turn
    <3> QED
      BY <3>1, <3>2, <3>4 DEF TurnInv
  <2>3. EntryInv'
    BY <1>1, <1>2, <2>1, SameEntryInv DEF turn, work
  <2>4. RoundInv'
    BY <1>1, <2>1, SameRoundInv DEF turn
  <2>5. JobInv'
    BY <2>1, SameJobsInv DEF work
  <2>6. EndIsQuiet'
    BY <1>1, <2>1, SameEnd DEF turn
  <2> QED
    BY <2>2, <2>3, <2>4, <2>5, <2>6 DEF CoreInv
<1> QED
  BY <1>4, <1>5

LEMMA SubmitInv ==
    ASSUME SessionInv, NEW p \in Players, NEW n \in {roundCounter, roundCounter + 1} \ {0},
           Submit(p, n)
    PROVE  CoreInv'
<1> USE DEF SessionInv, Submit, party, turn, round, work, output
<1>1. TurnInv' /\ RoundInv' /\ JobInv' /\ EndIsQuiet'
  BY SameTurnInv, SameRoundInv, SameJobsInv, SameEnd
<1>2. ActionsOfThisRound' /\ AcknowledgedIsCounted'
  BY DEF EntryInv, ActionsOfThisRound, AcknowledgedIsCounted
<1>3. SubmissionsAreFresh'
  <2>1. ASSUME NEW s \in submissions' \ submissions
        PROVE  s.epoch = generation /\ s.round = roundCounter + 1 /\ phase = "ACTIVE_TURN"
    BY DEF OpenRound, ActionAllowed
  <2>2. generation \in Nat
    BY DEF TypeOK
  <2> QED
    BY <2>1, <2>2 DEF EntryInv, SubmissionsAreFresh
<1> QED
  BY <1>1, <1>2, <1>3 DEF CoreInv, EntryInv

LEMMA ClientStepInv ==
    ASSUME SessionInv, NEW p \in Players, ClientStep(p)
    PROVE  CoreInv'
<1>1. CASE Join(p)
  BY <1>1, JoinInv
<1>2. CASE Reconnect(p)
  BY <1>2, ReconnectInv
<1>3. ASSUME NEW how \in Losses, LoseSocket(p, how)
      PROVE  CoreInv'
  <2>1. submissions' = Disown(submissions, p)
    BY <1>3 DEF LoseSocket
  <2>2. SubmissionsFrom
    BY <2>1, DisownKeepsRounds DEF SessionInv
  <2> QED
    BY <1>3, <2>2, QuietInv DEF LoseSocket, output
<1>4. ASSUME NEW n \in {roundCounter, roundCounter + 1} \ {0}, Submit(p, n)
      PROVE  CoreInv'
  BY <1>4, SubmitInv
<1>5. CASE InitializeScenario(p)
  BY <1>5, LaunchStepInv DEF InitializeScenario, output, requests
<1>6. CASE StartGame(p)
  BY <1>6, LaunchStepInv DEF StartGame, output, requests
<1>7. CASE RequestRetry(p)
  BY <1>7, QuietInv DEF RequestRetry, party, output, SubmissionsFrom
<1>8. CASE RequestEnd(p)
  BY <1>8, QuietInv DEF RequestEnd, party, output, SubmissionsFrom
<1> QED
  BY <1>1, <1>2, <1>3, <1>4, <1>5, <1>6, <1>7, <1>8 DEF ClientStep

LEMMA DisconnectInv ==
    ASSUME SessionInv, NEW d \in leavers, Disconnect(d)
    PROVE  CoreInv'
<1> DEFINE p == d.client
<1> USE DEF SessionInv
<1>1. /\ connected' = connected \ {p} /\ joinOrder' = joinOrder
      /\ UNCHANGED <<roundCounter, accepted, pendingDelivery, submissions>>
  BY DEF Disconnect
<1>2. SubmissionsFrom
  BY <1>1 DEF SubmissionsFrom
<1>3. connected \subseteq Joined /\ connected' \in SUBSET Joined /\ Range(turnQueue) = Joined
  BY <1>1 DEF TurnInv, SeatsKept
<1>4. /\ turnQueue \in Seq(Players) /\ buffer \in [Players -> Entry] /\ p \in Players
      /\ accepted \in SUBSET (Players \X Nat)
  BY DEF TypeOK, Leaver
<1>5. CASE phase = "ACTIVE_TURN" /\ IdlesLeaver(p)
  <2> DEFINE queue == Rotate(turnQueue, 1)
             buf == [buffer EXCEPT ![p] = Idle]
  <2>1. ResumeTurns(queue, buf)
    BY <1>5 DEF Disconnect
  <2>2. queue \in Seq(Players)
    BY <1>4, RotateOnce
  <2>3. Range(queue) = Joined
    BY <1>3, <1>4, RotateOnce
  <2>4. buf \in [Players -> Entry]
    BY <1>4 DEF Entry, Idle
  <2>5. buffer[p] = Blank
    BY <1>1, <1>5 DEF IdlesLeaver, TurnInv, TurnIsPlayable
  <2>6. \A q \in Players : buf[q] # buffer[q] =>
            buffer[q] = Blank /\ buf[q] \in {Idle, roundCounter + 1}
    BY <1>4, <2>5
  <2> HIDE DEF queue, buf
  <2> QED
    BY <1>1, <1>2, <1>3, <1>4, <1>5, <2>1, <2>2, <2>3, <2>4, <2>6, TurnChangeInv
<1>6. CASE phase = "ACTIVE_TURN" /\ ~IdlesLeaver(p)
  <2>1. ResumeTurns(turnQueue, buffer)
    BY <1>6 DEF Disconnect
  <2> QED
    BY <1>1, <1>2, <1>3, <1>4, <1>6, <2>1, TurnChangeInv
<1>7. CASE phase # "ACTIVE_TURN"
  <2>1. UNCHANGED <<phase, turn, paused, pending, work>>
    BY <1>7 DEF Disconnect
  <2>2. TurnInv'
    BY <1>1, <1>3, <1>7, <2>1 DEF TurnInv, SeatsKept, EmptyTableWaits, TurnIsPlayable,
                                  Joined, turn
  <2>3. EntryInv'
    BY <1>1, <1>2, <2>1, SameEntryInv DEF turn, work
  <2>4. RoundInv'
    BY <1>1, <2>1, SameRoundInv DEF turn
  <2>5. JobInv'
    BY <2>1, SameJobsInv DEF work
  <2>6. EndIsQuiet'
    BY <1>1, <2>1, SameEnd DEF turn
  <2> QED
    BY <2>2, <2>3, <2>4, <2>5, <2>6 DEF CoreInv
<1> QED
  BY <1>5, <1>6, <1>7

LEMMA AcceptActionInv ==
    ASSUME SessionInv, NEW s \in submissions, AcceptAction(s)
    PROVE  CoreInv'
<1> DEFINE p == s.client
           queue == Rotate(turnQueue, 1)
           buf == [buffer EXCEPT ![p] = s.round]
<1> USE DEF SessionInv
<1>1. /\ phase = "ACTIVE_TURN" /\ p \in connected /\ p = active
      /\ accepted' = accepted \cup {<<p, roundCounter + 1>>}
      /\ submissions' = submissions \ {s}
      /\ UNCHANGED <<joinOrder, connected, roundCounter, pendingDelivery>>
      /\ ResumeTurns(queue, buf)
  BY DEF AcceptAction, ActionAllowed, party
<1>2. SubmissionsFrom
  BY <1>1 DEF SubmissionsFrom
<1>3. connected' \in SUBSET Joined /\ Range(turnQueue) = Joined
  BY <1>1 DEF TurnInv, SeatsKept
<1>4. /\ turnQueue \in Seq(Players) /\ buffer \in [Players -> Entry] /\ p \in Players
      /\ accepted \in SUBSET (Players \X Nat) /\ roundCounter \in Nat
  BY DEF TypeOK, Submission
<1>5. s.round = roundCounter + 1
  BY DEF AcceptAction, Fresh, EntryInv, SubmissionsAreFresh
<1>6. queue \in Seq(Players)
  BY <1>4, RotateOnce
<1>7. Range(queue) = Joined
  BY <1>3, <1>4, RotateOnce
<1>8. buf \in [Players -> Entry] /\ buf[p] = roundCounter + 1
  BY <1>4, <1>5 DEF Entry
<1>9. buffer[p] = Blank
  BY <1>1 DEF TurnInv, TurnIsPlayable
<1>10. \A q \in Players : buf[q] # buffer[q] =>
           buffer[q] = Blank /\ buf[q] \in {Idle, roundCounter + 1}
  BY <1>4, <1>5, <1>9
<1>11. accepted' \in SUBSET (Players \X Nat)
  BY <1>1, <1>4
<1>12. \A a \in accepted' :
           a \in accepted \/ (a[2] = roundCounter + 1 /\ buf[a[1]] = a[2])
  BY <1>1, <1>8
<1> HIDE DEF queue, buf
<1> QED
  BY <1>1, <1>2, <1>3, <1>6, <1>7, <1>8, <1>10, <1>11, <1>12, TurnChangeInv

LEMMA RestoreTurnInv ==
    ASSUME SessionInv, NEW p \in Players, RestoreTurn(p)
    PROVE  CoreInv'
<1> DEFINE next == NextTurn(turnQueue, connected, buffer)
<1>1. /\ UNCHANGED <<phase, party, round, work, effects, output, submissions>>
      /\ IF active = p /\ phase = "ACTIVE_TURN"
         THEN turnQueue' = next.queue /\ buffer' = next.buffer /\ active' = next.active
         ELSE UNCHANGED turn
  BY DEF RestoreTurn
<1>2. SubmissionsFrom
  BY <1>1 DEF SubmissionsFrom
<1> HIDE DEF next
<1>3. CASE active = p /\ phase = "ACTIVE_TURN"
  <2>1. turnQueue' = next.queue /\ buffer' = next.buffer /\ active' = next.active
    BY <1>1, <1>3
  <2>2. TurnInv' /\ EntryInv' /\ RoundInv'
    BY <1>1, <1>2, <1>3, <2>1, AdvanceInv DEF party, round, work, next
  <2>3. JobInv'
    BY <1>1, SameJobsInv DEF SessionInv, round, work
  <2>4. EndIsQuiet'
    BY <1>1, <1>3 DEF EndIsQuiet
  <2> QED
    BY <2>2, <2>3, <2>4 DEF CoreInv
<1>4. CASE ~(active = p /\ phase = "ACTIVE_TURN")
  BY <1>1, <1>2, <1>4, QuietInv DEF party, output
<1> QED
  BY <1>3, <1>4

LEMMA RequestStepInv ==
    ASSUME SessionInv, RequestStep
    PROVE  CoreInv'
<1>1. ASSUME NEW d \in leavers, Disconnect(d)
      PROVE  CoreInv'
  BY <1>1, DisconnectInv
<1>2. ASSUME NEW d \in leavers, IgnoreDisconnect(d)
      PROVE  CoreInv'
  BY <1>2, QuietInv DEF IgnoreDisconnect, party, output, SubmissionsFrom
<1>3. ASSUME NEW s \in submissions, AcceptAction(s)
      PROVE  CoreInv'
  BY <1>3, AcceptActionInv
<1>4. ASSUME NEW s \in submissions, RejectAction(s)
      PROVE  CoreInv'
  BY <1>4, QuietInv DEF RejectAction, party, output, SubmissionsFrom
<1>5. ASSUME NEW s \in submissions, AbandonAction(s)
      PROVE  CoreInv'
  BY <1>5, QuietInv DEF AbandonAction, party, output, SubmissionsFrom
<1>6. ASSUME NEW p \in Players, RestoreTurn(p)
      PROVE  CoreInv'
  BY <1>6, RestoreTurnInv
<1>7. ASSUME NEW r \in retries, RelaunchRound(r)
      PROVE  CoreInv'
  BY <1>7, LaunchStepInv DEF RelaunchRound, Relaunchable, output
<1>8. ASSUME NEW r \in retries, RefuseRetry(r)
      PROVE  CoreInv'
  BY <1>8, QuietInv DEF RefuseRetry, party, output, SubmissionsFrom
<1>9. ASSUME NEW g \in greetings, AnnounceReturn(g)
      PROVE  CoreInv'
  BY <1>9, QuietInv DEF AnnounceReturn, requests, SubmissionsFrom
<1> QED
  BY <1>1, <1>2, <1>3, <1>4, <1>5, <1>6, <1>7, <1>8, <1>9 DEF RequestStep

LEMMA EndSessionInv ==
    ASSUME SessionInv, EndSession
    PROVE  CoreInv'
<1> USE DEF SessionInv, EndSession, party, requests
<1>1. phase' = "ENDED" /\ generation' = generation + 1 /\ active' = NoOne
  OBVIOUS
<1>2. ~paused'
  OBVIOUS
<1>3. TurnInv'
  BY <1>1 DEF TurnInv, SeatsKept, EmptyTableWaits, TurnIsPlayable, Joined
<1>4. EntryInv'
  <2>1. ActionsOfThisRound' /\ AcknowledgedIsCounted'
    BY DEF EntryInv, ActionsOfThisRound, AcknowledgedIsCounted
  <2>2. generation \in Nat /\ \A s \in submissions : s.epoch \in Nat /\ s.epoch <= generation
    BY DEF TypeOK, Submission, EntryInv, SubmissionsAreFresh
  <2>3. SubmissionsAreFresh'
    BY <1>1, <2>2 DEF SubmissionsAreFresh
  <2> QED
    BY <2>1, <2>3 DEF EntryInv
<1>5. RoundInv'
  BY <1>1 DEF RoundInv, PendingIsComplete, PendingHasActions, PreparationIsEmpty, Joined
<1>6. JobInv'
  <2>1. generation \in Nat /\ \A j \in jobs : j.epoch \in Nat
    BY DEF TypeOK, Job
  <2>2. GenerationsAreUnique'
    BY <1>1, <2>1 DEF JobInv, GenerationsAreUnique
  <2>3. UnsettledIsCurrent' /\ KindMatchesPending' /\ DeliveryFollowsCommit'
    BY <1>1 DEF JobInv, UnsettledIsCurrent, KindMatchesPending, DeliveryFollowsCommit, Current
  <2>4. PausedIsRetryable'
    BY <1>2 DEF PausedIsRetryable
  <2>5. SomeoneResolves'
    BY <1>1 DEF SomeoneResolves
  <2> QED
    BY <2>2, <2>3, <2>4, <2>5 DEF JobInv
<1>7. EndIsQuiet'
  BY <1>1, <1>2 DEF EndIsQuiet
<1> QED
  BY <1>3, <1>4, <1>5, <1>6, <1>7 DEF CoreInv

LEMMA ShutdownStepInv ==
    ASSUME SessionInv, ShutdownStep
    PROVE  CoreInv'
<1> USE DEF party, SubmissionsFrom
<1>1. CASE StopServer
  BY <1>1, QuietInv DEF StopServer, output
<1>2. CASE BeginShutdown
  BY <1>2, QuietInv DEF BeginShutdown, output
<1>3. CASE DeliverBeforeEnd
  BY <1>3, QuietInv DEF DeliverBeforeEnd, DeliverHead, requests
<1>4. CASE EndSession
  BY <1>4, EndSessionInv
<1>5. CASE AnnounceEnd
  BY <1>5, QuietInv DEF AnnounceEnd, requests
<1> QED
  BY <1>1, <1>2, <1>3, <1>4, <1>5 DEF ShutdownStep

-----------------------------------------------------------------------------
(* Each step of a job keeps CoreInv *)

\* Stage replaces a job by one of the same epoch and kind.
LEMMA StageEffect ==
    ASSUME TypeOK, NEW j \in jobs, NEW stage, Stage(j, stage)
    PROVE  \E k : /\ jobs' = (jobs \ {j}) \cup {k}
                  /\ k.epoch = j.epoch /\ k.kind = j.kind /\ k.stage = stage
<1> DEFINE k == [j EXCEPT !.stage = stage]
<1>1. j \in Job
  BY DEF TypeOK
<1>2. k.epoch = j.epoch /\ k.kind = j.kind /\ k.stage = stage
  BY <1>1 DEF Job
<1>3. jobs' = (jobs \ {j}) \cup {k}
  BY DEF Stage
<1> QED
  BY <1>2, <1>3

\* A job moves to a stage that promises no less than the one it leaves.
LEMMA StageInv ==
    ASSUME SessionInv, NEW j \in jobs,
           NEW stage \in {"working", "archiving", "delivering", "failing", "recovering",
                          "finishing"},
           Stage(j, stage),
           UNCHANGED <<phase, joinOrder, connected, turn, round, generation, submissions>>,
           pendingDelivery' = pendingDelivery \/ pendingDelivery # <<>>,
           stage \in {"working", "archiving"} => j.stage \in Unsettled,
           stage = "archiving" => j.kind = "start",
           stage \in {"delivering", "recovering"} => phase # "AWAITING_LLM",
           stage = "failing" => j.stage \in Unsettled \cup {"delivering", "recovering"},
           stage = "finishing" =>
               ~(Current(j.epoch) /\ phase = "AWAITING_LLM"
                   /\ j.stage \in Unsettled \cup {"failing"})
    PROVE  CoreInv'
<1> USE DEF SessionInv
<1>1. PICK k : /\ jobs' = (jobs \ {j}) \cup {k}
               /\ k.epoch = j.epoch /\ k.kind = j.kind /\ k.stage = stage
  BY StageEffect
<1>2. stage # "finishing" /\ paused /\ Current(j.epoch) => j.stage = "finishing"
  BY DEF JobInv, PausedIsRetryable
<1>3. j.stage = "finishing" /\ paused /\ Current(j.epoch) => stage \in {"finishing"}
  BY DEF Unsettled, JobInv, PausedIsRetryable
<1>4. UNCHANGED <<phase, paused, pending, generation>>
  BY DEF round
<1>5. paused /\ Current(j.epoch) => k.stage = "finishing"
  BY <1>1, <1>2, <1>3
<1>6. k.stage \in Unsettled => j.stage \in Unsettled
  BY <1>1 DEF Unsettled
<1>7. Current(j.epoch) /\ phase = "AWAITING_LLM" /\ j.stage \in Unsettled \cup {"failing"} =>
          k.stage \in Unsettled \cup {"failing"}
  BY <1>1 DEF Unsettled
<1>8. JobInv'
  BY <1>1, <1>4, <1>5, <1>6, <1>7, JobMoveInv
<1> QED
  BY <1>8, QuietJobInv

LEMMA RetryAttemptInv ==
    ASSUME SessionInv, NEW j \in jobs, RetryAttempt(j)
    PROVE  CoreInv'
<1> DEFINE k == [j EXCEPT !.attempt = @ + 1]
<1> USE DEF SessionInv
<1>1. j \in Job
  BY DEF TypeOK
<1>2. k.epoch = j.epoch /\ k.kind = j.kind /\ k.stage = "working" /\ j.stage = "working"
  BY <1>1 DEF Job, RetryAttempt
<1>3. jobs' = (jobs \ {j}) \cup {k}
  BY DEF RetryAttempt
<1> HIDE DEF k
<1>4. UNCHANGED <<phase, party, turn, round, generation, output, requests>>
  BY DEF RetryAttempt
<1>5. ~(paused /\ Current(j.epoch))
  BY <1>2 DEF JobInv, PausedIsRetryable
<1>6. JobInv'
  BY <1>2, <1>3, <1>4, <1>5, JobMoveInv DEF round, Unsettled
<1> QED
  BY <1>4, <1>6, QuietJobInv DEF party, output, requests

LEMMA EndJobInv ==
    ASSUME SessionInv, NEW j \in jobs, EndJob(j)
    PROVE  CoreInv'
<1> USE DEF SessionInv
<1>1. /\ j.stage = "finishing" /\ jobs' = jobs \ {j}
      /\ UNCHANGED <<phase, party, turn, round, generation, output, requests>>
  BY DEF EndJob
<1>2. JobInv'
  BY <1>1 DEF JobInv, GenerationsAreUnique, UnsettledIsCurrent, KindMatchesPending,
              DeliveryFollowsCommit, PausedIsRetryable, SomeoneResolves, Current, round
<1> QED
  BY <1>1, <1>2, QuietJobInv DEF party, output, requests

LEMMA PlanDiceInv ==
    ASSUME SessionInv, NEW j \in jobs, NEW outcome \in DiceOutcomes, PlanDice(j, outcome)
    PROVE  CoreInv'
<1> USE DEF SessionInv
<1>1. /\ j.stage = "working" /\ j.kind = "round"
      /\ pending' = [pending EXCEPT !.dice = outcome]
      /\ UNCHANGED <<phase, joinOrder, connected, turn, buffer, active, paused,
                     roundCounter, accepted, generation, jobs, pendingDelivery,
                     submissions>>
  BY DEF PlanDice, party, turn, work, output, requests
<1>2. pending # NoRound
  BY <1>1 DEF JobInv, KindMatchesPending, Unsettled
<1>3. pending \in Round
  BY DEF TypeOK
<1>4. pending'.actions = pending.actions
  BY <1>1, <1>3 DEF Round
<1>5. pending' # NoRound
  BY <1>2, <1>4 DEF RoundInv, PendingHasActions, NoRound
<1>6. TurnInv' /\ EndIsQuiet'
  BY <1>1, SameTurnInv, SameEnd
<1>7. EntryInv'
  BY <1>1, SameEntryInv DEF SubmissionsFrom
<1>8. RoundInv'
  BY <1>1, <1>2, <1>4, <1>5 DEF RoundInv, PendingIsComplete, PendingHasActions,
                                 PreparationIsEmpty, Joined
<1>9. JobInv'
  <2>1. /\ GenerationsAreUnique' /\ UnsettledIsCurrent' /\ DeliveryFollowsCommit'
        /\ SomeoneResolves'
    BY <1>1 DEF JobInv, GenerationsAreUnique, UnsettledIsCurrent, DeliveryFollowsCommit,
                SomeoneResolves, Current
  <2>2. KindMatchesPending'
    BY <1>1, <1>2, <1>5 DEF JobInv, KindMatchesPending, Current
  <2>3. PausedIsRetryable'
    BY <1>1, <1>5 DEF JobInv, PausedIsRetryable, Current
  <2> QED
    BY <2>1, <2>2, <2>3 DEF JobInv
<1> QED
  BY <1>6, <1>7, <1>8, <1>9 DEF CoreInv

\* A job that can commit is the one the session waits for.
LEMMA CommitterIsCurrent ==
    ASSUME JobInv, NEW j \in jobs, j.stage \in Unsettled, Current(j.epoch)
    PROVE  phase = "AWAITING_LLM"
BY DEF JobInv, UnsettledIsCurrent, Current

LEMMA NotPausedThen ==
    ASSUME JobInv, NEW j \in jobs, j.stage \in Unsettled, Current(j.epoch)
    PROVE  ~paused
BY DEF JobInv, UnsettledIsCurrent, Current

\* While the session waits, nobody's second block can still be of its generation.
LEMMA NoneSubmitted ==
    ASSUME EntryInv, phase # "ACTIVE_TURN"
    PROVE  \A s \in submissions : s.epoch # generation
BY DEF EntryInv, SubmissionsAreFresh

LEMMA OpenLobbyInv ==
    ASSUME SessionInv, NEW j \in jobs, OpenLobby(j)
    PROVE  CoreInv'
<1> USE DEF SessionInv
<1>1. /\ j.stage = "working" /\ j.kind = "scenario" /\ Current(j.epoch)
      /\ phase' = "AWAITING_PLAYERS" /\ Stage(j, "delivering")
      /\ UNCHANGED <<party, turn, round, generation, output, requests>>
  BY DEF OpenLobby, Committing
<1>2. j.stage \in Unsettled
  BY <1>1 DEF Unsettled
<1>3. phase = "AWAITING_LLM"
  BY <1>1, <1>2, CommitterIsCurrent
<1>4. ~paused
  BY <1>1, <1>2, NotPausedThen
<1>5. pending = NoRound
  BY <1>1, <1>3 DEF JobInv, KindMatchesPending
<1>6. TurnInv'
  BY <1>1 DEF TurnInv, SeatsKept, EmptyTableWaits, TurnIsPlayable, Joined, party, turn
<1>7. EntryInv'
  <2>1. \A s \in submissions : s.epoch # generation
    BY <1>3, NoneSubmitted
  <2>2. SubmissionsAreFresh'
    BY <1>1, <2>1 DEF EntryInv, SubmissionsAreFresh, requests
  <2> QED
    BY <1>1, <2>2 DEF EntryInv, ActionsOfThisRound, AcknowledgedIsCounted, turn, round
<1>8. RoundInv'
  BY <1>1, <1>3, <1>5 DEF RoundInv, PendingIsComplete, PendingHasActions,
                          PreparationIsEmpty, turn, round
<1>9. ~paused'
  BY <1>1, <1>4 DEF round
<1>10. PICK k : /\ jobs' = (jobs \ {j}) \cup {k}
                /\ k.epoch = j.epoch /\ k.kind = j.kind /\ k.stage = "delivering"
  BY <1>1, StageEffect
<1>11. JobInv'
  BY <1>1, <1>2, <1>3, <1>9, <1>10, SettleInv
<1>12. EndIsQuiet'
  BY <1>1 DEF EndIsQuiet
<1> QED
  BY <1>6, <1>7, <1>8, <1>11, <1>12 DEF CoreInv

\* Starting a round from an empty buffer.
LEMMA FreshRoundInv ==
    ASSUME SessionInv, NEW queue \in Seq(Players), Range(queue) = Joined,
           UNCHANGED <<joinOrder, connected, generation, submissions>>,
           \A s \in submissions : s.epoch # generation,
           roundCounter' \in Nat, phase' = "ACTIVE_TURN", pending' = NoRound,
           accepted' \in SUBSET (Players \X Nat), \A a \in accepted' : a[2] <= roundCounter',
           NEW next, next = NextTurn(queue, connected, EmptyBuffer),
           turnQueue' = next.queue, buffer' = next.buffer, active' = next.active
    PROVE  TurnInv' /\ EntryInv' /\ RoundInv' /\ EndIsQuiet'
<1> USE DEF SessionInv
<1>1. EmptyBuffer \in [Players -> Entry]
  BY DEF EmptyBuffer, Entry
<1>2. joinOrder \in Seq(Players) /\ connected \subseteq Joined /\ connected \subseteq Players
  BY DEF TypeOK, TurnInv, SeatsKept
<1>3. connected # {} => \E p \in connected : EmptyBuffer[p] = Blank
  BY <1>2, EmptyBufferIsBlank
<1>4. TurnInv' /\ OnlyTurns(queue, connected, EmptyBuffer, next)
  BY <1>1, <1>2, <1>3, AdvanceTurnInv
<1>5. \A p \in Players : buffer'[p] \in {Blank, Idle}
  BY <1>4, EmptyBufferIsBlank DEF OnlyTurns
<1>6. ActionsOfThisRound'
  BY <1>5 DEF ActionsOfThisRound
<1>7. AcknowledgedIsCounted'
  <2>1. \A a \in accepted' : a[2] \in Nat
    OBVIOUS
  <2> QED
    BY <2>1 DEF AcknowledgedIsCounted
<1>8. SubmissionsAreFresh'
  BY DEF EntryInv, SubmissionsAreFresh
<1>9. RoundInv'
  BY DEF RoundInv, PendingIsComplete, PendingHasActions, PreparationIsEmpty
<1>10. EndIsQuiet'
  BY DEF EndIsQuiet
<1> QED
  BY <1>4, <1>6, <1>7, <1>8, <1>9, <1>10 DEF EntryInv

LEMMA CommitStartInv ==
    ASSUME SessionInv, NEW j \in jobs, CommitStart(j)
    PROVE  CoreInv'
<1> DEFINE next == NextTurn(turnQueue, connected, buffer)
<1> USE DEF SessionInv
<1>1. /\ j.stage = "archiving" /\ Current(j.epoch) /\ phase' = "ACTIVE_TURN"
      /\ turnQueue' = next.queue /\ buffer' = next.buffer /\ active' = next.active
      /\ Stage(j, "delivering")
      /\ UNCHANGED <<joinOrder, connected, round, generation, requests>>
  BY DEF CommitStart
<1>2. j.stage \in Unsettled
  BY <1>1 DEF Unsettled
<1>3. phase = "AWAITING_LLM"
  BY <1>1, <1>2, CommitterIsCurrent
<1>4. ~paused
  BY <1>1, <1>2, NotPausedThen
<1>5. j.kind = "start"
  BY <1>1 DEF JobInv, KindMatchesPending
<1>6. pending = NoRound
  BY <1>1, <1>3, <1>5 DEF JobInv, KindMatchesPending
<1>7. buffer = EmptyBuffer
  BY <1>3, <1>6 DEF RoundInv, PreparationIsEmpty
<1>8. next = NextTurn(turnQueue, connected, EmptyBuffer)
  BY <1>7
<1>9. \A s \in submissions : s.epoch # generation
  BY <1>3, NoneSubmitted
<1>10. turnQueue \in Seq(Players) /\ Range(turnQueue) = Joined
  BY DEF TypeOK, TurnInv, SeatsKept
<1>11. \A a \in accepted' : a[2] <= roundCounter'
  <2>1. ASSUME NEW a \in accepted
        PROVE  a[2] <= roundCounter
    <3>1. a[1] \in Players /\ a[2] \in Nat /\ roundCounter \in Nat
      BY DEF TypeOK
    <3>2. /\ a[2] <= roundCounter + 1
          /\ a[2] = roundCounter + 1 => buffer[a[1]] = a[2]
      BY DEF EntryInv, AcknowledgedIsCounted
    <3>3. buffer[a[1]] = Blank
      BY <1>7, <3>1, EmptyBufferIsBlank
    <3> QED
      BY <3>1, <3>2, <3>3 DEF Blank
  <2> QED
    BY <1>1, <2>1 DEF round
<1>12. /\ roundCounter' \in Nat /\ accepted' \in SUBSET (Players \X Nat)
       /\ pending' = NoRound /\ submissions' = submissions
  BY <1>1, <1>6 DEF TypeOK, round, requests
<1>13. ~paused'
  BY <1>1, <1>4 DEF round
<1> HIDE DEF next
<1>14. TurnInv' /\ EntryInv' /\ RoundInv' /\ EndIsQuiet'
  BY <1>1, <1>8, <1>9, <1>10, <1>11, <1>12, FreshRoundInv
<1>15. PICK k : /\ jobs' = (jobs \ {j}) \cup {k}
                /\ k.epoch = j.epoch /\ k.kind = j.kind /\ k.stage = "delivering"
  BY <1>1, StageEffect
<1>16. JobInv'
  BY <1>1, <1>2, <1>3, <1>13, <1>15, SettleInv
<1> QED
  BY <1>14, <1>16 DEF CoreInv

LEMMA CommitRoundInv ==
    ASSUME SessionInv, NEW j \in jobs, CommitRound(j)
    PROVE  CoreInv'
<1> DEFINE next == NewRound
<1> USE DEF SessionInv
<1>1. /\ j.stage = "working" /\ Current(j.epoch) /\ phase' = "ACTIVE_TURN"
      /\ roundCounter' = roundCounter + 1 /\ pending' = NoRound
      /\ accepted' \subseteq accepted
      /\ turnQueue' = next.queue /\ buffer' = next.buffer /\ active' = next.active
      /\ Stage(j, "delivering")
      /\ UNCHANGED <<joinOrder, connected, generation, requests>>
  BY DEF CommitRound, Committing
<1>2. j.stage \in Unsettled
  BY <1>1 DEF Unsettled
<1>3. phase = "AWAITING_LLM"
  BY <1>1, <1>2, CommitterIsCurrent
<1>4. ~paused
  BY <1>1, <1>2, NotPausedThen
<1>5. paused' = paused
  BY DEF CommitRound
<1>6. ~paused'
  BY <1>4, <1>5
<1>7. next = NextTurn(joinOrder, connected, EmptyBuffer)
  BY DEF NewRound
<1>8. \A s \in submissions : s.epoch # generation
  BY <1>3, NoneSubmitted
<1>9. joinOrder \in Seq(Players) /\ Range(joinOrder) = Joined
  BY DEF TypeOK, Joined
<1>10. roundCounter \in Nat /\ accepted \in SUBSET (Players \X Nat)
  BY DEF TypeOK
<1>11. \A a \in accepted' : a[2] <= roundCounter'
  BY <1>1 DEF EntryInv, AcknowledgedIsCounted
<1>12. submissions' = submissions
  BY <1>1 DEF requests
<1> HIDE DEF next
<1>13. TurnInv' /\ EntryInv' /\ RoundInv' /\ EndIsQuiet'
  BY <1>1, <1>7, <1>8, <1>9, <1>10, <1>11, <1>12, FreshRoundInv
<1>14. PICK k : /\ jobs' = (jobs \ {j}) \cup {k}
                /\ k.epoch = j.epoch /\ k.kind = j.kind /\ k.stage = "delivering"
  BY <1>1, StageEffect
<1>15. JobInv'
  BY <1>1, <1>2, <1>3, <1>6, <1>14, SettleInv
<1> QED
  BY <1>13, <1>15 DEF CoreInv

LEMMA RollbackInv ==
    ASSUME SessionInv, NEW j \in jobs, Rollback(j)
    PROVE  CoreInv'
<1> USE DEF SessionInv
<1>1. /\ j.stage = "failing" /\ Current(j.epoch) /\ phase = "AWAITING_LLM"
      /\ Stage(j, "finishing")
      /\ phase' = CASE j.kind = "scenario" -> "SCENARIO_INJECTION"
                     [] j.kind = "start"    -> "AWAITING_PLAYERS"
                     [] j.kind = "round"    -> "AWAITING_LLM"
      /\ UNCHANGED <<party, turn, pending, roundCounter, accepted, generation, output,
                     requests>>
  BY DEF Rollback
<1>2. paused' = (j.kind = "round")
  BY DEF Rollback, Pauses
<1>3. j.kind \in {"scenario", "start", "round"}
  BY DEF TypeOK, Job
<1>4. j.kind = "round" <=> pending # NoRound
  BY <1>1 DEF JobInv, KindMatchesPending
<1>5. /\ phase' \in {"SCENARIO_INJECTION", "AWAITING_PLAYERS", "AWAITING_LLM"}
      /\ phase' = "AWAITING_LLM" <=> j.kind = "round"
  BY <1>1, <1>3
<1>6. TurnInv'
  BY <1>1, <1>5 DEF TurnInv, SeatsKept, EmptyTableWaits, TurnIsPlayable, Joined, party, turn
<1>7. EntryInv'
  <2>1. \A s \in submissions : s.epoch # generation
    BY <1>1, NoneSubmitted
  <2>2. SubmissionsAreFresh'
    BY <1>1, <2>1 DEF EntryInv, SubmissionsAreFresh, requests
  <2> QED
    BY <1>1, <2>2 DEF EntryInv, ActionsOfThisRound, AcknowledgedIsCounted, turn
<1>8. RoundInv'
  BY <1>1, <1>4, <1>5 DEF RoundInv, PendingIsComplete, PendingHasActions,
                          PreparationIsEmpty, Joined, party, turn
<1>9. PICK k : /\ jobs' = (jobs \ {j}) \cup {k}
               /\ k.epoch = j.epoch /\ k.kind = j.kind /\ k.stage = "finishing"
  BY <1>1, StageEffect
<1>10. \/ phase' \notin {"AWAITING_LLM", "ENDED"} /\ ~paused'
       \/ phase' = "AWAITING_LLM" /\ paused' /\ j.kind = "round"
  BY <1>2, <1>5
<1>11. JobInv'
  BY <1>1, <1>9, <1>10, SettleInv
<1>12. EndIsQuiet'
  BY <1>5 DEF EndIsQuiet
<1> QED
  BY <1>6, <1>7, <1>8, <1>11, <1>12 DEF CoreInv

LEMMA RecoverInv ==
    ASSUME SessionInv, NEW j \in jobs, Recover(j)
    PROVE  CoreInv'
<1> DEFINE next == NextTurn(turnQueue, connected, buffer)
<1> USE DEF SessionInv
<1>1. /\ j.stage = "failing" /\ Current(j.epoch) /\ phase # "AWAITING_LLM"
      /\ Stage(j, "recovering")
      /\ UNCHANGED <<phase, party, round, generation, pendingDelivery, requests>>
  BY DEF Recover
<1> HIDE DEF next
<1>2. CASE phase = "ACTIVE_TURN"
  <2>1. turnQueue' = next.queue /\ buffer' = next.buffer /\ active' = next.active
    BY <1>2 DEF Recover, next
  <2>2. TurnInv' /\ EntryInv' /\ RoundInv'
    BY <1>1, <1>2, <2>1, AdvanceInv DEF party, round, requests, next, SubmissionsFrom
  <2>3. ~(paused /\ Current(j.epoch))
    BY <1>2 DEF JobInv, PausedIsRetryable
  <2>4. PICK k : /\ jobs' = (jobs \ {j}) \cup {k}
                 /\ k.epoch = j.epoch /\ k.kind = j.kind /\ k.stage = "recovering"
    BY <1>1, StageEffect
  <2>5. JobInv'
    BY <1>1, <1>2, <2>3, <2>4, JobMoveInv DEF round, Unsettled
  <2>6. EndIsQuiet'
    BY <1>1, <1>2 DEF EndIsQuiet
  <2> QED
    BY <2>2, <2>5, <2>6 DEF CoreInv
<1>3. CASE phase # "ACTIVE_TURN"
  <2>1. UNCHANGED turn
    BY <1>3 DEF Recover, turn
  <2> QED
    BY <1>1, <2>1, StageInv DEF party, requests
<1> QED
  BY <1>2, <1>3

LEMMA JobStepInv ==
    ASSUME SessionInv, NEW j \in jobs, JobStep(j)
    PROVE  CoreInv'
<1> USE DEF party, output, requests, Unsettled
<1>1. CASE OpenJob(j)
  <2>1. CASE Current(j.epoch)
    BY <1>1, <2>1, StageInv DEF OpenJob
  <2>2. CASE ~Current(j.epoch)
    BY <1>1, <2>2, StageInv DEF OpenJob
  <2> QED
    BY <2>1, <2>2
<1>2. CASE RetryAttempt(j)
  BY <1>2, RetryAttemptInv
<1>3. CASE FailWork(j)
  BY <1>3, StageInv DEF FailWork
<1>4. CASE CancelJob(j)
  BY <1>4, StageInv DEF CancelJob
<1>5. ASSUME NEW outcome \in DiceOutcomes, PlanDice(j, outcome)
      PROVE  CoreInv'
  BY <1>5, PlanDiceInv
<1>6. CASE DropResult(j)
  BY <1>6, StageInv DEF DropResult
<1>7. CASE OpenLobby(j)
  BY <1>7, OpenLobbyInv
<1>8. CASE BeginArchive(j)
  BY <1>8, StageInv DEF BeginArchive, Committing
<1>9. CASE CommitStart(j)
  BY <1>9, CommitStartInv
<1>10. CASE FailArchive(j)
  BY <1>10, StageInv DEF FailArchive
<1>11. CASE CommitRound(j)
  BY <1>11, CommitRoundInv
<1>12. CASE Deliver(j)
  <2>1. UNCHANGED <<phase, party, turn, round, work, requests>> /\ pendingDelivery # <<>>
    BY <1>12 DEF Deliver, DeliverHead
  <2> QED
    BY <2>1, QuietInv DEF SubmissionsFrom
<1>13. CASE FinishDelivery(j)
  BY <1>13, StageInv DEF FinishDelivery, Delivers
<1>14. CASE MissDeadline(j)
  BY <1>14, StageInv DEF MissDeadline
<1>15. CASE Rollback(j)
  BY <1>15, RollbackInv
<1>16. CASE Recover(j)
  BY <1>16, RecoverInv
<1>17. CASE AbandonFailure(j)
  BY <1>17, StageInv DEF AbandonFailure
<1>18. CASE EndJob(j)
  BY <1>18, EndJobInv
<1> QED
  BY <1>1, <1>2, <1>3, <1>4, <1>5, <1>6, <1>7, <1>8, <1>9, <1>10, <1>11, <1>12, <1>13,
     <1>14, <1>15, <1>16, <1>17, <1>18 DEF JobStep

-----------------------------------------------------------------------------
(* SessionInv is inductive *)

LEMMA InitInv == Init => CoreInv
<1> SUFFICES ASSUME Init PROVE CoreInv
  OBVIOUS
<1>1. Joined = {} /\ Range(turnQueue) = {}
  BY DEF Init, Joined, Range
<1>2. TurnInv
  BY <1>1 DEF Init, TurnInv, SeatsKept, EmptyTableWaits, TurnIsPlayable
<1>3. EntryInv
  BY EmptyBufferIsBlank DEF Init, EntryInv, ActionsOfThisRound, AcknowledgedIsCounted,
                            SubmissionsAreFresh
<1>4. RoundInv
  BY DEF Init, RoundInv, PendingIsComplete, PendingHasActions, PreparationIsEmpty
<1>5. ~paused
  BY DEF Init
<1>6. JobInv
  BY <1>5 DEF Init, JobInv, GenerationsAreUnique, UnsettledIsCurrent, KindMatchesPending,
              DeliveryFollowsCommit, PausedIsRetryable, SomeoneResolves
<1>7. EndIsQuiet
  BY DEF Init, EndIsQuiet
<1> QED
  BY <1>2, <1>3, <1>4, <1>6, <1>7 DEF CoreInv

LEMMA StutterInv == SessionInv /\ UNCHANGED vars => CoreInv'
BY QuietInv DEF vars, party, output, requests, SubmissionsFrom

LEMMA NextInv == SessionInv /\ [Next]_vars => SessionInv'
<1> SUFFICES ASSUME SessionInv, [Next]_vars PROVE SessionInv'
  OBVIOUS
<1>1. TypeOK'
  BY NextType DEF SessionInv
<1>2. ASSUME Next PROVE CoreInv'
  BY <1>2, ClientStepInv, RequestStepInv, JobStepInv, ShutdownStepInv DEF Next
<1>3. ASSUME UNCHANGED vars PROVE CoreInv'
  BY <1>3, StutterInv
<1> QED
  BY <1>1, <1>2, <1>3 DEF SessionInv, CoreInv

\* Every reachable session satisfies the inductive invariant, for every party, every
\* number of attempts, rounds, losses and retries: the handlers of engine.py and lobby.py
\* keep what they rely on.
THEOREM SessionCorrect == Spec => []SessionInv
<1>1. Init => SessionInv
  BY InitInv, InitType DEF SessionInv, CoreInv
<1> QED
  BY <1>1, NextInv, PTL DEF Spec
=============================================================================
