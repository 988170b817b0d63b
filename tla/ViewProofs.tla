----------------------------- MODULE ViewProofs -----------------------------
(***************************************************************************)
(* What the page shows is what the game is: whatever a lost socket, a full *)
(* queue, a catch-up or a timer does in between, once everything has       *)
(* arrived the view tells the state of the game (static/js/app.js against  *)
(* logic/engine.py).                                                       *)
(*                                                                         *)
(* The argument is about the messages on their way.  What the page shows   *)
(* now may be old; what it will show, once it has handled them, may not.   *)
(***************************************************************************)
EXTENDS ReplayProofs

-----------------------------------------------------------------------------
(* What a view claims, and which messages make it claim so *)

Claims == {"thinking", "idle", "paused", "unpaused", "ended", "unended"}

Sets == [thinking |-> {"thinking_on"},
         idle     |-> {"thinking_off", "paused", "game_ended"},
         paused   |-> {"paused"},
         unpaused |-> {"thinking_on", "game_ended"},
         ended    |-> {"game_ended"},
         unended  |-> {}]

Clears == [thinking |-> {"thinking_off", "opening", "outcome", "paused", "game_ended"},
           idle     |-> {"thinking_on"},
           paused   |-> {"thinking_on", "game_ended"},
           unpaused |-> {"paused"},
           ended    |-> {},
           unended  |-> {"game_ended"}]

Shows(v) ==
    {n \in Claims :
        \/ n = "thinking" /\ v.thinking
        \/ n = "idle" /\ ~v.thinking
        \/ n = "paused" /\ v.retry
        \/ n = "unpaused" /\ ~v.retry
        \/ n = "ended" /\ v.ended
        \/ n = "unended" /\ ~v.ended}

\* A view shows n once the messages p are handled.
WillBe(n, v, p) ==
    \/ n \in Shows(v) /\ \A i \in DOMAIN p : p[i].type \notin Clears[n]
    \/ \E i \in DOMAIN p :
          /\ p[i].type \in Sets[n]
          /\ \A j \in DOMAIN p : j > i => p[j].type \notin Clears[n]

\* Message i will not be dropped for its id: neither the cursor nor what comes before
\* has passed it.
IsNews(c, p, i) ==
    /\ p[i].id > c
    /\ \A j \in DOMAIN p : j < i /\ p[j].type \in GameEvents => p[j].id < p[i].id

OpensLater(c, p) == \E i \in DOMAIN p : p[i].type = "opening" /\ IsNews(c, p, i)
EndIsNews(c, p)  == \A i \in DOMAIN p : p[i].type = "game_ended" => IsNews(c, p, i)

\* A page with view v and cursor c, and the messages p before it, will show all of due.
Tells(due, v, c, p) ==
    /\ \A n \in Claims : n \in due => WillBe(n, v, p)
    /\ "opened" \in due => v.opening \/ OpensLater(c, p)
    /\ EndIsNews(c, p)

-----------------------------------------------------------------------------
(* One message more, and one less *)

More(p, q, m) ==
    \E n \in Nat :
       /\ DOMAIN p = 1..n /\ DOMAIN q = 1..(n + 1)
       /\ q[n + 1] = m /\ \A i \in 1..n : q[i] = p[i]

Less(p, q, k) ==
    \E n \in Nat \ {0} :
       /\ DOMAIN p = 1..n /\ DOMAIN q = 1..(n - 1) /\ k \in 1..n
       /\ \A i \in 1..(n - 1) : q[i] = IF i < k THEN p[i] ELSE p[i + 1]

\* Where the messages of the one are in the other, in the same order.
LEMMA MorePlaces ==
    ASSUME NEW p, NEW q, NEW m, More(p, q, m)
    PROVE  \E l \in DOMAIN q :
              /\ q[l] = m /\ DOMAIN q \subseteq Int
              /\ \A i \in DOMAIN p : i \in DOMAIN q /\ q[i] = p[i] /\ i < l
              /\ \A j \in DOMAIN q : j = l \/ j \in DOMAIN p
<1>1. PICK n \in Nat :
         /\ DOMAIN p = 1..n /\ DOMAIN q = 1..(n + 1)
         /\ q[n + 1] = m /\ \A i \in 1..n : q[i] = p[i]
  BY DEF More
<1>2. n + 1 \in DOMAIN q /\ DOMAIN q \subseteq Int
  BY <1>1
<1>3. \A i \in DOMAIN p : i \in DOMAIN q /\ q[i] = p[i] /\ i < n + 1
  BY <1>1
<1>4. \A j \in DOMAIN q : j = n + 1 \/ j \in DOMAIN p
  BY <1>1
<1> QED
  BY <1>1, <1>2, <1>3, <1>4

LEMMA LessPlaces ==
    ASSUME NEW p, NEW q, NEW k, Less(p, q, k)
    PROVE  /\ k \in DOMAIN p /\ DOMAIN p \subseteq Int /\ DOMAIN q \subseteq Int
           /\ \A i \in DOMAIN p : i # k =>
                 \E j \in DOMAIN q : q[j] = p[i] /\ j = (IF i < k THEN i ELSE i - 1)
           /\ \A j \in DOMAIN q :
                 \E i \in DOMAIN p : i # k /\ q[j] = p[i] /\ i = (IF j < k THEN j ELSE j + 1)
<1>1. PICK n \in Nat \ {0} :
         /\ DOMAIN p = 1..n /\ DOMAIN q = 1..(n - 1) /\ k \in 1..n
         /\ \A i \in 1..(n - 1) : q[i] = IF i < k THEN p[i] ELSE p[i + 1]
  BY DEF Less
<1>2. ASSUME NEW i \in DOMAIN p, i # k
      PROVE  \E j \in DOMAIN q : q[j] = p[i] /\ j = (IF i < k THEN i ELSE i - 1)
  <2>1. CASE i < k
    <3>1. i \in DOMAIN q /\ q[i] = p[i]
      BY <1>1, <1>2, <2>1
    <3> QED
      BY <2>1, <3>1
  <2>2. CASE ~(i < k)
    <3>1. i \in Int /\ k \in Int /\ i - 1 \in 1..(n - 1) /\ ~(i - 1 < k) /\ (i - 1) + 1 = i
      BY <1>1, <1>2, <2>2
    <3>2. i - 1 \in DOMAIN q /\ q[i - 1] = p[i]
      BY <1>1, <3>1
    <3> QED
      BY <2>2, <3>2
  <2> QED
    BY <2>1, <2>2
<1>3. ASSUME NEW j \in DOMAIN q
      PROVE  \E i \in DOMAIN p : i # k /\ q[j] = p[i] /\ i = (IF j < k THEN j ELSE j + 1)
  <2>1. CASE j < k
    <3>1. j \in DOMAIN p /\ q[j] = p[j] /\ j # k
      BY <1>1, <1>3, <2>1
    <3> QED
      BY <2>1, <3>1
  <2>2. CASE ~(j < k)
    <3>1. j + 1 \in DOMAIN p /\ q[j] = p[j + 1] /\ j + 1 # k
      BY <1>1, <1>3, <2>2
    <3> QED
      BY <2>2, <3>1
  <2> QED
    BY <2>1, <2>2
<1> QED
  BY <1>1, <1>2, <1>3

-----------------------------------------------------------------------------
(* What a claim survives *)

\* The server says m behind p: m makes the claim, or the claim was due and m leaves it.
LEMMA ClaimSaid ==
    ASSUME NEW n, NEW v, NEW p, NEW q, NEW m, More(p, q, m),
           m.type \in Sets[n] \/ (WillBe(n, v, p) /\ m.type \notin Clears[n])
    PROVE  WillBe(n, v, q)
<1>1. PICK l \in DOMAIN q :
         /\ q[l] = m /\ DOMAIN q \subseteq Int
         /\ \A i \in DOMAIN p : i \in DOMAIN q /\ q[i] = p[i] /\ i < l
         /\ \A j \in DOMAIN q : j = l \/ j \in DOMAIN p
  BY MorePlaces
<1>2. CASE m.type \in Sets[n]
  <2>1. \A j \in DOMAIN q : ~(j > l)
    BY <1>1
  <2> QED
    BY <1>1, <1>2, <2>1 DEF WillBe
<1>3. CASE WillBe(n, v, p) /\ m.type \notin Clears[n]
  BY <1>1, <1>3 DEF WillBe
<1> QED
  BY <1>2, <1>3

\* A claim made by a message that stays is still made when another one goes.
LEMMA ClaimLater ==
    ASSUME NEW n, NEW w, NEW p, NEW q, NEW k, Less(p, q, k),
           NEW i \in DOMAIN p, i # k, p[i].type \in Sets[n],
           \A j \in DOMAIN p : j > i => p[j].type \notin Clears[n]
    PROVE  WillBe(n, w, q)
<1>1. /\ k \in DOMAIN p /\ DOMAIN p \subseteq Int /\ DOMAIN q \subseteq Int
      /\ \A f \in DOMAIN p : f # k =>
            \E j \in DOMAIN q : q[j] = p[f] /\ j = (IF f < k THEN f ELSE f - 1)
      /\ \A j \in DOMAIN q :
            \E f \in DOMAIN p : f # k /\ q[j] = p[f] /\ f = (IF j < k THEN j ELSE j + 1)
  BY LessPlaces
<1>2. PICK h \in DOMAIN q : q[h] = p[i] /\ h = (IF i < k THEN i ELSE i - 1)
  BY <1>1
<1>3. ASSUME NEW j \in DOMAIN q, j > h
      PROVE  q[j].type \notin Clears[n]
  <2>1. PICK f \in DOMAIN p : f # k /\ q[j] = p[f] /\ f = (IF j < k THEN j ELSE j + 1)
    BY <1>1
  <2>2. f > i
    <3>1. i \in Int /\ j \in Int /\ k \in Int
      BY <1>1
    <3> QED
      BY <1>2, <1>3, <2>1, <3>1
  <2> QED
    BY <2>1, <2>2
<1> QED
  BY <1>2, <1>3 DEF WillBe

\* A message that does not make the claim is dropped.
LEMMA ClaimDropped ==
    ASSUME NEW n, NEW v, NEW p, NEW q, NEW k, Less(p, q, k), WillBe(n, v, p),
           p[k].type \notin Sets[n]
    PROVE  WillBe(n, v, q)
<1>1. \A j \in DOMAIN q : \E i \in DOMAIN p : q[j] = p[i]
  BY LessPlaces
<1>2. CASE n \in Shows(v) /\ \A i \in DOMAIN p : p[i].type \notin Clears[n]
  BY <1>1, <1>2 DEF WillBe
<1>3. ASSUME NEW i \in DOMAIN p, p[i].type \in Sets[n],
             \A j \in DOMAIN p : j > i => p[j].type \notin Clears[n]
      PROVE  WillBe(n, v, q)
  BY <1>3, ClaimLater
<1> QED
  BY <1>2, <1>3 DEF WillBe

\* The first message is handled: it makes the claim where it should, and leaves it where
\* it does not clear it.
LEMMA ClaimHandled ==
    ASSUME NEW n, NEW v, NEW w, NEW p, NEW q, Less(p, q, 1), WillBe(n, v, p),
           p[1].type \in Sets[n] => n \in Shows(w),
           n \in Shows(v) /\ p[1].type \notin Clears[n] => n \in Shows(w)
    PROVE  WillBe(n, w, q)
<1>1. /\ 1 \in DOMAIN p /\ \A i \in DOMAIN p : i # 1 => i > 1
      /\ \A j \in DOMAIN q : \E i \in DOMAIN p : i # 1 /\ q[j] = p[i]
  <2>1. \A i \in DOMAIN p : i # 1 => i > 1
    BY DEF Less
  <2> QED
    BY <2>1, LessPlaces
<1>2. CASE n \in Shows(v) /\ \A i \in DOMAIN p : p[i].type \notin Clears[n]
  <2>1. \A j \in DOMAIN q : q[j].type \notin Clears[n]
    BY <1>1, <1>2
  <2>2. n \in Shows(w)
    BY <1>1, <1>2
  <2> QED
    BY <2>1, <2>2 DEF WillBe
<1>3. ASSUME p[1].type \in Sets[n], \A j \in DOMAIN p : j > 1 => p[j].type \notin Clears[n]
      PROVE  WillBe(n, w, q)
  <2>1. \A j \in DOMAIN q : q[j].type \notin Clears[n]
    BY <1>1, <1>3
  <2> QED
    BY <1>3, <2>1 DEF WillBe
<1>4. ASSUME NEW i \in DOMAIN p, i # 1, p[i].type \in Sets[n],
             \A j \in DOMAIN p : j > i => p[j].type \notin Clears[n]
      PROVE  WillBe(n, w, q)
  BY <1>4, ClaimLater
<1>5. ASSUME NEW i \in DOMAIN p, p[i].type \in Sets[n],
             \A j \in DOMAIN p : j > i => p[j].type \notin Clears[n]
      PROVE  WillBe(n, w, q)
  BY <1>3, <1>4, <1>5
<1> QED
  BY <1>2, <1>5 DEF WillBe

-----------------------------------------------------------------------------
(* What the news survives *)

\* What has an id is numbered.
Numbered(p) == \A i \in DOMAIN p : p[i].type \in GameEvents => p[i].id \in Nat

\* m comes behind p with an id that nothing has passed.
IsNewest(c, p, m) ==
    m.id > c /\ \A j \in DOMAIN p : p[j].type \in GameEvents => p[j].id < m.id

\* The cursor may as well be behind.
LEMMA NewsForLess ==
    ASSUME NEW p, Numbered(p), NEW c \in Nat, NEW d \in Nat, d <= c,
           NEW i \in DOMAIN p, p[i].type \in GameEvents, IsNews(c, p, i)
    PROVE  IsNews(d, p, i)
BY DEF IsNews, Numbered

LEMMA NewsSaid ==
    ASSUME NEW c, NEW p, NEW q, NEW m, More(p, q, m)
    PROVE  /\ \A i \in DOMAIN p : i \in DOMAIN q /\ q[i] = p[i] /\ (IsNews(c, p, i) => IsNews(c, q, i))
           /\ \A j \in DOMAIN q : j \in DOMAIN p \/ (q[j] = m /\ (IsNewest(c, p, m) => IsNews(c, q, j)))
           /\ IsNewest(c, p, m) => \E j \in DOMAIN q : q[j] = m /\ IsNews(c, q, j)
<1>1. PICK l \in DOMAIN q :
         /\ q[l] = m /\ DOMAIN q \subseteq Int
         /\ \A i \in DOMAIN p : i \in DOMAIN q /\ q[i] = p[i] /\ i < l
         /\ \A j \in DOMAIN q : j = l \/ j \in DOMAIN p
  BY MorePlaces
<1>2. ASSUME NEW i \in DOMAIN p, IsNews(c, p, i)
      PROVE  IsNews(c, q, i)
  <2>1. \A j \in DOMAIN q : j < i => j \in DOMAIN p
    BY <1>1
  <2> QED
    BY <1>1, <1>2, <2>1 DEF IsNews
<1>3. ASSUME IsNewest(c, p, m)
      PROVE  IsNews(c, q, l)
  <2>1. \A j \in DOMAIN q : j < l => j \in DOMAIN p
    BY <1>1
  <2> QED
    BY <1>1, <1>3, <2>1 DEF IsNews, IsNewest
<1>4. ASSUME NEW j \in DOMAIN q, j \notin DOMAIN p
      PROVE  q[j] = m /\ (IsNewest(c, p, m) => IsNews(c, q, j))
  <2>1. j = l
    BY <1>1, <1>4
  <2> QED
    BY <1>1, <1>3, <2>1
<1>5. \A i \in DOMAIN p : i \in DOMAIN q /\ q[i] = p[i] /\ (IsNews(c, p, i) => IsNews(c, q, i))
  BY <1>1, <1>2
<1>6. IsNewest(c, p, m) => \E j \in DOMAIN q : q[j] = m /\ IsNews(c, q, j)
  BY <1>1, <1>3
<1> QED
  BY <1>4, <1>5, <1>6

\* What comes behind a message that goes.
LEMMA NewsLater ==
    ASSUME NEW c, NEW p, NEW q, NEW k, Less(p, q, k)
    PROVE  /\ \A i \in DOMAIN p : i # k /\ IsNews(c, p, i) =>
                 \E j \in DOMAIN q : q[j] = p[i] /\ IsNews(c, q, j)
           /\ \A j \in DOMAIN q : \E i \in DOMAIN p :
                 q[j] = p[i] /\ i # k /\ (IsNews(c, p, i) => IsNews(c, q, j))
<1>1. /\ k \in DOMAIN p /\ DOMAIN p \subseteq Int /\ DOMAIN q \subseteq Int
      /\ \A f \in DOMAIN p : f # k =>
            \E j \in DOMAIN q : q[j] = p[f] /\ j = (IF f < k THEN f ELSE f - 1)
      /\ \A j \in DOMAIN q :
            \E f \in DOMAIN p : f # k /\ q[j] = p[f] /\ f = (IF j < k THEN j ELSE j + 1)
  BY LessPlaces
<1>2. ASSUME NEW i \in DOMAIN p, NEW j \in DOMAIN q, q[j] = p[i], IsNews(c, p, i),
             i = (IF j < k THEN j ELSE j + 1)
      PROVE  IsNews(c, q, j)
  <2>1. ASSUME NEW h \in DOMAIN q, h < j, q[h].type \in GameEvents
        PROVE  q[h].id < q[j].id
    <3>1. PICK f \in DOMAIN p : f # k /\ q[h] = p[f] /\ f = (IF h < k THEN h ELSE h + 1)
      BY <1>1
    <3>2. f < i
      <4>1. h \in Int /\ j \in Int /\ k \in Int
        BY <1>1
      <4> QED
        BY <1>2, <2>1, <3>1, <4>1
    <3> QED
      BY <1>2, <2>1, <3>1, <3>2 DEF IsNews
  <2> QED
    BY <1>2, <2>1 DEF IsNews
<1>3. ASSUME NEW i \in DOMAIN p, i # k
      PROVE  \E j \in DOMAIN q : q[j] = p[i] /\ i = (IF j < k THEN j ELSE j + 1)
  <2>1. PICK j \in DOMAIN q : q[j] = p[i] /\ j = (IF i < k THEN i ELSE i - 1)
    BY <1>1, <1>3
  <2>2. i \in Int /\ j \in Int /\ k \in Int
    BY <1>1
  <2>3. i = (IF j < k THEN j ELSE j + 1)
    BY <1>3, <2>1, <2>2
  <2> QED
    BY <2>1, <2>3
<1> QED
  BY <1>1, <1>2, <1>3

-----------------------------------------------------------------------------
(* What a page with its messages survives *)

\* A step may make due only what its message brings, or what was due and stays.
SaysDue(due, now, m) ==
    \A n \in Claims \cap now : m.type \in Sets[n] \/ (n \in due /\ m.type \notin Clears[n])

LEMMA SaidTells ==
    ASSUME NEW due, NEW now, NEW v, NEW c, NEW p, NEW q, NEW m,
           Tells(due, v, c, p), More(p, q, m), SaysDue(due, now, m),
           "opened" \in now => "opened" \in due \/ (m.type = "opening" /\ IsNewest(c, p, m)),
           m.type = "game_ended" => IsNewest(c, p, m)
    PROVE  Tells(now, v, c, q)
<1>1. /\ \A i \in DOMAIN p : i \in DOMAIN q /\ q[i] = p[i] /\ (IsNews(c, p, i) => IsNews(c, q, i))
      /\ \A j \in DOMAIN q : j \in DOMAIN p \/ (q[j] = m /\ (IsNewest(c, p, m) => IsNews(c, q, j)))
      /\ IsNewest(c, p, m) => \E j \in DOMAIN q : q[j] = m /\ IsNews(c, q, j)
  BY NewsSaid
<1>2. ASSUME NEW n \in Claims, n \in now
      PROVE  WillBe(n, v, q)
  BY <1>2, ClaimSaid DEF SaysDue, Tells
<1>3. "opened" \in now => v.opening \/ OpensLater(c, q)
  BY <1>1 DEF Tells, OpensLater
<1>4. EndIsNews(c, q)
  BY <1>1 DEF Tells, EndIsNews
<1> QED
  BY <1>2, <1>3, <1>4 DEF Tells

\* Nothing is said, and nothing more is due.
LEMMA SilentTells ==
    ASSUME NEW due, NEW now, NEW v, NEW c, NEW p, Tells(due, v, c, p),
           Claims \cap now \subseteq due, "opened" \in now => "opened" \in due
    PROVE  Tells(now, v, c, p)
BY DEF Tells

\* A message that claims nothing goes: no message of the game, or one that was passed.
LEMMA DroppedTells ==
    ASSUME NEW due, NEW v, NEW c, NEW p, NEW q, NEW k, Tells(due, v, c, p), Less(p, q, k),
           \A n \in Claims : p[k].type \notin Sets[n],
           p[k].type = "opening" => ~IsNews(c, p, k)
    PROVE  Tells(due, v, c, q)
<1>1. /\ \A i \in DOMAIN p : i # k /\ IsNews(c, p, i) =>
            \E j \in DOMAIN q : q[j] = p[i] /\ IsNews(c, q, j)
      /\ \A j \in DOMAIN q : \E i \in DOMAIN p :
            q[j] = p[i] /\ i # k /\ (IsNews(c, p, i) => IsNews(c, q, j))
  BY NewsLater
<1>2. ASSUME NEW n \in Claims, n \in due
      PROVE  WillBe(n, v, q)
  BY <1>2, ClaimDropped DEF Tells
<1>3. "opened" \in due => v.opening \/ OpensLater(c, q)
  BY <1>1 DEF Tells, OpensLater
<1>4. EndIsNews(c, q)
  BY <1>1 DEF Tells, EndIsNews
<1> QED
  BY <1>2, <1>3, <1>4 DEF Tells

LEMMA TellsForLess ==
    ASSUME NEW due, NEW v, NEW p, Numbered(p), NEW c \in Nat, NEW d \in Nat, d <= c,
           Tells(due, v, c, p)
    PROVE  Tells(due, v, d, p)
<1>1. {"opening", "game_ended"} \subseteq GameEvents
  BY DEF GameEvents, PublicTypes
<1>2. OpensLater(c, p) => OpensLater(d, p)
  BY <1>1, NewsForLess DEF OpensLater
<1>3. EndIsNews(c, p) => EndIsNews(d, p)
  BY <1>1, NewsForLess DEF EndIsNews
<1> QED
  BY <1>2, <1>3 DEF Tells

-----------------------------------------------------------------------------
(* What the browser does with the messages *)

\* handleMessage for a game event makes the claims the event makes and leaves those it
\* does not clear.
LEMMA EventShows ==
    ASSUME NEW v \in View, NEW e, NEW n \in Claims
    PROVE  /\ e.type \in Sets[n] => n \in Shows(EventView(v, e, FALSE))
           /\ n \in Shows(v) /\ e.type \notin Clears[n] => n \in Shows(EventView(v, e, FALSE))
           /\ EventView(v, e, FALSE).opening = (v.opening \/ e.type = "opening")
<1> DEFINE w == EventView(v, e, FALSE)
<1>1. /\ v.thinking \in BOOLEAN /\ v.retry \in BOOLEAN /\ v.ended \in BOOLEAN /\ v.opening \in BOOLEAN
      /\ v = [thinking |-> v.thinking, retry |-> v.retry, ended |-> v.ended, opening |-> v.opening]
  BY DEF View
<1>2. /\ w.thinking = IF e.type = "thinking_on" THEN TRUE
                      ELSE v.thinking /\ e.type \notin {"thinking_off", "opening", "outcome",
                                                        "paused", "game_ended"}
      /\ w.retry = IF e.type = "paused" THEN TRUE
                   ELSE v.retry /\ e.type \notin {"thinking_on", "game_ended"}
      /\ w.ended = (v.ended \/ e.type = "game_ended")
      /\ w.opening = (v.opening \/ e.type = "opening")
  <2>1. CASE e.type = "thinking_on"
    BY <1>1, <2>1 DEF EventView
  <2>2. CASE e.type = "thinking_off"
    BY <1>1, <2>2 DEF EventView
  <2>3. CASE e.type = "opening"
    BY <1>1, <2>3 DEF EventView
  <2>4. CASE e.type = "outcome"
    BY <1>1, <2>4 DEF EventView
  <2>5. CASE e.type = "paused"
    BY <1>1, <2>5 DEF EventView
  <2>6. CASE e.type = "game_ended"
    BY <1>1, <2>6 DEF EventView
  <2>7. CASE e.type \notin {"thinking_on", "thinking_off", "opening", "outcome", "paused",
                            "game_ended"}
    <3>1. w = v
      BY <2>7 DEF EventView
    <3> QED
      BY <1>1, <2>7, <3>1
  <2> QED
    BY <2>1, <2>2, <2>3, <2>4, <2>5, <2>6, <2>7
<1> HIDE DEF w
<1>3. CASE n = "thinking"
  BY <1>2, <1>3 DEF Shows, Claims, Sets, Clears, w
<1>4. CASE n = "idle"
  BY <1>2, <1>4 DEF Shows, Claims, Sets, Clears, w
<1>5. CASE n = "paused"
  BY <1>2, <1>5 DEF Shows, Claims, Sets, Clears, w
<1>6. CASE n = "unpaused"
  BY <1>2, <1>6 DEF Shows, Claims, Sets, Clears, w
<1>7. CASE n = "ended"
  BY <1>2, <1>7 DEF Shows, Claims, Sets, Clears, w
<1>8. CASE n = "unended"
  BY <1>2, <1>8 DEF Shows, Claims, Sets, Clears, w
<1> QED
  BY <1>3, <1>4, <1>5, <1>6, <1>7, <1>8 DEF Claims

\* An event whose place is behind the cursor claims nothing new.
LEMMA PassedClaimsNothing ==
    ASSUME NEW e \in TrueEvents, e.id # 0, e.type # "game_ended", journal \in Seq(Entry),
           NEW n \in Claims
    PROVE  e.type \notin Sets[n]
<1>1. e.type \in PublicTypes
  <2>1. e.id \in DOMAIN journal /\ journal[e.id].type = e.type
    BY DEF TrueEvents, TruePlace
  <2>2. journal[e.id] \in Entry
    BY <2>1
  <2> QED
    BY <2>1, <2>2 DEF Entry
<1>2. e.type \in {"opening", "outcome", "round_start", "chat"}
  BY <1>1 DEF PublicTypes
<1> QED
  BY <1>2 DEF Claims, Sets

LEMMA TellsHandled ==
    ASSUME journal \in Seq(Entry), NEW due, NEW s \in Screen, NEW e \in TrueEvents,
           NEW p, NEW q, Less(p, q, 1), p[1] = e, Tells(due, s.view, s.cursor, p)
    PROVE  Tells(due, Handle(s, e, FALSE).view, Handle(s, e, FALSE).cursor, q)
<1> DEFINE v == s.view
           c == s.cursor
           w == EventView(v, e, FALSE)
<1>1. /\ v \in View /\ c \in Nat /\ e.id \in Nat /\ e.type \in GameEvents
      /\ 1 \in DOMAIN p /\ DOMAIN p \subseteq Int
      /\ \A i \in DOMAIN p : i # 1 => 1 < i
  <2>1. \A i \in DOMAIN p : i # 1 => 1 < i
    BY DEF Less
  <2>2. 1 \in DOMAIN p /\ DOMAIN p \subseteq Int
    BY LessPlaces
  <2>3. v \in View /\ c \in Nat
    BY DEF Screen
  <2>4. e.id \in Nat /\ e.type \in GameEvents
    BY DEF TrueEvents, Event, GameEvents
  <2> QED
    BY <2>1, <2>2, <2>3, <2>4
<1>2. CASE e.id # 0 /\ e.id <= c
  <2>1. Handle(s, e, FALSE) = s
    BY <1>2 DEF Handle
  <2>2. ~IsNews(c, p, 1)
    BY <1>1, <1>2 DEF IsNews
  <2>3. e.type # "game_ended"
    BY <1>1, <2>2 DEF Tells, EndIsNews
  <2>4. \A n \in Claims : p[1].type \notin Sets[n]
    BY <1>2, <2>3, PassedClaimsNothing
  <2> QED
    BY <2>1, <2>2, <2>4, DroppedTells
<1>3. CASE ~(e.id # 0 /\ e.id <= c)
  <2> DEFINE d == IF e.id = 0 THEN c ELSE e.id
  <2>1. Handle(s, e, FALSE).view = w /\ Handle(s, e, FALSE).cursor = d
    BY <1>3 DEF Handle
  <2>2. \A i \in DOMAIN p : i # 1 /\ IsNews(c, p, i) => IsNews(d, p, i)
    BY <1>1 DEF IsNews
  <2> HIDE DEF d
  <2>3. /\ \A i \in DOMAIN p : i # 1 /\ IsNews(d, p, i) =>
              \E j \in DOMAIN q : q[j] = p[i] /\ IsNews(d, q, j)
        /\ \A j \in DOMAIN q : \E i \in DOMAIN p :
              q[j] = p[i] /\ i # 1 /\ (IsNews(d, p, i) => IsNews(d, q, j))
    BY NewsLater
  <2> HIDE DEF v, c, w
  <2>4. w.opening = (v.opening \/ e.type = "opening")
    BY <1>1, EventShows DEF Claims, w
  <2>5. ASSUME NEW n \in Claims, n \in due
        PROVE  WillBe(n, w, q)
    <3>1. WillBe(n, v, p)
      BY <2>5 DEF Tells, v
    <3>2. /\ p[1].type \in Sets[n] => n \in Shows(w)
          /\ n \in Shows(v) /\ p[1].type \notin Clears[n] => n \in Shows(w)
      BY <1>1, <2>5, EventShows DEF w
    <3> QED
      BY <3>1, <3>2, ClaimHandled
  <2>6. "opened" \in due => w.opening \/ OpensLater(d, q)
    BY <1>1, <2>2, <2>3, <2>4 DEF Tells, OpensLater, v, c
  <2>7. EndIsNews(d, q)
    BY <1>1, <2>2, <2>3 DEF Tells, EndIsNews, c
  <2> QED
    BY <2>1, <2>5, <2>6, <2>7 DEF Tells
<1> QED
  BY <1>2, <1>3

\* What is left of p when n messages are handled.
Rest(p, n) == [i \in 1..(Len(p) - n) |-> p[i + n]]

LEMMA RestIs ==
    ASSUME NEW S, NEW h \in Seq(S), NEW T, NEW t \in Seq(T)
    PROVE  /\ Len(h) \in Nat /\ Rest(h \o t, 0) = h \o t /\ Rest(h \o t, Len(h)) = t
           /\ \A n \in 0..(Len(h) - 1) :
                 Less(Rest(h \o t, n), Rest(h \o t, n + 1), 1) /\ Rest(h \o t, n)[1] = h[n + 1]
<1> DEFINE N == Len(h)
           M == Len(t)
           p == h \o t
<1>1. /\ N \in Nat /\ M \in Nat /\ Len(p) = N + M
      /\ \A i \in 1..N : p[i] = h[i]
      /\ \A j \in 1..M : p[j + N] = t[j]
      /\ p = [i \in 1..(N + M) |-> p[i]] /\ t = [j \in 1..M |-> t[j]]
  <2> DEFINE U == S \cup T
  <2>1. h \in Seq(U) /\ t \in Seq(U)
    BY SeqMonotonic
  <2>2. N \in Nat /\ M \in Nat /\ p \in Seq(U) /\ Len(p) = N + M
    BY <2>1, ConcatProperties
  <2>3. /\ \A i \in 1..N : p[i] = h[i]
        /\ \A j \in 1..M : p[j + N] = t[j]
    <3>1. \A i \in 1..(N + M) : p[i] = IF i <= N THEN h[i] ELSE t[i - N]
      BY <2>1, ConcatProperties
    <3>2. \A i \in 1..N : i \in 1..(N + M) /\ i <= N
      BY <2>2
    <3>3. \A j \in 1..M : j + N \in 1..(N + M) /\ ~(j + N <= N) /\ (j + N) - N = j
      BY <2>2
    <3> QED
      BY <3>1, <3>2, <3>3
  <2>4. DOMAIN p = 1..(N + M) /\ DOMAIN t = 1..M
    BY <2>1, <2>2
  <2>5. p = [i \in DOMAIN p |-> p[i]] /\ t = [j \in DOMAIN t |-> t[j]]
    <3> HIDE DEF p
    <3>1. p \in [DOMAIN p -> U] /\ t \in [DOMAIN t -> U]
      BY <2>1, <2>2, <2>4
    <3> QED
      BY <3>1
  <2> QED
    BY <2>2, <2>3, <2>4, <2>5
<1> HIDE DEF N, M, p
<1>2. Rest(p, 0) = p
  <2>1. Len(p) - 0 = N + M /\ \A i \in 1..(N + M) : i + 0 = i
    BY <1>1
  <2> QED
    BY <1>1, <2>1 DEF Rest
<1>3. Rest(p, N) = t
  <2>1. Len(p) - N = M
    BY <1>1
  <2>2. Rest(p, N) = [i \in 1..M |-> p[i + N]]
    BY <2>1 DEF Rest
  <2>3. [i \in 1..M |-> p[i + N]] = [i \in 1..M |-> t[i]]
    BY <1>1
  <2> QED
    BY <1>1, <2>2, <2>3
<1>4. ASSUME NEW n \in 0..(N - 1)
      PROVE  Less(Rest(p, n), Rest(p, n + 1), 1) /\ Rest(p, n)[1] = h[n + 1]
  <2>1. /\ n \in Nat /\ (N + M) - n \in Nat \ {0} /\ Len(p) - n = (N + M) - n /\ n + 1 \in 1..N
        /\ Len(p) - (n + 1) = ((N + M) - n) - 1
    BY <1>1
  <2>2. PICK l \in Nat \ {0} : l = (N + M) - n
    BY <1>1, <2>1
  <2>3. DOMAIN Rest(p, n) = 1..l /\ DOMAIN Rest(p, n + 1) = 1..(l - 1)
    BY <2>1, <2>2 DEF Rest
  <2>4. ASSUME NEW i \in 1..(l - 1)
        PROVE  Rest(p, n + 1)[i] = Rest(p, n)[i + 1] /\ ~(i < 1)
    <3>1. i + 1 \in 1..l /\ i \in 1..(l - 1) /\ i + (n + 1) = (i + 1) + n
      BY <2>1, <2>2
    <3> QED
      BY <2>1, <2>2, <3>1 DEF Rest
  <2>5. Rest(p, n)[1] = p[1 + n] /\ 1 \in 1..l
    BY <2>1, <2>2 DEF Rest
  <2>6. p[1 + n] = h[n + 1]
    <3>1. 1 + n = n + 1
      BY <2>1
    <3> QED
      BY <1>1, <2>1, <3>1
  <2>7. Less(Rest(p, n), Rest(p, n + 1), 1)
    BY <2>2, <2>3, <2>4, <2>5 DEF Less
  <2> QED
    BY <2>5, <2>6, <2>7
<1> QED
  BY <1>1, <1>2, <1>3, <1>4 DEF N, p

LEMMA HeldTells ==
    ASSUME journal \in Seq(Entry), NEW due, NEW s \in Screen,
           NEW h \in Seq(TrueEvents), NEW T, NEW t \in Seq(T),
           Tells(due, s.view, s.cursor, h \o t)
    PROVE  Tells(due, HandleAll(s, h, FALSE).view, HandleAll(s, h, FALSE).cursor, t)
<1> DEFINE N == Len(h)
           left(n) == Rest(h \o t, n)
<1>1. /\ N \in Nat /\ left(0) = h \o t /\ left(N) = t
      /\ \A n \in 0..(N - 1) : Less(left(n), left(n + 1), 1) /\ left(n)[1] = h[n + 1]
  BY RestIs
<1>2. \A n \in 1..N : h[n] \in TrueEvents /\ h[n].id \in Nat
  <2>1. \A e \in TrueEvents : e.id \in Nat
    BY DEF TrueEvents, Event
  <2> QED
    BY <2>1
<1>3. PICK after \in [0..N -> Screen] :
         /\ after[0] = s
         /\ \A n \in 1..N : after[n] = Step(after[n - 1], h[n], FALSE)
         /\ HandleAll(s, h, FALSE) = after[N]
  BY <1>1, <1>2, AllAreHandled
<1> HIDE DEF left, N
<1> DEFINE handled == {n \in Nat : n \in 0..N =>
                          Tells(due, after[n].view, after[n].cursor, left(n))}
<1>4. 0 \in handled
  BY <1>1, <1>3
<1>5. ASSUME NEW n \in handled
      PROVE  n + 1 \in handled
  <2>1. CASE n + 1 \in 0..N
    <3>1. n \in Nat /\ n \in 0..N /\ n \in 0..(N - 1) /\ n + 1 \in 1..N /\ (n + 1) - 1 = n
      BY <1>1, <2>1
    <3>2. after[n + 1] = Handle(after[n], h[n + 1], FALSE)
      BY <1>3, <3>1 DEF Step
    <3>3. /\ Tells(due, after[n].view, after[n].cursor, left(n)) /\ after[n] \in Screen
          /\ h[n + 1] \in TrueEvents
          /\ Less(left(n), left(n + 1), 1) /\ left(n)[1] = h[n + 1]
      BY <1>1, <1>2, <1>3, <1>5, <3>1
    <3>4. Tells(due, after[n + 1].view, after[n + 1].cursor, left(n + 1))
      BY <3>2, <3>3, TellsHandled
    <3> QED
      BY <3>1, <3>4
  <2>2. CASE n + 1 \notin 0..N
    BY <2>2
  <2> QED
    BY <2>1, <2>2
<1>6. N \in handled
  <2> HIDE DEF handled
  <2>1. handled \in SUBSET Nat
    BY DEF handled
  <2>2. \A n \in Nat : n \in handled
    BY <1>4, <1>5, <2>1, Counting
  <2> QED
    BY <1>1, <2>2
<1>7. N \in 0..N
  BY <1>1
<1> QED
  BY <1>1, <1>3, <1>6, <1>7

\* A replayed event leaves the opening as it is.
LEMMA ReplayedOpening ==
    ASSUME NEW t \in Screen, NEW e, e.id \in Nat
    PROVE  HandleReplayed(t, e).view.opening = t.view.opening
<1>1. t.view \in View /\ t.cursor \in Nat /\ t.shown \in Seq(Nat)
      /\ t = [cursor |-> t.cursor, shown |-> t.shown, view |-> t.view]
  BY DEF Screen
<1>2. CASE e.type = "opening"
  BY <1>1, <1>2 DEF HandleReplayed
<1>3. CASE e.type # "opening"
  <2>1. HandleReplayed(t, e) = Handle(t, e, TRUE)
    BY <1>3 DEF HandleReplayed
  <2>2. EventView(t.view, e, TRUE).opening = t.view.opening
    BY <1>1, <1>3 DEF EventView, View
  <2>3. CASE e.id # 0 /\ e.id <= t.cursor
    BY <2>1, <2>3 DEF Handle
  <2>4. CASE ~(e.id # 0 /\ e.id <= t.cursor)
    <3>1. Handle(t, e, TRUE).view = EventView(t.view, e, TRUE)
      BY <2>4 DEF Handle
    <3> QED
      BY <2>1, <2>2, <3>1
  <2> QED
    BY <2>3, <2>4
<1> QED
  BY <1>2, <1>3

\* A page leaves the opening to the snapshot, and the cursor within the page.
LEMMA PageKeeps ==
    ASSUME NEW s \in Screen, NEW page, page.after \in Nat, page.upto \in Nat,
           page.after <= page.upto
    PROVE  /\ HandlePage(s, page) \in Screen
           /\ HandlePage(s, page).view.opening = s.view.opening
           /\ HandlePage(s, page).cursor <= s.cursor \/ HandlePage(s, page).cursor <= page.upto
<1> DEFINE events == PageEvents(page)
           N == Len(events)
<1>1. /\ N \in Nat /\ N = page.upto - page.after /\ s.cursor \in Nat
      /\ HandlePage(s, page) = HandleAll(s, events, TRUE)
      /\ \A n \in 1..N : events[n].id \in Nat /\ events[n].id <= page.upto
  <2>1. /\ N = page.upto - page.after /\ N \in Nat
        /\ \A i \in 1..N : events[i].id = page.after + i
    BY PageLength
  <2>2. HandlePage(s, page) = HandleAll(s, events, TRUE)
    BY DEF HandlePage, PageEvents
  <2> HIDE DEF events
  <2> QED
    BY <2>1, <2>2 DEF Screen
<1> HIDE DEF events
<1>2. PICK after \in [0..N -> Screen] :
         /\ after[0] = s
         /\ \A n \in 1..N : after[n] = Step(after[n - 1], events[n], TRUE)
         /\ HandleAll(s, events, TRUE) = after[N]
  BY <1>1, AllAreHandled
<1> HIDE DEF N
<1> DEFINE kept == {n \in Nat : n \in 0..N =>
                       /\ after[n].view.opening = s.view.opening
                       /\ after[n].cursor \in {s.cursor} \cup 0..page.upto}
<1>3. 0 \in kept
  BY <1>2
<1>4. ASSUME NEW n \in kept
      PROVE  n + 1 \in kept
  <2>1. CASE n + 1 \in 0..N
    <3>1. n \in Nat /\ n \in 0..N /\ n + 1 \in 1..N /\ (n + 1) - 1 = n
      BY <1>1, <2>1
    <3>2. /\ after[n] \in Screen /\ events[n + 1].id \in Nat /\ events[n + 1].id <= page.upto
          /\ after[n + 1] = HandleReplayed(after[n], events[n + 1])
          /\ after[n].view.opening = s.view.opening
          /\ after[n].cursor \in {s.cursor} \cup 0..page.upto
      BY <1>1, <1>2, <1>4, <3>1 DEF Step
    <3>3. after[n + 1].view.opening = after[n].view.opening
      BY <3>2, ReplayedOpening
    <3>4. after[n + 1].cursor \in {after[n].cursor, events[n + 1].id}
      BY <3>2, HandleReplayedTyped
    <3> QED
      BY <3>1, <3>2, <3>3, <3>4
  <2>2. CASE n + 1 \notin 0..N
    BY <2>2
  <2> QED
    BY <2>1, <2>2
<1>5. N \in kept
  <2> HIDE DEF kept
  <2>1. kept \in SUBSET Nat
    BY DEF kept
  <2>2. \A n \in Nat : n \in kept
    BY <1>3, <1>4, <2>1, Counting
  <2> QED
    BY <1>1, <2>2
<1>6. N \in 0..N
  BY <1>1
<1>7. after[N] \in Screen /\ after[N].view.opening = s.view.opening
      /\ after[N].cursor \in {s.cursor} \cup 0..page.upto
  BY <1>2, <1>5, <1>6
<1>8. after[N].cursor <= s.cursor \/ after[N].cursor <= page.upto
  BY <1>1, <1>7
<1> QED
  BY <1>1, <1>2, <1>7, <1>8

-----------------------------------------------------------------------------
(* What the game still has to say in each of its phases *)

BusyPhases == {"preparing", "thinking"}

On   == <<Said("thinking_on", 0)>>
Off  == <<Said("thinking_off", 0)>>
Both == <<Said("paused", 0), Said("thinking_off", 0)>>
End  == <<Said("game_ended", 0)>>

PhaseFits ==
    /\ phase \in BusyPhases => notices \in {<<>>, On}
    /\ phase = "lobby" => notices = <<>>
    /\ phase = "turn" => notices \in {<<>>, Off}
    /\ phase = "paused" => notices \in {<<>>, Off, Both}
    /\ phase = "ended" => notices \in {<<>>, End}
    /\ phase \in BusyPhases /\ notices = <<>> => effects \in {"free", "notice", "ending"}

\* The broadcast under way is of the head of its queue, recorded already when it is
\* public, and the lock is held for it.
PublishingFits ==
    /\ cut => phase = "turn"
    /\ publishing.by = "delivery" =>
          /\ pendingDelivery # <<>> /\ publishing.event = Head(pendingDelivery)
          /\ publishing.event.type \in PublicTypes => publishing.event.id # 0
    /\ publishing.again => publishing.by = "delivery" /\ effects = "job"
    /\ publishing.by = "notice" =>
          effects \in {"notice", "ending"} /\ (effects = "ending" => phase = "ended")

GameFits == PhaseFits /\ PublishingFits

LEMMA NoticesAre ==
    /\ On # <<>> /\ Off # <<>> /\ Both # <<>> /\ End # <<>>
    /\ Head(On) = Said("thinking_on", 0) /\ Tail(On) = <<>>
    /\ Head(Off) = Said("thinking_off", 0) /\ Tail(Off) = <<>>
    /\ Head(Both) = Said("paused", 0) /\ Tail(Both) = Off
    /\ Head(End) = Said("game_ended", 0) /\ Tail(End) = <<>>
<1>1. \A x : <<x>> # <<>> /\ Head(<<x>>) = x /\ Tail(<<x>>) = <<>>
  OBVIOUS
<1>2. \A x, y : <<x, y>> # <<>> /\ Head(<<x, y>>) = x /\ Tail(<<x, y>>) = <<y>>
  OBVIOUS
<1> QED
  BY <1>1, <1>2 DEF On, Off, Both, End

\* A notice is said where its phase has left it.
LEMMA NoticeSaid ==
    ASSUME PhaseFits, phase \in Phases, SendNotice
    PROVE  /\ UNCHANGED <<phase, cut, pendingDelivery>>
           /\ \/ /\ phase \in BusyPhases /\ notices = On /\ notices' = <<>>
                 /\ Head(notices) = Said("thinking_on", 0) /\ effects' = "notice"
              \/ /\ phase \in {"turn", "paused"} /\ notices = Off /\ notices' = <<>>
                 /\ Head(notices) = Said("thinking_off", 0) /\ effects' = "notice"
              \/ /\ phase = "paused" /\ notices = Both /\ notices' = Off
                 /\ Head(notices) = Said("paused", 0) /\ effects' = "notice"
              \/ /\ phase = "ended" /\ notices = End /\ notices' = <<>>
                 /\ Head(notices) = Said("game_ended", 0) /\ effects' = "ending"
<1>1. /\ notices # <<>> /\ MaySay(Head(notices)) /\ notices' = Tail(notices)
      /\ effects' = IF effects = "free" THEN "notice" ELSE effects
      /\ UNCHANGED <<phase, cut, pendingDelivery>>
  BY DEF SendNotice
<1>2. \/ phase \in BusyPhases /\ notices = On
      \/ phase \in {"turn", "paused"} /\ notices = Off
      \/ phase = "paused" /\ notices = Both
      \/ phase = "ended" /\ notices = End
  BY <1>1 DEF PhaseFits, Phases, BusyPhases
<1>3. CASE phase \in BusyPhases /\ notices = On
  <2>1. Head(notices) = Said("thinking_on", 0) /\ notices' = <<>>
    BY <1>1, <1>3, NoticesAre
  <2>2. effects = "free"
    BY <1>1, <2>1 DEF MaySay, Said
  <2> QED
    BY <1>1, <1>3, <2>1, <2>2
<1>4. CASE phase \in {"turn", "paused"} /\ notices = Off
  <2>1. Head(notices) = Said("thinking_off", 0) /\ notices' = <<>>
    BY <1>1, <1>4, NoticesAre
  <2>2. effects = "free"
    BY <1>1, <2>1 DEF MaySay, Said
  <2> QED
    BY <1>1, <1>4, <2>1, <2>2
<1>5. CASE phase = "paused" /\ notices = Both
  <2>1. Head(notices) = Said("paused", 0) /\ notices' = Off
    BY <1>1, <1>5, NoticesAre
  <2>2. effects = "notice"
    BY <1>1, <2>1 DEF MaySay, Said
  <2> QED
    BY <1>1, <1>5, <2>1, <2>2
<1>6. CASE phase = "ended" /\ notices = End
  <2>1. Head(notices) = Said("game_ended", 0) /\ notices' = <<>>
    BY <1>1, <1>6, NoticesAre
  <2>2. effects = "ending"
    BY <1>1, <2>1 DEF MaySay, Said
  <2> QED
    BY <1>1, <1>6, <2>1, <2>2
<1> QED
  BY <1>2, <1>3, <1>4, <1>5, <1>6

\* The event a recorded one becomes.
LEMMA RecordedIs ==
    ASSUME NEW e \in Event, Len(journal) \in Nat
    PROVE  /\ Recorded(e).type = e.type
           /\ Recorded(e).type \in PublicTypes => Recorded(e).id # 0
           /\ IsNew(e) => Recorded(e).id = Len(journal) + 1
           /\ ~IsNew(e) => Recorded(e) = e
<1>1. e = [type |-> e.type, round |-> e.round, id |-> e.id]
  BY DEF Event
<1>2. CASE IsNew(e)
  <2>1. Recorded(e) = [e EXCEPT !.id = Len(journal) + 1]
    BY <1>2 DEF Recorded
  <2>2. Recorded(e).type = e.type /\ Recorded(e).id = Len(journal) + 1
    BY <1>1, <2>1
  <2> QED
    BY <1>2, <2>2
<1>3. CASE ~IsNew(e)
  BY <1>3 DEF Recorded, IsNew
<1> QED
  BY <1>2, <1>3

LEMMA DeliveriesFit ==
    ASSUME GameFits, RecordInv, Deliveries
    PROVE  GameFits'
<1>1. UNCHANGED <<phase, notices>>
  BY DEF Deliveries, Deliver, Delivered, SkipPassed, PopDelivered, DeadlineBetween,
         DeadlineInside, DeliveryCut, Recover, LeaveDelivery, game
<1>2. CASE Deliver
  <2> DEFINE e == Head(pendingDelivery)
  <2>1. /\ pendingDelivery # <<>> /\ UNCHANGED <<effects, cut>>
        /\ publishing' = [by |-> "delivery", event |-> Recorded(e), again |-> FALSE]
        /\ pendingDelivery' = [pendingDelivery EXCEPT ![1] = Recorded(@)]
        /\ pendingDelivery \in Seq(Event) /\ Len(journal) \in Nat
    BY <1>2, QueueLengths DEF Deliver, Delivering, Publish, Stamped, RecordInv, RecordTypes
  <2>2. /\ e \in Event /\ e = pendingDelivery[1] /\ 1 \in DOMAIN pendingDelivery
    BY <2>1
  <2>3. Recorded(e).type \in PublicTypes => Recorded(e).id # 0
    BY <2>1, <2>2, RecordedIs
  <2>4. pendingDelivery' # <<>> /\ Head(pendingDelivery') = Recorded(e)
    <3> HIDE DEF e
    <3>1. pendingDelivery'[1] = Recorded(e)
      BY <2>1, <2>2
    <3>2. Len(pendingDelivery') = Len(pendingDelivery) /\ Len(pendingDelivery) \in Nat \ {0}
      BY <2>1
    <3>3. \A x, S : x \in Seq(S) /\ Len(x) # 0 => Head(x) = x[1]
      OBVIOUS
    <3>4. pendingDelivery' \in Seq(Event)
      BY <1>2, DeliverRecords DEF RecordInv, RecordTypes
    <3> QED
      BY <3>1, <3>2, <3>3, <3>4
  <2> QED
    BY <1>1, <2>1, <2>3, <2>4 DEF GameFits, PhaseFits, PublishingFits
<1>3. CASE Delivered \/ SkipPassed
  <2>1. publishing' = Silence /\ effects' \in {"free", effects} /\ cut' = cut
        /\ (effects' = effects \/ effects # "ending")
    BY <1>3 DEF Delivered, SkipPassed, Published, PopDelivered, record
  <2> QED
    BY <1>1, <2>1 DEF GameFits, PhaseFits, PublishingFits, Silence
<1>4. CASE DeadlineBetween \/ DeliveryCut
  <2>1. /\ effects' = "free" /\ (cut' => phase = "turn") /\ UNCHANGED pendingDelivery
        /\ publishing' = Silence \/ (publishing' = publishing /\ publishing.by # "delivery"
                                       /\ effects = "job")
    BY <1>4 DEF DeadlineBetween, DeliveryCut, LeaveDelivery, Published, record
  <2> QED
    BY <1>1, <2>1 DEF GameFits, PhaseFits, PublishingFits, Silence
<1>5. CASE DeadlineInside
  <2>1. /\ effects = "job" /\ publishing.by = "delivery" /\ UNCHANGED pendingDelivery
        /\ \/ publishing' = Silence /\ effects' = "free" /\ (cut' => phase = "turn")
           \/ publishing' = [publishing EXCEPT !.again = TRUE] /\ UNCHANGED <<effects, cut>>
    BY <1>5 DEF DeadlineInside, LeaveDelivery, game
  <2>2. publishing' = [publishing EXCEPT !.again = TRUE] =>
           publishing'.by = publishing.by /\ publishing'.event = publishing.event
    <3>1. \A x : [x EXCEPT !.again = TRUE].by = x.by /\ [x EXCEPT !.again = TRUE].event = x.event
      OBVIOUS
    <3> QED
      BY <3>1
  <2> QED
    BY <1>1, <2>1, <2>2 DEF GameFits, PhaseFits, PublishingFits, Silence
<1>6. CASE Recover
  <2>1. /\ cut /\ effects = "free" /\ cut' = FALSE /\ effects' \in {"free", "recovery"}
        /\ UNCHANGED <<pendingDelivery, publishing>>
    BY <1>6 DEF Recover, record
  <2> QED
    BY <1>1, <2>1 DEF GameFits, PhaseFits, PublishingFits, BusyPhases
<1> QED
  BY <1>2, <1>3, <1>4, <1>5, <1>6 DEF Deliveries

LEMMA NoticesFit ==
    ASSUME GameFits, RecordInv, Notices
    PROVE  GameFits'
<1>1. CASE SendNotice
  <2>1. publishing'.by = "notice" /\ publishing'.again = FALSE
    BY <1>1 DEF SendNotice, Publish
  <2>2. /\ UNCHANGED <<phase, cut, pendingDelivery>>
        /\ \/ phase \in BusyPhases /\ notices' = <<>> /\ effects' = "notice"
           \/ phase \in {"turn", "paused"} /\ notices' = <<>> /\ effects' = "notice"
           \/ phase = "paused" /\ notices' = Off /\ effects' = "notice"
           \/ phase = "ended" /\ notices' = <<>> /\ effects' = "ending"
    BY <1>1, NoticeSaid DEF GameFits, RecordInv, RecordTypes
  <2> QED
    BY <2>1, <2>2 DEF GameFits, PhaseFits, PublishingFits, BusyPhases
<1>2. CASE NoticeSent
  <2>1. /\ publishing' = Silence /\ effects' = "free"
        /\ UNCHANGED <<phase, cut, pendingDelivery, notices>>
    BY <1>2 DEF NoticeSent, Published
  <2> QED
    BY <2>1 DEF GameFits, PhaseFits, PublishingFits, Silence
<1>3. CASE SendChat \/ ChatSent
  <2>1. /\ UNCHANGED <<phase, effects, cut, pendingDelivery, notices>>
        /\ publishing'.by \in {"chat", "nobody"} /\ publishing'.again = FALSE
    BY <1>3 DEF SendChat, ChatSent, Publish, Published, Silence, game
  <2> QED
    BY <2>1 DEF GameFits, PhaseFits, PublishingFits
<1> QED
  BY <1>1, <1>2, <1>3 DEF Notices

\* A commit queues its events behind the others.
LEMMA CommitBrings ==
    ASSUME RecordInv, OpenGame \/ CommitRound
    PROVE  \E more : more \in Seq(Event) /\ pendingDelivery' = pendingDelivery \o more
<1>1. ASSUME NEW first \in {"opening", "outcome"}, NEW n \in Nat
      PROVE  <<Said(first, n), Said("round_start", n + 1), Said("directive", 0)>> \in Seq(Event)
  <2>1. /\ Said(first, n) \in Event /\ Said("round_start", n + 1) \in Event
        /\ Said("directive", 0) \in Event
    BY <1>1 DEF Said, Event, PublicTypes, OtherTypes
  <2> QED
    BY <2>1
<1>2. CASE OpenGame
  BY <1>1, <1>2 DEF OpenGame, Commit
<1>3. CASE CommitRound
  <2>1. rounds + 1 \in Nat
    BY DEF RecordInv, RecordTypes
  <2> QED
    BY <1>1, <1>3, <2>1 DEF CommitRound, Commit
<1> QED
  BY <1>2, <1>3

LEMMA GameStepsFit ==
    ASSUME GameFits, RecordInv, Game
    PROVE  GameFits'
<1>1. publishing' = publishing
  BY DEF Game, StartGame, OpenGame, LaunchRound, CommitRound, Commit, PauseRound, RetryRound,
         BeginEnd, FinishEnd, record
<1>2. CASE StartGame \/ LaunchRound \/ RetryRound
  <2>1. /\ phase' \in BusyPhases /\ notices' = On /\ cut' = FALSE /\ phase # "ended"
        /\ UNCHANGED <<effects, pendingDelivery>>
    BY <1>2 DEF StartGame, LaunchRound, RetryRound, Launch, BusyPhases, On
  <2> QED
    BY <1>1, <2>1, NoticesAre DEF GameFits, PhaseFits, PublishingFits, BusyPhases
<1>3. CASE OpenGame \/ CommitRound
  <2>1. PICK more : more \in Seq(Event) /\ pendingDelivery' = pendingDelivery \o more
    BY <1>3, CommitBrings
  <2>2. /\ phase' = "turn" /\ notices' = Off /\ effects = "free" /\ effects' = "job" /\ cut' = cut
    BY <1>3 DEF OpenGame, CommitRound, Commit, Off
  <2>3. pendingDelivery # <<>> =>
           pendingDelivery' # <<>> /\ Head(pendingDelivery') = Head(pendingDelivery)
    <3>1. pendingDelivery \in Seq(Event)
      BY DEF RecordInv, RecordTypes
    <3> QED
      BY <2>1, <3>1, ConcatProperties
  <2> QED
    BY <1>1, <2>2, <2>3 DEF GameFits, PhaseFits, PublishingFits, BusyPhases
<1>4. CASE PauseRound
  <2>1. /\ phase = "thinking" /\ phase' = "paused" /\ notices' = Both /\ effects = "free"
        /\ effects' = "notice" /\ UNCHANGED <<cut, pendingDelivery>>
    BY <1>4 DEF PauseRound, Both
  <2> QED
    BY <1>1, <2>1 DEF GameFits, PhaseFits, PublishingFits, BusyPhases
<1>5. CASE BeginEnd
  <2>1. /\ effects = "free" /\ effects' = "ending"
        /\ UNCHANGED <<phase, cut, pendingDelivery, notices>>
    BY <1>5 DEF BeginEnd
  <2> QED
    BY <1>1, <2>1 DEF GameFits, PhaseFits, PublishingFits
<1>6. CASE FinishEnd
  <2>1. /\ effects = "ending" /\ phase' = "ended" /\ notices' = End /\ cut' = FALSE
        /\ UNCHANGED <<effects, pendingDelivery>>
    BY <1>6 DEF FinishEnd, End
  <2> QED
    BY <1>1, <2>1 DEF GameFits, PhaseFits, PublishingFits, BusyPhases
<1> QED
  BY <1>2, <1>3, <1>4, <1>5, <1>6 DEF Game

LEMMA StepFits ==
    ASSUME GameFits, RecordInv, [Next]_vars
    PROVE  GameFits'
<1>1. CASE Elsewhere
  BY <1>1, DeliveriesFit, NoticesFit, GameStepsFit DEF Elsewhere, PublicationNext
<1>2. CASE Server \/ Browser \/ UNCHANGED vars
  <2>1. UNCHANGED <<game, record>>
    BY <1>2 DEF Server, Authenticate, LoseSocket, AnswerPage, RefusePage, Answer,
                Browser, Receive, ReceiveAuth, ReceivePage, ReceiveRefusal, ShowEvent,
                HoldEvent, HoldTooMany, StartClosing, NoticeClose, Closed, AskAgain,
                GiveUp, vars
  <2> QED
    BY <2>1 DEF GameFits, PhaseFits, PublishingFits, game, record
<1> QED
  BY <1>1, <1>2 DEF Next

LEMMA InitFits == Init => GameFits
BY DEF Init, PublicationInit, GameFits, PhaseFits, PublishingFits, BusyPhases, Silence

-----------------------------------------------------------------------------
(* What is due, and what is on its way to be shown *)

Owes(ns, type) == \E i \in DOMAIN ns : ns[i].type = type

\* What phase p promises of a view with no message on its way, when it still has the
\* notices ns to say.
Claimed(p, ns, lock) ==
    {n \in Claims :
        \/ n = "thinking" /\ p \in BusyPhases /\ ns = <<>> /\ lock # "ending"
        \/ /\ n = "idle" /\ p \notin BusyPhases
           /\ ~Owes(ns, "thinking_off") /\ ~Owes(ns, "game_ended")
        \/ n = "paused" /\ p = "paused" /\ ~Owes(ns, "paused")
        \/ /\ n = "unpaused" /\ p # "paused"
           /\ ~Owes(ns, "thinking_on") /\ ~Owes(ns, "game_ended")
        \/ n = "ended" /\ p = "ended" /\ ~Owes(ns, "game_ended")
        \/ n = "unended" /\ p # "ended"}

Due == Claimed(phase, notices, effects) \cup {n \in {"opened"} : Opened}

\* The game has its opening, recorded or not.
Known == Opened \/ OpeningPending

\* While a socket is authenticated or a page replays, a snapshot is still to be applied.
Restores == conn = "open" \/ replaying
Latest   == IF conn = "open" THEN Head(stream) ELSE snapshot
Further(a, b) == IF a > b THEN a ELSE b

Base   == IF Restores THEN ApplySnapshot(screen.view, Latest) ELSE screen.view
Reach  == IF Restores THEN Further(screen.cursor, Latest.latest) ELSE screen.cursor
Coming == IF conn = "open" THEN Tail(stream) ELSE held \o stream

ViewInv == attached /\ (conn = "live" => ~outrun) => Tells(Due, Base, Reach, Coming)

HeldInv ==
    /\ ~attached => stream = <<>>
    /\ conn \in {"closed", "closing"} => ~attached
    /\ conn = "live" /\ ~replaying => held = <<>>
    /\ conn = "live" => \A i \in DOMAIN stream : stream[i].type # "auth_ok"
    /\ conn = "open" /\ attached =>
          /\ stream # <<>> /\ stream[1].type = "auth_ok"
          /\ \A i \in DOMAIN stream : i # 1 => stream[i].type # "auth_ok"
    /\ \A i \in DOMAIN held : held[i].type \in GameEvents
    /\ snapshot.latest <= Len(journal)

\* Wherever the opening is told, the game has it.
TellsOpening(m) == m.type = "opening" \/ (m.type = "auth_ok" /\ m.opened)

OpeningTold(queue) == \E i \in DOMAIN queue : TellsOpening(queue[i])

KnownInv ==
    screen.view.opening \/ snapshot.opened \/ OpeningTold(held) \/ OpeningTold(stream) => Known

LEMMA DueIs ==
    /\ Claims \cap Due = Claimed(phase, notices, effects)
    /\ "opened" \in Due <=> Opened
BY DEF Due, Claims, Claimed

LEMMA DueNext ==
    /\ Claims \cap Due' = Claimed(phase', notices', effects')
    /\ "opened" \in Due' <=> Opened'
BY DEF Due, Claims, Claimed

LEMMA OwesIs ==
    ASSUME NEW type
    PROVE  /\ ~Owes(<<>>, type)
           /\ Owes(On, type) <=> type = "thinking_on"
           /\ Owes(Off, type) <=> type = "thinking_off"
           /\ Owes(Both, type) <=> type \in {"paused", "thinking_off"}
           /\ Owes(End, type) <=> type = "game_ended"
<1>1. \A x : Owes(<<x>>, type) <=> type = x.type
  BY DEF Owes
<1>2. \A x, y : Owes(<<x, y>>, type) <=> type \in {x.type, y.type}
  BY DEF Owes
<1>3. \A t : Said(t, 0).type = t
  BY DEF Said
<1>4. ~Owes(<<>>, type)
  BY DEF Owes
<1> QED
  BY <1>1, <1>2, <1>3, <1>4 DEF On, Off, Both, End

\* A lock changes no claim, unless it comes from a shutdown.
LEMMA ClaimedUnderLock ==
    ASSUME NEW p, NEW ns, NEW lock, NEW next,
           p \in BusyPhases /\ lock = "ending" => next = "ending"
    PROVE  Claimed(p, ns, next) \subseteq Claimed(p, ns, lock)
BY DEF Claimed

\* A launch, a commit, a pause and the end claim nothing that was not claimed before.
LEMMA ClaimedByGame ==
    ASSUME NEW lock, NEW before
    PROVE  /\ \A p \in BusyPhases, q \in Phases \ {"ended"} : \A ns :
                 Claimed(p, On, lock) \subseteq Claimed(q, ns, before)
           /\ \A q \in BusyPhases : Claimed("turn", Off, lock) \subseteq Claimed(q, <<>>, before)
           /\ \A q \in BusyPhases : \A ns :
                 Claimed("paused", Both, lock) \subseteq Claimed(q, ns, before)
           /\ Claimed("ended", End, lock) = {}
<1>1. \A type : Owes(On, type) <=> type = "thinking_on"
  BY OwesIs
<1>2. \A type : Owes(Off, type) <=> type = "thinking_off"
  BY OwesIs
<1>3. \A type : Owes(Both, type) <=> type \in {"paused", "thinking_off"}
  BY OwesIs
<1>4. \A type : (Owes(End, type) <=> type = "game_ended") /\ ~Owes(<<>>, type)
  BY OwesIs
<1>5. \A p \in BusyPhases, q \in Phases \ {"ended"} : \A ns :
         Claimed(p, On, lock) \subseteq Claimed(q, ns, before)
  BY <1>1, NoticesAre DEF Claimed, BusyPhases
<1>6. \A q \in BusyPhases : Claimed("turn", Off, lock) \subseteq Claimed(q, <<>>, before)
  BY <1>2, <1>4 DEF Claimed, BusyPhases
<1>7. \A q \in BusyPhases : \A ns :
         Claimed("paused", Both, lock) \subseteq Claimed(q, ns, before)
  BY <1>3 DEF Claimed, BusyPhases
<1>8. Claimed("ended", End, lock) = {}
  BY <1>4 DEF Claimed, BusyPhases
<1> QED
  BY <1>5, <1>6, <1>7, <1>8

\* What the broadcasts of a phase make due of its claims.
LEMMA ClaimsSaid ==
    ASSUME NEW due, NEW now, NEW m, NEW lock, NEW next
    PROVE  /\ \A p \in BusyPhases :
                 /\ Claims \cap now = Claimed(p, <<>>, next) /\ m.type = "thinking_on"
                 /\ Claims \cap due = Claimed(p, On, lock)
                 => SaysDue(due, now, m)
           /\ \A p \in {"turn", "paused"} :
                 /\ Claims \cap now = Claimed(p, <<>>, next) /\ m.type = "thinking_off"
                 /\ Claims \cap due = Claimed(p, Off, lock)
                 => SaysDue(due, now, m)
           /\ /\ Claims \cap now = Claimed("paused", Off, next) /\ m.type = "paused"
              /\ Claims \cap due = Claimed("paused", Both, lock)
              => SaysDue(due, now, m)
           /\ /\ Claims \cap now = Claimed("ended", <<>>, next) /\ m.type = "game_ended"
              /\ Claims \cap due = Claimed("ended", End, lock)
              => SaysDue(due, now, m)
<1>1. \A type : Owes(On, type) <=> type = "thinking_on"
  BY OwesIs
<1>2. \A type : Owes(Off, type) <=> type = "thinking_off"
  BY OwesIs
<1>3. \A type : Owes(Both, type) <=> type \in {"paused", "thinking_off"}
  BY OwesIs
<1>4. \A type : (Owes(End, type) <=> type = "game_ended") /\ ~Owes(<<>>, type)
  BY OwesIs
<1>5. ASSUME NEW p \in BusyPhases,
             Claims \cap now = Claimed(p, <<>>, next), m.type = "thinking_on",
             Claims \cap due = Claimed(p, On, lock)
      PROVE  SaysDue(due, now, m)
  <2>1. Claims \cap now \subseteq {"thinking", "unpaused", "unended"}
    BY <1>4, <1>5 DEF Claimed, BusyPhases
  <2>2. "unended" \in due
    BY <1>5 DEF Claimed, BusyPhases, Claims
  <2> QED
    BY <1>5, <2>1, <2>2 DEF SaysDue, Sets, Clears
<1>6. ASSUME NEW p \in {"turn", "paused"},
             Claims \cap now = Claimed(p, <<>>, next), m.type = "thinking_off",
             Claims \cap due = Claimed(p, Off, lock)
      PROVE  SaysDue(due, now, m)
  <2>1. Claims \cap now \subseteq {"idle"} \cup Claimed(p, Off, lock)
    BY <1>2, <1>4, <1>6 DEF Claimed, BusyPhases
  <2>2. "ended" \notin Claimed(p, Off, lock) /\ "thinking" \notin Claimed(p, Off, lock)
    BY <1>6 DEF Claimed, BusyPhases
  <2> QED
    BY <1>6, <2>1, <2>2 DEF SaysDue, Sets, Clears, Claims
<1>7. ASSUME Claims \cap now = Claimed("paused", Off, next), m.type = "paused",
             Claims \cap due = Claimed("paused", Both, lock)
      PROVE  SaysDue(due, now, m)
  <2>1. Claims \cap now \subseteq {"paused", "unended"}
    BY <1>2, <1>7 DEF Claimed, BusyPhases
  <2>2. "unended" \in due
    BY <1>7 DEF Claimed, BusyPhases, Claims
  <2> QED
    BY <1>7, <2>1, <2>2 DEF SaysDue, Sets, Clears
<1>8. ASSUME Claims \cap now = Claimed("ended", <<>>, next), m.type = "game_ended",
             Claims \cap due = Claimed("ended", End, lock)
      PROVE  SaysDue(due, now, m)
  <2>1. Claims \cap now \subseteq {"idle", "unpaused", "ended"}
    BY <1>4, <1>8 DEF Claimed, BusyPhases
  <2> QED
    BY <1>8, <2>1 DEF SaysDue, Sets
<1> QED
  BY <1>5, <1>6, <1>7, <1>8

\* Public events other than the end, and the directive, disturb no claim while nobody is
\* thinking; chat never does.
LEMMA ClaimsKept ==
    ASSUME NEW due, NEW now, NEW m, Claims \cap now \subseteq due,
           \/ m.type \in {"opening", "outcome", "round_start", "directive"} /\ "thinking" \notin now
           \/ m.type = "chat"
    PROVE  SaysDue(due, now, m)
BY DEF SaysDue, Sets, Clears, Claims

-----------------------------------------------------------------------------
(* What the game's steps say *)

\* A step that sends nothing and makes nothing more due.
Silently ==
    /\ UNCHANGED <<journal, socket>>
    /\ Claims \cap Due' \subseteq Due
    /\ "opened" \in Due' => "opened" \in Due
    /\ Known => Known'

\* A step that sends m, which accounts for all it makes due.
Aloud(m) ==
    /\ m \in Event /\ Enqueue(m)
    /\ SaysDue(Due, Due', m)
    /\ "opened" \in Due' => "opened" \in Due \/ (m.type = "opening" /\ m.id = Len(journal) + 1)
    /\ Known => Known'
    /\ m.type = "opening" => Known'
    /\ m.type = "game_ended" => m.id = Len(journal) + 1

LEMMA OpenedByPublish ==
    ASSUME journal \in Seq(Entry), NEW by, NEW e \in Event, Publish(by, e)
    PROVE  /\ Recorded(e) \in Event /\ Enqueue(Recorded(e))
           /\ Opened => Opened'
           /\ Opened' => Opened \/ (e.type = "opening" /\ IsNew(e))
           /\ e.type = "opening" /\ IsNew(e) => Opened'
<1> DEFINE N == Len(journal)
<1>1. N \in Nat /\ DOMAIN journal = 1..N
  OBVIOUS
<1>2. Enqueue(Recorded(e)) /\ Recorded(e) \in Event
  <2>1. [e EXCEPT !.id = N + 1] \in Event
    BY <1>1 DEF Event
  <2> QED
    BY <2>1 DEF Publish, Recorded
<1>3. CASE IsNew(e)
  <2> DEFINE entry == [type |-> e.type, round |-> e.round]
  <2>1. entry \in Entry /\ journal' = Append(journal, entry)
    BY <1>3 DEF Publish, IsNew, Event, Entry
  <2>2. /\ DOMAIN journal' = 1..(N + 1) /\ \A k \in 1..N : journal'[k] = journal[k]
        /\ journal'[N + 1] = entry
    BY <2>1
  <2>3. entry.type = e.type
    OBVIOUS
  <2>4. \A k \in 1..(N + 1) : k \in 1..N \/ k = N + 1
    BY <1>1
  <2>5. 1..N \subseteq 1..(N + 1) /\ N + 1 \in 1..(N + 1)
    BY <1>1
  <2> HIDE DEF entry
  <2> QED
    BY <1>1, <1>2, <1>3, <2>2, <2>3, <2>4, <2>5 DEF Opened
<1>4. CASE ~IsNew(e)
  <2>1. journal' = journal
    BY <1>4 DEF Publish
  <2> QED
    BY <1>2, <1>4, <2>1 DEF Opened
<1> QED
  BY <1>3, <1>4

\* An opening with an id has been recorded.
LEMMA RecordedOpening ==
    ASSUME NEW e \in TrueEvents, e.type = "opening", e.id # 0
    PROVE  Opened
BY DEF TrueEvents, TruePlace, Opened

\* Nobody is thinking while a job delivers: it has committed before.
LEMMA DeliverySaid ==
    ASSUME GameFits, effects \in {"job", "recovery", "ending"},
           UNCHANGED <<phase, notices>>, effects' = effects,
           NEW m, m.type \in {"opening", "outcome", "round_start", "directive"}
    PROVE  SaysDue(Due, Due', m)
<1>1. Claims \cap Due' = Claims \cap Due
  BY DueIs, DueNext
<1>2. "thinking" \notin Claims \cap Due
  BY DueIs DEF Claimed, GameFits, PhaseFits
<1>3. "thinking" \notin Due' /\ Claims \cap Due' \subseteq Due
  BY <1>1, <1>2 DEF Claims
<1> QED
  BY <1>3, ClaimsKept

LEMMA DeliverSays ==
    ASSUME PlacesInv, RecordInv, GameFits, Deliver
    PROVE  \E m : Aloud(m)
<1> DEFINE e == Head(pendingDelivery)
           m == Recorded(e)
<1>1. /\ pendingDelivery # <<>> /\ effects \in {"job", "recovery", "ending"}
      /\ UNCHANGED <<phase, notices>> /\ effects' = effects
      /\ Publish("delivery", e)
      /\ pendingDelivery \in Seq(TrueEvents) /\ journal \in Seq(Entry) /\ Len(journal) \in Nat
  BY DEF Deliver, Delivering, PlacesInv, TypeOK, PublicationTypeOK
<1>2. /\ e \in TrueEvents /\ e = pendingDelivery[1] /\ 1 \in DOMAIN pendingDelivery /\ e \in Event
      /\ e.type \in {"opening", "outcome", "round_start", "directive"}
  <2>1. e \in TrueEvents /\ e = pendingDelivery[1] /\ 1 \in DOMAIN pendingDelivery
    BY <1>1
  <2> QED
    BY <2>1 DEF TrueEvents, RecordInv, QueuesAreSorted
<1> HIDE DEF e
<1>3. /\ m \in Event /\ Enqueue(m) /\ m.type = e.type
      /\ IsNew(e) => m.id = Len(journal) + 1
      /\ Opened => Opened'
      /\ Opened' => Opened \/ (e.type = "opening" /\ IsNew(e))
      /\ e.type = "opening" /\ IsNew(e) => Opened'
  BY <1>1, <1>2, OpenedByPublish, RecordedIs
<1> HIDE DEF m
<1>4. SaysDue(Due, Due', m)
  BY <1>1, <1>2, <1>3, DeliverySaid
<1>5. m.type = "opening" => Opened'
  <2>1. CASE e.type = "opening" /\ ~IsNew(e)
    <3>1. e.id # 0
      BY <2>1 DEF IsNew, PublicTypes
    <3> QED
      BY <1>2, <1>3, <2>1, <3>1, RecordedOpening
  <2> QED
    BY <1>3, <2>1
<1>6. OpeningPending => Opened' \/ OpeningPending'
  <2>1. CASE e.type = "opening"
    BY <1>3, <1>5, <2>1
  <2>2. ASSUME NEW i \in DOMAIN pendingDelivery, pendingDelivery[i].type = "opening",
               e.type # "opening"
        PROVE  OpeningPending'
    <3>1. pendingDelivery' = [pendingDelivery EXCEPT ![1] = Recorded(@)]
      BY DEF Deliver, Stamped
    <3>2. i # 1 /\ i \in DOMAIN pendingDelivery' /\ pendingDelivery'[i] = pendingDelivery[i]
      BY <1>2, <2>2, <3>1
    <3> QED
      BY <2>2, <3>2 DEF OpeningPending
  <2> QED
    BY <2>1, <2>2 DEF OpeningPending
<1>7. Aloud(m)
  <2>1. "opened" \in Due' => "opened" \in Due \/ (m.type = "opening" /\ m.id = Len(journal) + 1)
    BY <1>3, DueIs, DueNext
  <2>2. Known => Known'
    BY <1>3, <1>6 DEF Known
  <2>3. m.type = "opening" => Known'
    BY <1>5 DEF Known
  <2>4. m.type # "game_ended"
    BY <1>2, <1>3
  <2> QED
    BY <1>3, <1>4, <2>1, <2>2, <2>3, <2>4 DEF Aloud, Known
<1> QED
  BY <1>7

\* What has been delivered is popped, its opening in the journal.
LEMMA PopSays ==
    ASSUME PlacesInv, RecordInv, GameFits, Delivered \/ SkipPassed
    PROVE  Silently
<1> DEFINE e == pendingDelivery[1]
<1>1. /\ pendingDelivery # <<>> /\ pendingDelivery' = Tail(pendingDelivery)
      /\ UNCHANGED <<phase, notices, journal, socket>>
      /\ effects' = effects \/ (effects' = "free" /\ effects # "ending")
  BY DEF Delivered, SkipPassed, Delivering, Published, PopDelivered, record, GameFits,
         PublishingFits
<1>2. /\ pendingDelivery \in Seq(TrueEvents) /\ Head(pendingDelivery) = e /\ e \in TrueEvents
      /\ \A i \in DOMAIN pendingDelivery : i = 1 \/
            \E j \in DOMAIN Tail(pendingDelivery) : Tail(pendingDelivery)[j] = pendingDelivery[i]
  <2>1. pendingDelivery \in Seq(TrueEvents)
    BY DEF PlacesInv
  <2> QED
    BY <1>1, <2>1, Taken DEF IsSequence
<1>3. e.type = "opening" => Opened
  <2>1. CASE Delivered
    <3>1. publishing.event = Head(pendingDelivery) /\ publishing.by = "delivery"
      BY <2>1 DEF Delivered, Published, GameFits, PublishingFits
    <3>2. e.type = "opening" => e.id # 0
      BY <1>2, <3>1 DEF GameFits, PublishingFits, PublicTypes
    <3> QED
      BY <1>2, <3>2, RecordedOpening
  <2>2. CASE SkipPassed
    <3>1. e.id # 0
      BY <1>2, <2>2 DEF SkipPassed, Passed
    <3> QED
      BY <1>2, <3>1, RecordedOpening
  <2> QED
    BY <2>1, <2>2
<1>4. Opened' <=> Opened
  BY <1>1 DEF Opened
<1>5. OpeningPending => Opened \/ OpeningPending'
  BY <1>1, <1>2, <1>3 DEF OpeningPending
<1>6. Claims \cap Due' \subseteq Due
  <2>1. Claimed(phase, notices, effects') \subseteq Claimed(phase, notices, effects)
    BY <1>1, ClaimedUnderLock
  <2> QED
    BY <1>1, <2>1, DueIs, DueNext
<1> QED
  BY <1>1, <1>4, <1>5, <1>6, DueIs, DueNext DEF Silently, Known

\* Only the lock changes, and not from a shutdown's.
LEMMA LockSays ==
    ASSUME UNCHANGED <<phase, notices, pendingDelivery, journal, socket>>,
           phase \in BusyPhases /\ effects = "ending" => effects' = "ending"
    PROVE  Silently
<1>1. (Opened' <=> Opened) /\ (OpeningPending' <=> OpeningPending)
  BY DEF Opened, OpeningPending
<1>2. Claims \cap Due' \subseteq Due
  <2>1. Claimed(phase, notices, effects') \subseteq Claimed(phase, notices, effects)
    BY ClaimedUnderLock
  <2> QED
    BY <2>1, DueIs, DueNext
<1> QED
  BY <1>1, <1>2, DueIs, DueNext DEF Silently, Known

\* The event whose broadcast the deadline struck is sent again; nothing else is.
LEMMA AgainSays ==
    ASSUME PlacesInv, RecordInv, GameFits, DeadlineInside
    PROVE  Silently \/ \E m : Aloud(m)
<1>1. CASE publishing.event.id = 0 /\ LeaveDelivery /\ UNCHANGED <<journal, socket>>
  <2>1. UNCHANGED <<phase, notices, pendingDelivery>> /\ effects = "job"
    BY <1>1 DEF LeaveDelivery, DeadlineInside
  <2> QED
    BY <1>1, <2>1, LockSays
<1>2. CASE UNCHANGED <<journal, game>> /\ Enqueue(publishing.event)
  <2> DEFINE m == publishing.event
  <2>1. /\ UNCHANGED <<phase, notices, effects, pendingDelivery>> /\ effects = "job"
        /\ publishing.by = "delivery"
    BY <1>2 DEF DeadlineInside, game
  <2>2. m \in TrueEvents /\ m \in Event /\ pendingDelivery # <<>> /\ m = Head(pendingDelivery)
    BY <2>1 DEF PlacesInv, GameFits, PublishingFits, TrueEvents
  <2>3. 1 \in DOMAIN pendingDelivery /\ m = pendingDelivery[1]
    BY <2>2 DEF PlacesInv
  <2> HIDE DEF m
  <2>4. m.type \in {"opening", "outcome", "round_start", "directive"}
    BY <2>3 DEF RecordInv, QueuesAreSorted
  <2>5. SaysDue(Due, Due', m)
    BY <2>1, <2>4, DeliverySaid
  <2>6. (Opened' <=> Opened) /\ (OpeningPending' <=> OpeningPending)
    BY <1>2, <2>1 DEF Opened, OpeningPending
  <2>7. m.type = "opening" => OpeningPending
    BY <2>3 DEF OpeningPending
  <2>8. Aloud(m)
    BY <1>2, <2>2, <2>4, <2>5, <2>6, <2>7, DueIs, DueNext DEF Aloud, Known, m
  <2> QED
    BY <2>8
<1> QED
  BY <1>1, <1>2 DEF DeadlineInside

LEMMA DeliveriesSay ==
    ASSUME PlacesInv, RecordInv, GameFits, Deliveries
    PROVE  Silently \/ \E m : Aloud(m)
<1>1. CASE DeadlineBetween \/ DeliveryCut
  <2>1. /\ UNCHANGED <<phase, notices, pendingDelivery, journal, socket>>
        /\ effects = "job"
    BY <1>1 DEF DeadlineBetween, DeliveryCut, LeaveDelivery, Published, record, GameFits,
                PublishingFits
  <2> QED
    BY <2>1, LockSays
<1>2. CASE Recover
  <2>1. /\ UNCHANGED <<phase, notices, pendingDelivery, journal, socket>>
        /\ effects = "free"
    BY <1>2 DEF Recover, record
  <2> QED
    BY <2>1, LockSays
<1> QED
  BY <1>1, <1>2, DeliverSays, PopSays, AgainSays DEF Deliveries

LEMMA SendNoticeSays ==
    ASSUME PlacesInv, RecordInv, GameFits, SendNotice
    PROVE  \E m : Aloud(m)
<1> DEFINE e == Head(notices)
           m == Recorded(e)
<1>1. /\ notices # <<>> /\ Publish("notice", e) /\ pendingDelivery' = pendingDelivery
      /\ journal \in Seq(Entry) /\ Len(journal) \in Nat /\ notices \in Seq(Event)
      /\ phase \in Phases
  BY DEF SendNotice, RecordInv, RecordTypes
<1>2. e \in Event /\ e = notices[1] /\ 1 \in DOMAIN notices
  BY <1>1
<1>3. e.id = 0 /\ e.type \notin {"opening", "chat"}
  BY <1>2 DEF RecordInv, QueuesAreSorted, OtherTypes
<1>4. \/ /\ phase \in BusyPhases /\ notices = On /\ notices' = <<>> /\ phase' = phase
         /\ e.type = "thinking_on"
      \/ /\ phase \in {"turn", "paused"} /\ notices = Off /\ notices' = <<>> /\ phase' = phase
         /\ e.type = "thinking_off"
      \/ /\ phase = "paused" /\ notices = Both /\ notices' = Off /\ phase' = phase
         /\ e.type = "paused"
      \/ /\ phase = "ended" /\ notices = End /\ notices' = <<>> /\ phase' = phase
         /\ e.type = "game_ended"
  <2>1. \A t : Said(t, 0).type = t
    BY DEF Said
  <2> QED
    BY <1>1, <2>1, NoticeSaid DEF GameFits
<1> HIDE DEF e
<1>5. /\ m \in Event /\ Enqueue(m) /\ m.type = e.type
      /\ e.type = "game_ended" => m.id = Len(journal) + 1
      /\ Opened => Opened'
      /\ Opened' => Opened
  <2>1. /\ m \in Event /\ Enqueue(m) /\ (Opened => Opened')
        /\ Opened' => Opened \/ (e.type = "opening" /\ IsNew(e))
    BY <1>1, <1>2, OpenedByPublish
  <2>2. m.type = e.type /\ (IsNew(e) => m.id = Len(journal) + 1)
    BY <1>1, <1>2, RecordedIs
  <2>3. e.type = "game_ended" => IsNew(e)
    BY <1>3 DEF IsNew, PublicTypes
  <2> QED
    BY <1>3, <2>1, <2>2, <2>3
<1> HIDE DEF m
<1>6. SaysDue(Due, Due', m)
  <2>1. /\ Claims \cap Due = Claimed(phase, notices, effects)
        /\ Claims \cap Due' = Claimed(phase', notices', effects')
    BY DueIs, DueNext
  <2> QED
    BY <1>4, <1>5, <2>1, ClaimsSaid
<1>7. OpeningPending' <=> OpeningPending
  BY <1>1 DEF OpeningPending
<1>8. Aloud(m)
  BY <1>3, <1>5, <1>6, <1>7, DueIs, DueNext DEF Aloud, Known
<1> QED
  BY <1>8

LEMMA SendChatSays ==
    ASSUME PlacesInv, SendChat
    PROVE  \E m : Aloud(m)
<1> DEFINE e == Said("chat", 0)
           m == Recorded(e)
<1>1. /\ UNCHANGED <<phase, notices, effects, pendingDelivery>> /\ Publish("chat", e)
      /\ journal \in Seq(Entry) /\ Len(journal) \in Nat
  BY DEF SendChat, game, PlacesInv, TypeOK, PublicationTypeOK
<1>2. e \in Event /\ e.type = "chat"
  BY DEF Said, Event, PublicTypes
<1> HIDE DEF e
<1>3. /\ m \in Event /\ Enqueue(m) /\ m.type = "chat" /\ (Opened' <=> Opened)
  BY <1>1, <1>2, OpenedByPublish, RecordedIs
<1> HIDE DEF m
<1>4. Claims \cap Due' \subseteq Due
  BY <1>1, DueIs, DueNext
<1>5. SaysDue(Due, Due', m)
  BY <1>3, <1>4, ClaimsKept
<1>6. OpeningPending' <=> OpeningPending
  BY <1>1 DEF OpeningPending
<1>7. Aloud(m)
  BY <1>3, <1>5, <1>6, DueIs, DueNext DEF Aloud, Known
<1> QED
  BY <1>7

LEMMA NoticesSay ==
    ASSUME PlacesInv, RecordInv, GameFits, Notices
    PROVE  Silently \/ \E m : Aloud(m)
<1>1. CASE NoticeSent
  <2>1. /\ UNCHANGED <<phase, notices, pendingDelivery, journal, socket>>
        /\ phase \in BusyPhases => effects # "ending"
    BY <1>1 DEF NoticeSent, Published, GameFits, PublishingFits, BusyPhases
  <2> QED
    BY <2>1, LockSays
<1>2. CASE ChatSent
  <2>1. UNCHANGED <<phase, notices, effects, pendingDelivery, journal, socket>>
    BY <1>2 DEF ChatSent, Published, game
  <2> QED
    BY <2>1, LockSays
<1> QED
  BY <1>1, <1>2, SendNoticeSays, SendChatSays DEF Notices

\* The game decides; what that changes on the page is said later.
LEMMA GameSays ==
    ASSUME RecordInv, GameFits, Game
    PROVE  Silently
<1>1. UNCHANGED <<journal, socket>>
  BY DEF Game, StartGame, OpenGame, LaunchRound, CommitRound, Commit, PauseRound, RetryRound,
         BeginEnd, FinishEnd, record
<1>2. Opened' <=> Opened
  BY <1>1 DEF Opened
<1>3. OpeningPending => OpeningPending'
  <2>1. CASE UNCHANGED pendingDelivery
    BY <2>1 DEF OpeningPending
  <2>2. ASSUME NEW more, more \in Seq(Event), pendingDelivery' = pendingDelivery \o more
        PROVE  OpeningPending => OpeningPending'
    <3>1. /\ DOMAIN pendingDelivery \subseteq DOMAIN pendingDelivery'
          /\ \A i \in DOMAIN pendingDelivery : pendingDelivery'[i] = pendingDelivery[i]
      <4>1. pendingDelivery \in Seq(Event)
        BY DEF RecordInv, RecordTypes
      <4> QED
        BY <2>2, <4>1
    <3> QED
      BY <3>1 DEF OpeningPending
  <2>3. CASE OpenGame \/ CommitRound
    BY <2>2, <2>3, CommitBrings
  <2> QED
    BY <2>1, <2>3 DEF Game, StartGame, LaunchRound, RetryRound, Launch, PauseRound, BeginEnd,
                      FinishEnd
<1>4. Claimed(phase', notices', effects') \subseteq Claimed(phase, notices, effects)
  <2>1. CASE StartGame \/ LaunchRound \/ RetryRound
    <3>1. phase' \in BusyPhases /\ notices' = On /\ phase \in Phases \ {"ended"}
      BY <2>1 DEF StartGame, LaunchRound, RetryRound, Launch, BusyPhases, On, Phases
    <3> QED
      BY <3>1, ClaimedByGame
  <2>2. CASE OpenGame \/ CommitRound
    <3>1. phase \in BusyPhases /\ notices = <<>> /\ phase' = "turn" /\ notices' = Off
      BY <2>2 DEF OpenGame, CommitRound, Commit, BusyPhases, Off
    <3> QED
      BY <3>1, ClaimedByGame
  <2>3. CASE PauseRound
    <3>1. phase \in BusyPhases /\ phase' = "paused" /\ notices' = Both
      BY <2>3 DEF PauseRound, BusyPhases, Both
    <3> QED
      BY <3>1, ClaimedByGame
  <2>4. CASE BeginEnd
    <3>1. UNCHANGED <<phase, notices>> /\ effects' = "ending"
      BY <2>4 DEF BeginEnd
    <3> QED
      BY <3>1, ClaimedUnderLock
  <2>5. CASE FinishEnd
    <3>1. phase' = "ended" /\ notices' = End
      BY <2>5 DEF FinishEnd, End
    <3> QED
      BY <3>1, ClaimedByGame
  <2> QED
    BY <2>1, <2>2, <2>3, <2>4, <2>5 DEF Game
<1> QED
  BY <1>1, <1>2, <1>3, <1>4, DueIs, DueNext DEF Silently, Known

-----------------------------------------------------------------------------
(* Messages join those on their way *)

\* Where the messages of a concatenation and of a longer queue are.
LEMMA Joined ==
    ASSUME NEW S, NEW h \in Seq(S), NEW t \in Seq(S)
    PROVE  /\ h \o t \in Seq(S) /\ Len(h) \in Nat /\ Len(t) \in Nat
           /\ DOMAIN (h \o t) = 1..(Len(h) + Len(t))
           /\ \A i \in 1..Len(h) : (h \o t)[i] = h[i]
           /\ \A j \in 1..Len(t) : (h \o t)[Len(h) + j] = t[j]
<1>1. /\ h \o t \in Seq(S) /\ Len(h \o t) = Len(h) + Len(t)
      /\ Len(h) \in Nat /\ Len(t) \in Nat
      /\ \A i \in 1..(Len(h) + Len(t)) : (h \o t)[i] = IF i <= Len(h) THEN h[i] ELSE t[i - Len(h)]
  BY ConcatProperties
<1>2. \A i \in 1..Len(h) : i \in 1..(Len(h) + Len(t)) /\ i <= Len(h)
  BY <1>1
<1>3. \A j \in 1..Len(t) : /\ Len(h) + j \in 1..(Len(h) + Len(t)) /\ ~(Len(h) + j <= Len(h))
                          /\ (Len(h) + j) - Len(h) = j
  BY <1>1
<1>4. DOMAIN (h \o t) = 1..(Len(h) + Len(t))
  BY <1>1
<1> QED
  BY <1>1, <1>2, <1>3, <1>4

LEMMA MoreAppended ==
    ASSUME NEW S, NEW t \in Seq(S), NEW m \in S
    PROVE  More(t, Append(t, m), m)
<1>1. /\ Len(t) \in Nat /\ DOMAIN t = 1..Len(t) /\ DOMAIN Append(t, m) = 1..(Len(t) + 1)
      /\ Append(t, m)[Len(t) + 1] = m /\ \A i \in 1..Len(t) : Append(t, m)[i] = t[i]
  OBVIOUS
<1> QED
  BY <1>1 DEF More

\* A message that joins the queue of a page that holds some back joins them all.
LEMMA MoreJoined ==
    ASSUME NEW S, NEW h \in Seq(S), NEW t \in Seq(S), NEW m \in S
    PROVE  More(h \o t, h \o Append(t, m), m)
<1> DEFINE u == Append(t, m)
           N == Len(h)
           M == Len(t)
<1>1. /\ u \in Seq(S) /\ Len(u) = M + 1 /\ M \in Nat /\ N \in Nat
      /\ \A i \in 1..M : u[i] = t[i]
      /\ u[M + 1] = m
  OBVIOUS
<1>2. /\ DOMAIN (h \o t) = 1..(N + M)
      /\ \A i \in 1..N : (h \o t)[i] = h[i]
      /\ \A j \in 1..M : (h \o t)[N + j] = t[j]
  BY Joined
<1> HIDE DEF u
<1>3. /\ DOMAIN (h \o u) = 1..(N + Len(u))
      /\ \A i \in 1..N : (h \o u)[i] = h[i]
      /\ \A j \in 1..Len(u) : (h \o u)[N + j] = u[j]
  <2>1. u \in Seq(S)
    BY <1>1
  <2> QED
    BY <2>1, Joined
<1> HIDE DEF N, M
<1>4. ASSUME NEW i \in 1..(N + M)
      PROVE  (h \o u)[i] = (h \o t)[i]
  <2>1. CASE i <= N
    <3>1. i \in 1..N
      BY <1>1, <2>1
    <3> QED
      BY <1>2, <1>3, <3>1
  <2>2. CASE ~(i <= N)
    <3>1. PICK j \in 1..M : i = N + j
      <4>1. i - N \in 1..M /\ i = N + (i - N)
        BY <1>1, <2>2
      <4> QED
        BY <4>1
    <3>2. j \in 1..Len(u)
      BY <1>1, <3>1
    <3> QED
      BY <1>1, <1>2, <1>3, <3>1, <3>2
  <2> QED
    BY <2>1, <2>2
<1>5. (h \o u)[(N + M) + 1] = m
  <2>1. M + 1 \in 1..Len(u) /\ N + (M + 1) = (N + M) + 1
    BY <1>1
  <2> QED
    BY <1>1, <1>3, <2>1
<1>6. DOMAIN (h \o u) = 1..((N + M) + 1) /\ N + M \in Nat
  BY <1>1, <1>3
<1> QED
  BY <1>2, <1>4, <1>5, <1>6 DEF More, u

\* A message leaves the queue of a page that holds some back.
LEMMA LessJoined ==
    ASSUME NEW S, NEW h \in Seq(S), NEW t \in Seq(S), t # <<>>
    PROVE  /\ Less(h \o t, h \o Tail(t), Len(h) + 1)
           /\ (h \o t)[Len(h) + 1] = Head(t) /\ Head(t) \in S
<1> DEFINE u == Tail(t)
           N == Len(h)
           M == Len(t)
<1>1. /\ u \in Seq(S) /\ Len(u) = M - 1 /\ M \in Nat \ {0} /\ N \in Nat
      /\ \A i \in 1..(M - 1) : u[i] = t[i + 1]
      /\ Head(t) = t[1] /\ Head(t) \in S
  OBVIOUS
<1>2. /\ DOMAIN (h \o t) = 1..(N + M)
      /\ \A i \in 1..N : (h \o t)[i] = h[i]
      /\ \A j \in 1..M : (h \o t)[N + j] = t[j]
  BY Joined
<1> HIDE DEF u
<1>3. /\ DOMAIN (h \o u) = 1..(N + Len(u))
      /\ \A i \in 1..N : (h \o u)[i] = h[i]
      /\ \A j \in 1..Len(u) : (h \o u)[N + j] = u[j]
  <2>1. u \in Seq(S)
    BY <1>1
  <2> QED
    BY <2>1, Joined
<1> HIDE DEF N, M
<1>4. ASSUME NEW i \in 1..((N + M) - 1)
      PROVE  (h \o u)[i] = IF i < N + 1 THEN (h \o t)[i] ELSE (h \o t)[i + 1]
  <2>1. CASE i < N + 1
    <3>1. i \in 1..N
      BY <1>1, <2>1
    <3> QED
      BY <1>2, <1>3, <2>1, <3>1
  <2>2. CASE ~(i < N + 1)
    <3>1. PICK j \in 1..(M - 1) : i = N + j
      <4>1. i - N \in 1..(M - 1) /\ i = N + (i - N)
        BY <1>1, <2>2
      <4> QED
        BY <4>1
    <3>2. j \in 1..Len(u) /\ j + 1 \in 1..M /\ N + (j + 1) = (N + j) + 1
      BY <1>1, <3>1
    <3>3. (h \o u)[N + j] = t[j + 1] /\ (h \o t)[(N + j) + 1] = t[j + 1]
      BY <1>1, <1>2, <1>3, <3>1, <3>2
    <3> QED
      BY <2>2, <3>1, <3>3
  <2> QED
    BY <2>1, <2>2
<1>5. /\ DOMAIN (h \o u) = 1..((N + M) - 1) /\ N + M \in Nat \ {0} /\ N + 1 \in 1..(N + M)
      /\ 1 \in 1..M
  BY <1>1, <1>3
<1>6. (h \o t)[N + 1] = Head(t)
  BY <1>1, <1>2, <1>5
<1>7. Less(h \o t, h \o u, N + 1)
  BY <1>2, <1>4, <1>5 DEF Less
<1> QED
  BY <1>1, <1>6, <1>7 DEF u, N

LEMMA LessTaken ==
    ASSUME NEW S, NEW t \in Seq(S), t # <<>>
    PROVE  Less(t, Tail(t), 1) /\ t[1] = Head(t)
<1>1. /\ Len(t) \in Nat \ {0} /\ DOMAIN t = 1..Len(t) /\ DOMAIN Tail(t) = 1..(Len(t) - 1)
      /\ \A i \in 1..(Len(t) - 1) : Tail(t)[i] = t[i + 1]
      /\ t[1] = Head(t) /\ 1 \in 1..Len(t)
  OBVIOUS
<1>2. \A i \in 1..(Len(t) - 1) : ~(i < 1)
  BY <1>1
<1> QED
  BY <1>1, <1>2 DEF Less

-----------------------------------------------------------------------------
(* The view across the steps of the game *)

LEMMA QueuesAre ==
    ASSUME PlacesInv
    PROVE  /\ held \in Seq(TrueMessages) /\ held \in Seq(TrueEvents)
           /\ stream \in Seq(TrueMessages)
           /\ journal \in Seq(Entry) /\ Len(journal) \in Nat
           /\ screen \in Screen /\ screen.cursor \in 0..Len(journal)
           /\ snapshot \in Snapshot /\ snapshot.latest \in Nat
           /\ conn \in {"closed", "open", "live", "closing"} /\ replaying \in BOOLEAN
<1>1. TrueEvents \subseteq TrueMessages
  BY DEF TrueMessages
<1>2. Seq(TrueEvents) \subseteq Seq(TrueMessages)
  BY <1>1, SeqMonotonic
<1>3. screen.cursor \in Nat /\ screen.cursor <= Len(journal)
  BY DEF PlacesInv, TypeOK, Screen
<1>4. Len(journal) \in Nat /\ snapshot \in Snapshot
  BY DEF PlacesInv, TypeOK, PublicationTypeOK
<1>5. snapshot.latest \in Nat
  BY <1>4 DEF Snapshot
<1> QED
  BY <1>2, <1>3, <1>4, <1>5 DEF PlacesInv, TypeOK, PublicationTypeOK

\* The first message of a socket that authenticates is its snapshot.
LEMMA LatestIs ==
    ASSUME PlacesInv, HeldInv, attached
    PROVE  /\ Latest \in Snapshot /\ Latest.latest \in 0..Len(journal)
           /\ conn = "open" => stream # <<>>
<1>1. CASE conn = "open"
  <2>1. stream # <<>> /\ stream[1] = Head(stream) /\ Head(stream) \in TrueMessages
        /\ Head(stream).type = "auth_ok"
    BY <1>1, QueuesAre DEF HeldInv
  <2> QED
    BY <1>1, <2>1, KindsOfMessages, QueuesAre DEF Latest
<1>2. CASE conn # "open"
  BY <1>2, QueuesAre DEF Latest, HeldInv
<1> QED
  BY <1>1, <1>2

LEMMA ComingIs ==
    ASSUME PlacesInv, HeldInv, attached
    PROVE  /\ Coming \in Seq(TrueMessages) /\ Numbered(Coming)
           /\ Reach \in 0..Len(journal)
           /\ \A j \in DOMAIN Coming : Coming[j].type \in GameEvents => Coming[j].id \in 0..Len(journal)
<1>1. Coming \in Seq(TrueMessages)
  BY LatestIs, QueuesAre, ConcatProperties DEF Coming
<1>2. ASSUME NEW j \in DOMAIN Coming, Coming[j].type \in GameEvents
      PROVE  Coming[j].id \in 0..Len(journal)
  <2>1. Coming[j] \in TrueMessages
    BY <1>1
  <2>2. Coming[j] \in TrueEvents
    BY <1>2, <2>1, KindsOfMessages, QueuesAre
  <2>3. \A e \in TrueEvents : e.id \in 0..Len(journal)
    BY QueuesAre DEF TrueEvents, TruePlace, Event
  <2> QED
    BY <2>2, <2>3
<1>3. Reach \in 0..Len(journal)
  BY LatestIs, QueuesAre DEF Reach, Further
<1> QED
  BY <1>1, <1>2, <1>3 DEF Numbered

\* One more message in the queue of the socket is one more on its way.
LEMMA ComingGrows ==
    ASSUME PlacesInv, HeldInv, attached, NEW m, stream' = Append(stream, m),
           UNCHANGED <<conn, screen, replaying, snapshot, held>>
    PROVE  /\ Base' = Base /\ Reach' = Reach /\ More(Coming, Coming', m)
<1> DEFINE S == TrueMessages \cup {m}
<1>1. stream \in Seq(S) /\ held \in Seq(S) /\ m \in S
  <2>1. TrueMessages \subseteq S /\ m \in S
    OBVIOUS
  <2> HIDE DEF S
  <2>2. Seq(TrueMessages) \subseteq Seq(S)
    BY <2>1, SeqMonotonic
  <2> QED
    BY <2>1, <2>2, QueuesAre
<1> HIDE DEF S
<1>2. CASE conn = "open"
  <2>1. /\ stream # <<>> /\ Head(stream') = Head(stream)
        /\ Tail(stream') = Append(Tail(stream), m) /\ Tail(stream) \in Seq(S)
    <3>1. stream # <<>>
      BY <1>2, LatestIs
    <3>2. \A t \in Seq(S) : t # <<>> =>
             /\ Head(Append(t, m)) = Head(t) /\ Tail(Append(t, m)) = Append(Tail(t), m)
             /\ Tail(t) \in Seq(S)
      BY <1>1
    <3> QED
      BY <1>1, <3>1, <3>2
  <2>2. Latest' = Latest
    BY <1>2, <2>1 DEF Latest
  <2>3. Coming = Tail(stream) /\ Coming' = Append(Tail(stream), m)
    BY <1>2, <2>1 DEF Coming
  <2> QED
    BY <1>1, <1>2, <2>1, <2>2, <2>3, MoreAppended DEF Base, Reach, Restores
<1>3. CASE conn # "open"
  <2>1. Latest' = Latest
    BY <1>3 DEF Latest
  <2>2. Coming = held \o stream /\ Coming' = held \o Append(stream, m)
    BY <1>3 DEF Coming
  <2> QED
    BY <1>1, <1>3, <2>1, <2>2, MoreJoined DEF Base, Reach, Restores
<1> QED
  BY <1>2, <1>3

\* What the socket's queue may become when the server sends m.
LEMMA HeldAfterSending ==
    ASSUME PlacesInv, HeldInv, NEW m, Enqueue(m), m.type # "auth_ok", Grows,
           UNCHANGED <<conn, replaying, snapshot, held>>
    PROVE  HeldInv'
<1>1. Len(journal) \in Nat /\ Len(journal') \in Nat /\ Len(journal) <= Len(journal')
      /\ snapshot.latest \in Nat
  BY QueuesAre, PlacesStay
<1>2. snapshot'.latest <= Len(journal')
  BY <1>1 DEF HeldInv
<1>3. CASE attached' /\ attached /\ stream' = Append(stream, m)
  <2>1. /\ DOMAIN stream \subseteq Nat
        /\ \A i \in DOMAIN stream : i \in DOMAIN stream' /\ stream'[i] = stream[i]
        /\ \A i \in DOMAIN stream' : i \in DOMAIN stream \/ stream'[i] = m
        /\ stream # <<>> => 1 \in DOMAIN stream
        /\ stream' # <<>>
    <3> DEFINE S == TrueMessages \cup {m}
    <3>1. TrueMessages \subseteq S /\ m \in S
      OBVIOUS
    <3> HIDE DEF S
    <3>2. stream \in Seq(S)
      BY <3>1, SeqMonotonic, QueuesAre
    <3> QED
      BY <1>3, <3>1, <3>2
  <2> QED
    BY <1>2, <1>3, <2>1 DEF HeldInv
<1>4. CASE ~attached' /\ stream' = <<>>
  BY <1>2, <1>4 DEF HeldInv
<1>5. CASE ~attached /\ UNCHANGED socket
  BY <1>2, <1>4, <1>5 DEF HeldInv, socket
<1> QED
  BY <1>3, <1>4, <1>5 DEF Enqueue

LEMMA AloudKeeps ==
    ASSUME PlacesInv, HeldInv, ViewInv, Grows, UNCHANGED client, NEW m, Aloud(m)
    PROVE  HeldInv' /\ ViewInv'
<1>1. UNCHANGED <<conn, screen, replaying, snapshot, held, outrun>>
  BY DEF client, tab
<1>2. m \in Event /\ m.type # "auth_ok" /\ Enqueue(m)
  BY DEF Aloud, Event, PublicTypes, OtherTypes
<1>3. HeldInv'
  BY <1>1, <1>2, HeldAfterSending
<1>4. ASSUME attached', conn' = "live" => ~outrun'
      PROVE  Tells(Due', Base', Reach', Coming')
  <2>1. attached /\ stream' = Append(stream, m)
    BY <1>2, <1>4 DEF Enqueue, socket
  <2>2. Base' = Base /\ Reach' = Reach /\ More(Coming, Coming', m)
    BY <1>1, <2>1, ComingGrows
  <2>3. Tells(Due, Base, Reach, Coming)
    BY <1>1, <1>4, <2>1 DEF ViewInv
  <2>4. m.id = Len(journal) + 1 => IsNewest(Reach, Coming, m)
    BY <2>1, ComingIs, QueuesAre DEF IsNewest
  <2>5. Tells(Due', Base, Reach, Coming')
    BY <2>2, <2>3, <2>4, SaidTells DEF Aloud
  <2> QED
    BY <2>2, <2>5
<1> QED
  BY <1>3, <1>4 DEF ViewInv

LEMMA SilentlyKeeps ==
    ASSUME HeldInv, ViewInv, UNCHANGED client, Silently
    PROVE  HeldInv' /\ ViewInv'
<1>1. UNCHANGED <<conn, screen, replaying, snapshot, held, outrun, attached, stream, journal>>
  BY DEF client, tab, Silently, socket
<1>2. HeldInv'
  BY <1>1 DEF HeldInv
<1>3. Base' = Base /\ Reach' = Reach /\ Coming' = Coming
  BY <1>1 DEF Base, Reach, Coming, Restores, Latest
<1>4. ASSUME attached', conn' = "live" => ~outrun'
      PROVE  Tells(Due', Base', Reach', Coming')
  <2>1. Tells(Due, Base, Reach, Coming)
    BY <1>1, <1>4 DEF ViewInv
  <2>2. Tells(Due', Base, Reach, Coming)
    BY <2>1, SilentTells DEF Silently
  <2> QED
    BY <1>3, <2>2
<1> QED
  BY <1>2, <1>4 DEF ViewInv

LEMMA ElsewhereKeepsViews ==
    ASSUME PlacesInv, RecordInv, GameFits, HeldInv, ViewInv, Elsewhere
    PROVE  HeldInv' /\ ViewInv'
<1>1. UNCHANGED client /\ (Deliveries \/ Notices \/ Game)
  BY DEF Elsewhere, PublicationNext
<1>2. Grows
  BY <1>1, DeliveriesPlaced, NoticesPlaced, GamePlaced
<1>3. Silently \/ \E m : Aloud(m)
  BY <1>1, DeliveriesSay, NoticesSay, GameSays
<1> QED
  BY <1>1, <1>2, <1>3, AloudKeeps, SilentlyKeeps

-----------------------------------------------------------------------------
(* The opening is shown only when there is one *)

LEMMA NothingTold == ~OpeningTold(<<>>)
BY DEF OpeningTold

LEMMA ToldMore ==
    ASSUME NEW S, NEW q \in Seq(S), NEW m, OpeningTold(Append(q, m))
    PROVE  OpeningTold(q) \/ TellsOpening(m)
<1> DEFINE T == S \cup {m}
<1>1. S \subseteq T /\ m \in T
  OBVIOUS
<1> HIDE DEF T
<1>2. q \in Seq(T)
  BY <1>1, SeqMonotonic
<1>3. \A i \in DOMAIN Append(q, m) : Append(q, m)[i] = m \/ (i \in DOMAIN q /\ Append(q, m)[i] = q[i])
  BY <1>1, <1>2
<1> QED
  BY <1>3 DEF OpeningTold

LEMMA ToldLess ==
    ASSUME NEW S, NEW q \in Seq(S), q # <<>>
    PROVE  /\ OpeningTold(Tail(q)) => OpeningTold(q)
           /\ TellsOpening(Head(q)) => OpeningTold(q)
<1>1. \A i \in DOMAIN Tail(q) : i + 1 \in DOMAIN q /\ Tail(q)[i] = q[i + 1]
  OBVIOUS
<1>2. 1 \in DOMAIN q /\ Head(q) = q[1]
  OBVIOUS
<1> QED
  BY <1>1, <1>2 DEF OpeningTold

LEMMA HandledOpening ==
    ASSUME NEW s \in Screen, NEW e, e.id \in Nat, e.type # "opening"
    PROVE  Handle(s, e, FALSE).view.opening = s.view.opening
<1>1. CASE e.id # 0 /\ e.id <= s.cursor
  BY <1>1 DEF Handle
<1>2. CASE ~(e.id # 0 /\ e.id <= s.cursor)
  <2>1. Handle(s, e, FALSE).view = EventView(s.view, e, FALSE)
    BY <1>2 DEF Handle
  <2>2. EventView(s.view, e, FALSE).opening = (s.view.opening \/ e.type = "opening")
    BY EventShows DEF Screen, Claims
  <2>3. s.view.opening \in BOOLEAN
    BY DEF Screen, View
  <2> QED
    BY <2>1, <2>2, <2>3
<1> QED
  BY <1>1, <1>2

LEMMA AllHandledOpening ==
    ASSUME NEW s \in Screen, NEW h, Len(h) \in Nat, DOMAIN h = 1..Len(h),
           \A n \in 1..Len(h) : h[n].id \in Nat, ~OpeningTold(h)
    PROVE  HandleAll(s, h, FALSE).view.opening = s.view.opening
<1> DEFINE N == Len(h)
<1>1. PICK after \in [0..N -> Screen] :
         /\ after[0] = s
         /\ \A n \in 1..N : after[n] = Step(after[n - 1], h[n], FALSE)
         /\ HandleAll(s, h, FALSE) = after[N]
  BY AllAreHandled
<1>2. N \in Nat /\ DOMAIN h = 1..N /\ \A n \in 1..N : h[n].id \in Nat
  OBVIOUS
<1> HIDE DEF N
<1> DEFINE same == {n \in Nat : n \in 0..N => after[n].view.opening = s.view.opening}
<1>3. 0 \in same
  BY <1>1
<1>4. ASSUME NEW n \in same
      PROVE  n + 1 \in same
  <2>1. CASE n + 1 \in 0..N
    <3>1. n \in Nat /\ n \in 0..N /\ n + 1 \in 1..N /\ (n + 1) - 1 = n
      BY <1>2, <2>1
    <3>2. /\ after[n] \in Screen /\ h[n + 1].id \in Nat
          /\ after[n + 1] = Handle(after[n], h[n + 1], FALSE)
          /\ after[n].view.opening = s.view.opening
      BY <1>1, <1>2, <1>4, <3>1 DEF Step
    <3>3. h[n + 1].type # "opening"
      BY <1>2, <3>1 DEF OpeningTold, TellsOpening
    <3>4. after[n + 1].view.opening = after[n].view.opening
      <4> HIDE DEF same
      <4>1. ASSUME NEW t \in Screen, NEW e, e.id \in Nat, e.type # "opening"
            PROVE  Handle(t, e, FALSE).view.opening = t.view.opening
        BY <4>1, HandledOpening
      <4>2. Handle(after[n], h[n + 1], FALSE).view.opening = after[n].view.opening
        BY <3>2, <3>3, <4>1
      <4> QED
        BY <3>2, <4>2
    <3>5. after[n + 1].view.opening = s.view.opening
      <4> HIDE DEF same
      <4> QED
        BY <3>2, <3>4
    <3>6. n + 1 \in Nat
      BY <3>1
    <3> QED
      BY <3>5, <3>6
  <2>2. CASE n + 1 \notin 0..N
    BY <2>2
  <2> QED
    BY <2>1, <2>2
<1>5. N \in same
  <2> HIDE DEF same
  <2>1. same \in SUBSET Nat
    BY DEF same
  <2>2. \A n \in Nat : n \in same
    BY <1>3, <1>4, <2>1, Counting
  <2> QED
    BY <1>2, <2>2
<1>6. N \in 0..N
  BY <1>2
<1> QED
  BY <1>1, <1>5, <1>6

LEMMA FinishOpening ==
    ASSUME PlacesInv, NEW s \in Screen, Finish(s).view.opening
    PROVE  s.view.opening \/ snapshot.opened \/ OpeningTold(held)
<1> DEFINE fresh == [s EXCEPT !.view = ApplySnapshot(@, snapshot)]
<1>1. fresh \in Screen
  BY SnapshotApplied DEF PlacesInv, TypeOK
<1>2. fresh.view.opening => s.view.opening \/ snapshot.opened
  <2>1. fresh.view = ApplySnapshot(s.view, snapshot)
    BY DEF Screen
  <2>2. ApplySnapshot(s.view, snapshot).opening = (s.view.opening \/ snapshot.opened)
    BY DEF ApplySnapshot
  <2> QED
    BY <2>1, <2>2
<1>3. HandleAll(fresh, held, FALSE).view.opening
  BY DEF Finish
<1> HIDE DEF fresh
<1>4. /\ Len(held) \in Nat /\ DOMAIN held = 1..Len(held)
      /\ \A n \in 1..Len(held) : held[n].id \in Nat
  BY HeldIsTrue, QueuesAre
<1> QED
  BY <1>1, <1>2, <1>3, <1>4, AllHandledOpening

LEMMA SendingKnown ==
    ASSUME PlacesInv, KnownInv, Known => Known', NEW m, Enqueue(m), TellsOpening(m) => Known',
           UNCHANGED <<screen, snapshot, held>>
    PROVE  KnownInv'
<1>1. OpeningTold(stream') => OpeningTold(stream) \/ TellsOpening(m)
  <2>1. CASE stream' = Append(stream, m)
    BY <2>1, ToldMore, QueuesAre
  <2>2. CASE stream' = stream
    BY <2>2
  <2>3. CASE stream' = <<>>
    BY <2>3, NothingTold
  <2> QED
    BY <2>1, <2>2, <2>3 DEF Enqueue, socket
<1> QED
  BY <1>1 DEF KnownInv

\* Nothing is shown, held back or on its way that the game does not bear out.
ViewsInv == HeldInv /\ KnownInv /\ ViewInv

LEMMA ElsewhereViews ==
    ASSUME PlacesInv, RecordInv, GameFits, ViewsInv, Elsewhere
    PROVE  ViewsInv'
<1>1. HeldInv' /\ ViewInv'
  BY ElsewhereKeepsViews DEF ViewsInv
<1>2. UNCHANGED <<screen, snapshot, held>>
  BY DEF Elsewhere, client, tab
<1>3. CASE Silently
  <2>1. stream' = stream /\ (Known => Known')
    BY <1>3 DEF Silently, socket
  <2> QED
    BY <1>1, <1>2, <2>1 DEF ViewsInv, KnownInv
<1>4. ASSUME NEW m, Aloud(m)
      PROVE  KnownInv'
  <2>1. Enqueue(m) /\ (Known => Known') /\ (m.type = "opening" => Known') /\ m.type # "auth_ok"
    BY <1>4 DEF Aloud, Event, PublicTypes, OtherTypes
  <2> QED
    BY <1>2, <2>1, SendingKnown DEF ViewsInv, TellsOpening
<1>5. Silently \/ \E m : Aloud(m)
  BY DeliveriesSay, NoticesSay, GameSays DEF Elsewhere, PublicationNext
<1> QED
  BY <1>1, <1>3, <1>4, <1>5 DEF ViewsInv

-----------------------------------------------------------------------------
(* The view across the steps of the server *)

LEMMA GameStays ==
    ASSUME UNCHANGED <<game, record>>
    PROVE  /\ Due' = Due /\ (Known' <=> Known) /\ journal' = journal
           /\ phase' = phase /\ Opened' = Opened
<1>1. UNCHANGED <<phase, notices, effects, journal, pendingDelivery>>
  BY DEF game, record
<1>2. Opened' = Opened /\ OpeningPending' = OpeningPending
  BY <1>1 DEF Opened, OpeningPending
<1> QED
  BY <1>1, <1>2 DEF Due, Known

\* A snapshot tells all that is due of it.
LEMMA SnapshotTells ==
    ASSUME PlacesInv, NEW v, v.opening \in BOOLEAN
    PROVE  Tells(Due, ApplySnapshot(v, TakeSnapshot), Len(journal), <<>>)
<1> DEFINE w == ApplySnapshot(v, TakeSnapshot)
<1>1. /\ w.thinking = (phase \in {"preparing", "thinking"}) /\ w.retry = (phase = "paused")
      /\ w.ended = (phase = "ended")
      /\ Opened => w.opening
  <2>1. TakeSnapshot.phase = phase /\ (Opened => TakeSnapshot.opened)
    BY DEF TakeSnapshot
  <2> QED
    BY <2>1 DEF ApplySnapshot
<1> HIDE DEF w
<1>2. Claimed(phase, notices, effects) \subseteq Shows(w)
  BY <1>1 DEF Claimed, Shows, BusyPhases
<1>3. ASSUME NEW n \in Claims, n \in Due
      PROVE  WillBe(n, w, <<>>)
  BY <1>2, <1>3, DueIs DEF WillBe
<1>4. "opened" \in Due => w.opening
  BY <1>1, DueIs
<1>5. EndIsNews(Len(journal), <<>>)
  BY DEF EndIsNews
<1> QED
  BY <1>3, <1>4, <1>5 DEF Tells, w

LEMMA AuthenticateViews ==
    ASSUME PlacesInv, ViewsInv, Authenticate
    PROVE  ViewsInv'
<1>1. /\ conn = "closed" /\ conn' = "open" /\ attached' = TRUE /\ stream' = <<TakeSnapshot>>
      /\ UNCHANGED <<game, record, screen, replaying, snapshot, held, outrun>>
  BY DEF Authenticate
<1>2. /\ Due' = Due /\ (Known' <=> Known) /\ journal' = journal
  BY <1>1, GameStays
<1>3. /\ Head(stream') = TakeSnapshot /\ Tail(stream') = <<>> /\ DOMAIN stream' = {1}
      /\ stream'[1] = TakeSnapshot /\ stream' # <<>>
  BY <1>1
<1>4. /\ TakeSnapshot.type = "auth_ok" /\ TakeSnapshot.latest = Len(journal)
      /\ TakeSnapshot.opened <=> Known
  BY DEF TakeSnapshot, Known
<1>5. HeldInv'
  BY <1>1, <1>2, <1>3, <1>4 DEF ViewsInv, HeldInv
<1>6. KnownInv'
  <2>1. TellsOpening(TakeSnapshot) => Known
    BY <1>4 DEF TellsOpening
  <2>2. OpeningTold(stream') => Known
    BY <1>3, <2>1 DEF OpeningTold
  <2> QED
    BY <1>1, <1>2, <2>2 DEF ViewsInv, KnownInv
<1>7. Base' = ApplySnapshot(screen.view, TakeSnapshot) /\ Reach' = Len(journal) /\ Coming' = <<>>
  <2>1. Latest' = TakeSnapshot /\ Restores'
    BY <1>1, <1>3 DEF Latest, Restores
  <2>2. Base' = ApplySnapshot(screen.view, TakeSnapshot) /\ Coming' = <<>>
    BY <1>1, <1>3, <2>1 DEF Base, Coming
  <2>3. Reach' = Further(screen.cursor, Len(journal))
    BY <1>1, <1>4, <2>1 DEF Reach
  <2>4. screen.cursor \in Nat /\ screen.cursor <= Len(journal) /\ Len(journal) \in Nat
    BY QueuesAre
  <2>5. Further(screen.cursor, Len(journal)) = Len(journal)
    BY <2>4 DEF Further
  <2> QED
    BY <2>2, <2>3, <2>5
<1>8. Tells(Due, ApplySnapshot(screen.view, TakeSnapshot), Len(journal), <<>>)
  <2>1. screen.view.opening \in BOOLEAN
    BY QueuesAre DEF Screen, View
  <2> QED
    BY <2>1, SnapshotTells
<1> QED
  BY <1>2, <1>5, <1>6, <1>7, <1>8 DEF ViewsInv, ViewInv

\* An answer to a journal request says nothing of the game.
LEMMA AnswerViews ==
    ASSUME PlacesInv, ViewsInv, NEW m, m.type \in {"journal_page", "refused"}, Answer(m)
    PROVE  ViewsInv'
<1>1. /\ Enqueue(m) /\ UNCHANGED <<game, record, conn, screen, replaying, snapshot, held, outrun>>
  BY DEF Answer, tab
<1>2. Due' = Due /\ (Known' <=> Known) /\ journal' = journal
  BY <1>1, GameStays
<1>3. HeldInv'
  BY <1>1, <1>2, HeldAfterSending DEF ViewsInv, Grows
<1>4. KnownInv'
  BY <1>1, <1>2, SendingKnown DEF ViewsInv, TellsOpening
<1>5. ASSUME attached', conn' = "live" => ~outrun'
      PROVE  Tells(Due', Base', Reach', Coming')
  <2>1. attached /\ stream' = Append(stream, m)
    BY <1>1, <1>5 DEF Enqueue, socket
  <2>2. Base' = Base /\ Reach' = Reach /\ More(Coming, Coming', m)
    BY <1>1, <2>1, ComingGrows DEF ViewsInv
  <2>3. Tells(Due, Base, Reach, Coming)
    BY <1>1, <1>5, <2>1 DEF ViewsInv, ViewInv
  <2>4. SaysDue(Due, Due, m)
    BY DEF SaysDue, Clears, Claims
  <2>5. Tells(Due, Base, Reach, Coming')
    BY <2>2, <2>3, <2>4, SaidTells
  <2> QED
    BY <1>2, <2>2, <2>5
<1> QED
  BY <1>3, <1>4, <1>5 DEF ViewsInv, ViewInv

\* The socket is gone.
LEMMA GoneViews ==
    ASSUME ViewsInv, UNCHANGED <<game, record>>, ~attached', stream' = <<>>,
           snapshot' = snapshot,
           conn' = "live" => conn = "live" /\ UNCHANGED <<replaying, held>>,
           held' \in {held, <<>>},
           screen'.view.opening => screen.view.opening \/ snapshot.opened
    PROVE  ViewsInv'
<1>1. (Known' <=> Known) /\ journal' = journal
  BY GameStays
<1>2. HeldInv'
  <2>1. \A i \in DOMAIN held' : held'[i].type \in GameEvents
    BY DEF ViewsInv, HeldInv
  <2> QED
    BY <1>1, <2>1 DEF ViewsInv, HeldInv
<1>3. KnownInv'
  <2>1. OpeningTold(held') => OpeningTold(held)
    BY NothingTold
  <2> QED
    BY <1>1, <2>1, NothingTold DEF ViewsInv, KnownInv
<1> QED
  BY <1>2, <1>3 DEF ViewsInv, ViewInv

LEMMA ServerViews ==
    ASSUME PlacesInv, ViewsInv, Server
    PROVE  ViewsInv'
<1>1. CASE LoseSocket
  BY <1>1, GoneViews DEF LoseSocket, tab
<1>2. CASE AnswerPage
  <2>1. Answer(PageAfter(Head(upstream))) /\ PageAfter(Head(upstream)).type = "journal_page"
    BY <1>2 DEF AnswerPage, PageAfter
  <2> QED
    BY <2>1, AnswerViews
<1>3. CASE RefusePage
  <2>1. Answer([type |-> "refused", after |-> Head(upstream)])
    BY <1>3 DEF RefusePage
  <2> QED
    BY <2>1, AnswerViews
<1> QED
  BY <1>1, <1>2, <1>3, AuthenticateViews DEF Server

-----------------------------------------------------------------------------
(* The view across the steps of the browser *)

LEMMA Arriving ==
    ASSUME PlacesInv, HeldInv, NEW types, Arrives(types)
    PROVE  /\ attached /\ attached' = attached /\ stream' = Tail(stream) /\ stream # <<>>
           /\ Head(stream) \in TrueMessages /\ Head(stream).type \in types
           /\ Head(stream) = stream[1] /\ conn \in {"open", "live"}
           /\ conn = "open" <=> Head(stream).type = "auth_ok"
           /\ \A i \in DOMAIN stream' : stream'[i].type # "auth_ok"
<1>1. /\ stream \in Seq(TrueMessages) /\ stream # <<>> /\ stream' = Tail(stream)
      /\ attached' = attached /\ Head(stream).type \in types /\ conn \in {"open", "live"}
  BY QueuesAre DEF Arrives
<1>2. attached /\ attached' = attached
  BY <1>1 DEF HeldInv
<1>3. /\ Head(stream) = stream[1] /\ Head(stream) \in TrueMessages /\ 1 \in DOMAIN stream
      /\ \A i \in DOMAIN stream' :
            i + 1 \in DOMAIN stream /\ i + 1 # 1 /\ stream'[i] = stream[i + 1]
  BY <1>1
<1>4. \A i \in DOMAIN stream : i # 1 => stream[i].type # "auth_ok"
  BY <1>1, <1>2 DEF HeldInv
<1>5. conn = "open" <=> Head(stream).type = "auth_ok"
  BY <1>1, <1>2, <1>3 DEF HeldInv
<1> QED
  BY <1>1, <1>2, <1>3, <1>4, <1>5

\* A message handled leaves the page authenticated, and the rest of its queue to come.
LEMMA TakenKeeps ==
    ASSUME PlacesInv, ViewsInv, NEW types, Arrives(types), UNCHANGED <<game, record>>,
           conn' = "live", snapshot'.latest <= Len(journal), ~replaying' => held' = <<>>,
           \A i \in DOMAIN held' : held'[i].type \in GameEvents,
           screen'.view.opening \/ snapshot'.opened \/ OpeningTold(held') => Known
    PROVE  HeldInv' /\ KnownInv'
<1>1. /\ attached' /\ stream' = Tail(stream) /\ stream # <<>>
      /\ \A i \in DOMAIN stream' : stream'[i].type # "auth_ok"
  BY Arriving DEF ViewsInv
<1>2. (Known' <=> Known) /\ journal' = journal
  BY GameStays
<1>3. HeldInv'
  BY <1>1, <1>2 DEF HeldInv
<1>4. OpeningTold(stream') => OpeningTold(stream)
  BY <1>1, ToldLess, QueuesAre
<1> QED
  BY <1>2, <1>3, <1>4 DEF ViewsInv, KnownInv

\* One message less to come, the first of the socket's queue.
LEMMA ComingShrinks ==
    ASSUME PlacesInv, HeldInv, NEW types, Arrives(types), conn = "live"
    PROVE  /\ Coming = held \o stream
           /\ Less(held \o stream, held \o Tail(stream), Len(held) + 1)
           /\ (held \o stream)[Len(held) + 1] = Head(stream)
           /\ held \o Tail(stream) \in Seq(TrueMessages)
           /\ ~replaying => held = <<>> /\ held \o stream = stream
                            /\ held \o Tail(stream) = Tail(stream)
<1>1. /\ stream \in Seq(TrueMessages) /\ held \in Seq(TrueMessages) /\ stream # <<>>
      /\ Tail(stream) \in Seq(TrueMessages)
  BY QueuesAre, Arriving
<1>2. Coming = held \o stream
  BY DEF Coming
<1>3. ~replaying => held = <<>>
  BY DEF HeldInv
<1>4. <<>> \o stream = stream /\ <<>> \o Tail(stream) = Tail(stream)
  BY <1>1
<1>5. held \o Tail(stream) \in Seq(TrueMessages)
  BY <1>1, ConcatProperties
<1>6. /\ Less(held \o stream, held \o Tail(stream), Len(held) + 1)
      /\ (held \o stream)[Len(held) + 1] = Head(stream)
  BY <1>1, LessJoined
<1> QED
  BY <1>2, <1>3, <1>4, <1>5, <1>6

\* The snapshot applied again changes nothing.
LEMMA AppliedOnce ==
    ASSUME NEW v, NEW s
    PROVE  ApplySnapshot(ApplySnapshot(v, s), s) = ApplySnapshot(v, s)
BY DEF ApplySnapshot

LEMMA AuthViews ==
    ASSUME PlacesInv, ViewsInv, ReceiveAuth
    PROVE  ViewsInv'
<1> DEFINE m == Head(stream)
           w == ApplySnapshot(screen.view, m)
<1>1. /\ Arrives({"auth_ok"}) /\ conn' = "live" /\ held' = <<>> /\ snapshot' = m
      /\ replaying' = (m.latest > screen.cursor)
      /\ screen' = [screen EXCEPT !.view = ApplySnapshot(@, m)]
      /\ UNCHANGED <<game, record>>
  BY DEF ReceiveAuth
<1>2. /\ attached /\ stream' = Tail(stream) /\ stream # <<>> /\ m \in TrueMessages
      /\ m.type = "auth_ok" /\ conn = "open" /\ stream \in Seq(TrueMessages)
  BY <1>1, Arriving, QueuesAre DEF ViewsInv
<1>3. m \in Snapshot /\ m.latest \in Nat /\ m.latest <= Len(journal)
  BY <1>2, KindsOfMessages, QueuesAre
<1>4. /\ screen \in Screen /\ screen.cursor \in Nat /\ screen'.view = w
      /\ screen'.cursor = screen.cursor
  <2>1. screen \in Screen /\ screen.cursor \in Nat
    BY QueuesAre
  <2> QED
    BY <1>1, <2>1 DEF Screen
<1>5. screen.view.opening \/ m.opened => Known
  <2>1. m.opened => TellsOpening(m)
    BY <1>2 DEF TellsOpening
  <2>2. TellsOpening(m) => OpeningTold(stream)
    BY <1>2, ToldLess
  <2> QED
    BY <2>1, <2>2 DEF ViewsInv, KnownInv
<1>6. w.opening => screen.view.opening \/ m.opened
  BY DEF ApplySnapshot
<1>7. HeldInv' /\ KnownInv'
  <2>1. /\ snapshot'.latest <= Len(journal) /\ (~replaying' => held' = <<>>)
        /\ \A i \in DOMAIN held' : held'[i].type \in GameEvents
    BY <1>1, <1>3
  <2>2. screen'.view.opening \/ snapshot'.opened \/ OpeningTold(held') => Known
    BY <1>1, <1>4, <1>5, <1>6, NothingTold
  <2> HIDE DEF m, w
  <2> QED
    BY <1>1, <2>1, <2>2, TakenKeeps
<1>8. Base = w /\ Reach = Further(screen.cursor, m.latest) /\ Coming = Tail(stream)
  BY <1>2 DEF Base, Reach, Coming, Restores, Latest
<1>9. Base' = w
  <2>1. CASE replaying'
    <3>1. Base' = ApplySnapshot(screen'.view, snapshot')
      BY <1>1, <2>1 DEF Base, Restores, Latest
    <3> QED
      BY <1>1, <1>4, <3>1, AppliedOnce
  <2>2. CASE ~replaying'
    BY <1>1, <1>4, <2>2 DEF Base, Restores
  <2> QED
    BY <2>1, <2>2
<1>10. Reach' = Further(screen.cursor, m.latest)
  <2>1. CASE replaying'
    BY <1>1, <1>4, <2>1 DEF Reach, Restores, Latest
  <2>2. CASE ~replaying'
    <3>1. Reach' = screen.cursor /\ ~(m.latest > screen.cursor)
      BY <1>1, <1>4, <2>2 DEF Reach, Restores
    <3> QED
      BY <1>3, <1>4, <3>1 DEF Further
  <2> QED
    BY <2>1, <2>2
<1>11. Coming' = Tail(stream)
  <2>1. Coming' = <<>> \o Tail(stream)
    BY <1>1, <1>2 DEF Coming
  <2>2. Tail(stream) \in Seq(TrueMessages)
    BY <1>2
  <2> QED
    BY <2>1, <2>2
<1>12. Tells(Due, Base, Reach, Coming)
  BY <1>2 DEF ViewsInv, ViewInv
<1>13. Due' = Due
  BY <1>1, GameStays
<1> QED
  BY <1>7, <1>8, <1>9, <1>10, <1>11, <1>12, <1>13 DEF ViewsInv, ViewInv

LEMMA TrueAreNumbered ==
    ASSUME PlacesInv, NEW p \in Seq(TrueMessages)
    PROVE  Numbered(p)
<1> SUFFICES ASSUME NEW i \in DOMAIN p, p[i].type \in GameEvents
             PROVE  p[i].id \in Nat
  BY DEF Numbered
<1>1. p[i] \in TrueMessages
  OBVIOUS
<1>2. p[i] \in TrueEvents
  BY <1>1, KindsOfMessages, QueuesAre
<1> QED
  BY <1>2 DEF TrueEvents, Event

\* The end of a catch-up shows what was due of the snapshot, once what it held back is
\* handled: whatever the catch-up has shown before it.
LEMMA FinishTells ==
    ASSUME PlacesInv, conn = "live", replaying, NEW s \in Screen,
           s.view.opening = screen.view.opening, s.cursor <= Reach, Reach \in Nat,
           NEW t \in Seq(TrueMessages), Tells(Due, Base, Reach, held \o t)
    PROVE  Tells(Due, Finish(s).view, Finish(s).cursor, t)
<1> DEFINE fresh == [s EXCEPT !.view = ApplySnapshot(@, snapshot)]
<1>1. /\ fresh \in Screen /\ fresh.cursor = s.cursor /\ s.cursor \in Nat
      /\ fresh.view = ApplySnapshot(s.view, snapshot)
  <2>1. fresh \in Screen /\ fresh.cursor = s.cursor
    BY SnapshotApplied, QueuesAre
  <2> QED
    BY <2>1 DEF Screen
<1>2. Finish(s) = HandleAll(fresh, held, FALSE)
  BY DEF Finish
<1> HIDE DEF fresh
<1>3. fresh.view = Base
  <2>1. Base = ApplySnapshot(screen.view, snapshot)
    BY DEF Base, Restores, Latest
  <2>2. ApplySnapshot(s.view, snapshot) = ApplySnapshot(screen.view, snapshot)
    BY DEF ApplySnapshot
  <2> QED
    BY <1>1, <2>1, <2>2
<1>4. held \o t \in Seq(TrueMessages) /\ held \in Seq(TrueEvents)
  BY QueuesAre, ConcatProperties
<1>5. Numbered(held \o t)
  BY <1>4, TrueAreNumbered
<1>6. Tells(Due, fresh.view, fresh.cursor, held \o t)
  <2>1. Tells(Due, Base, s.cursor, held \o t)
    BY <1>1, <1>5, TellsForLess
  <2> QED
    BY <1>1, <1>3, <2>1
<1>7. journal \in Seq(Entry)
  BY QueuesAre
<1> QED
  BY <1>1, <1>2, <1>4, <1>6, <1>7, HeldTells

LEMMA PageViews ==
    ASSUME PlacesInv, ViewsInv, ReceivePage
    PROVE  ViewsInv'
<1> DEFINE page == Head(stream)
           read == HandlePage(screen, page)
           end  == [read EXCEPT !.cursor = IF page.upto > @ THEN page.upto ELSE @]
<1>1. /\ Arrives({"journal_page"}) /\ UNCHANGED <<game, record, conn, snapshot>>
      /\ ~outrun' => ~outrun /\ ~(page.upto > snapshot.latest) /\ replaying
  BY DEF ReceivePage
<1>2. /\ attached /\ stream' = Tail(stream) /\ stream # <<>> /\ page \in TrueMessages
      /\ page.type = "journal_page" /\ conn = "live"
  BY <1>1, Arriving DEF ViewsInv
<1>3. /\ page.after \in Nat /\ page.upto \in Nat /\ page.after <= page.upto
      /\ page.upto <= Len(journal) /\ Len(journal) \in Nat
  BY <1>2, KindsOfMessages, QueuesAre
<1>4. /\ screen \in Screen /\ screen.cursor \in Nat /\ snapshot.latest \in Nat
      /\ snapshot.latest <= Len(journal) /\ replaying \in BOOLEAN
      /\ Tail(stream) \in Seq(TrueMessages)
  BY <1>2, QueuesAre DEF ViewsInv, HeldInv
<1>5. /\ read \in Screen /\ read.view.opening = screen.view.opening
      /\ read.cursor <= screen.cursor \/ read.cursor <= page.upto
  BY <1>3, <1>4, PageKeeps
<1>6. \/ screen' = read /\ UNCHANGED <<replaying, held>>
      \/ screen' = Finish(end) /\ replaying' = FALSE /\ held' = <<>>
  BY DEF ReceivePage
<1>7. page.type \notin GameEvents /\ page.type # "opening" /\ \A n \in Claims : page.type \notin Sets[n]
  BY <1>2 DEF GameEvents, PublicTypes, OtherTypes, Claims, Sets
<1> HIDE DEF page, read
<1>8. /\ end \in Screen /\ end.view = read.view /\ read.cursor \in Nat
      /\ end.cursor = page.upto \/ end.cursor = read.cursor
  BY <1>3, <1>5 DEF Screen
<1> HIDE DEF end
<1>9. screen'.view.opening => screen.view.opening \/ snapshot.opened \/ OpeningTold(held)
  BY <1>5, <1>6, <1>8, FinishOpening
<1>10. HeldInv' /\ KnownInv'
  <2>1. ~replaying' => held' = <<>>
    BY <1>2, <1>6 DEF ViewsInv, HeldInv
  <2>2. \A i \in DOMAIN held' : held'[i].type \in GameEvents
    BY <1>6 DEF ViewsInv, HeldInv
  <2>3. OpeningTold(held') => OpeningTold(held)
    BY <1>6, NothingTold
  <2>4. screen'.view.opening \/ snapshot'.opened \/ OpeningTold(held') => Known
    BY <1>1, <1>9, <2>3 DEF ViewsInv, KnownInv
  <2>5. conn' = "live" /\ snapshot'.latest <= Len(journal) /\ UNCHANGED <<game, record>>
    BY <1>1, <1>2, <1>4
  <2> QED
    BY <1>1, <2>1, <2>2, <2>4, <2>5, TakenKeeps
<1>11. ASSUME ~outrun'
       PROVE  Tells(Due', Base', Reach', Coming')
  <2>1. ~outrun /\ page.upto <= snapshot.latest /\ replaying
    BY <1>1, <1>3, <1>4, <1>11
  <2>2. Tells(Due, Base, Reach, held \o Tail(stream))
    <3>1. Tells(Due, Base, Reach, held \o stream)
      BY <1>1, <1>2, <2>1, ComingShrinks DEF ViewsInv, ViewInv
    <3>2. /\ Less(held \o stream, held \o Tail(stream), Len(held) + 1)
          /\ (held \o stream)[Len(held) + 1] = page
      BY <1>1, <1>2, ComingShrinks DEF ViewsInv, page
    <3> QED
      BY <1>7, <3>1, <3>2, DroppedTells
  <2>3. Reach = Further(screen.cursor, snapshot.latest) /\ Base = ApplySnapshot(screen.view, snapshot)
    BY <1>2, <2>1 DEF Reach, Base, Restores, Latest
  <2>4. /\ Reach \in Nat /\ screen.cursor <= Reach /\ snapshot.latest <= Reach
        /\ read.cursor <= Reach /\ end.cursor <= Reach
    <3>1. Reach \in Nat /\ screen.cursor <= Reach /\ snapshot.latest <= Reach
      BY <1>4, <2>3 DEF Further
    <3>2. page.upto <= Reach
      BY <1>3, <1>4, <2>1, <3>1
    <3>3. read.cursor <= Reach
      BY <1>3, <1>4, <1>5, <1>8, <3>1, <3>2
    <3> QED
      BY <1>8, <3>1, <3>2, <3>3
  <2>5. Due' = Due
    BY <1>1, GameStays
  <2>6. CASE screen' = read /\ UNCHANGED <<replaying, held>>
    <3>1. Base' = Base
      <4>1. Base' = ApplySnapshot(read.view, snapshot)
        BY <1>1, <1>2, <2>1, <2>6 DEF Base, Restores, Latest
      <4>2. ApplySnapshot(read.view, snapshot) = ApplySnapshot(screen.view, snapshot)
        BY <1>5 DEF ApplySnapshot
      <4> QED
        BY <2>3, <4>1, <4>2
    <3>2. Reach' \in Nat /\ Reach' <= Reach
      <4>1. Reach' = Further(read.cursor, snapshot.latest)
        BY <1>1, <1>2, <2>1, <2>6 DEF Reach, Restores, Latest
      <4> QED
        BY <1>4, <1>8, <2>4, <4>1 DEF Further
    <3>3. Coming' = held \o Tail(stream) /\ held \o Tail(stream) \in Seq(TrueMessages)
      <4>1. Coming' = held \o Tail(stream)
        BY <1>1, <1>2, <2>6 DEF Coming
      <4> QED
        BY <1>1, <1>2, <4>1, ComingShrinks DEF ViewsInv
    <3>4. Numbered(held \o Tail(stream))
      BY <3>3, TrueAreNumbered
    <3>5. Tells(Due, Base, Reach', held \o Tail(stream))
      BY <2>2, <2>4, <3>2, <3>4, TellsForLess
    <3> QED
      BY <2>5, <3>1, <3>3, <3>5
  <2>7. CASE screen' = Finish(end) /\ replaying' = FALSE /\ held' = <<>>
    <3>1. end.view.opening = screen.view.opening
      BY <1>5, <1>8
    <3>2. Tells(Due, Finish(end).view, Finish(end).cursor, Tail(stream))
      BY <1>2, <1>4, <1>8, <2>1, <2>2, <2>4, <3>1, FinishTells
    <3>3. Base' = Finish(end).view /\ Reach' = Finish(end).cursor
      BY <1>1, <1>2, <2>7 DEF Base, Reach, Restores
    <3>4. Coming' = Tail(stream)
      <4>1. Coming' = <<>> \o Tail(stream)
        BY <1>1, <1>2, <2>7 DEF Coming
      <4> QED
        BY <1>4, <4>1
    <3> QED
      BY <2>5, <3>2, <3>3, <3>4
  <2> QED
    BY <1>6, <2>6, <2>7
<1> QED
  BY <1>1, <1>2, <1>10, <1>11 DEF ViewsInv, ViewInv

LEMMA RefusalViews ==
    ASSUME PlacesInv, ViewsInv, ReceiveRefusal
    PROVE  ViewsInv'
<1>1. /\ Arrives({"refused"})
      /\ UNCHANGED <<game, record, conn, screen, replaying, snapshot, held, outrun>>
  BY DEF ReceiveRefusal
<1>2. /\ attached /\ stream' = Tail(stream) /\ Head(stream).type = "refused" /\ conn = "live"
  BY <1>1, Arriving DEF ViewsInv
<1>3. HeldInv' /\ KnownInv'
  <2>1. /\ snapshot'.latest <= Len(journal) /\ (~replaying' => held' = <<>>)
        /\ \A i \in DOMAIN held' : held'[i].type \in GameEvents
    BY <1>1, <1>2 DEF ViewsInv, HeldInv
  <2>2. screen'.view.opening \/ snapshot'.opened \/ OpeningTold(held') => Known
    BY <1>1 DEF ViewsInv, KnownInv
  <2>3. conn' = "live" /\ UNCHANGED <<game, record>>
    BY <1>1, <1>2
  <2> QED
    BY <1>1, <2>1, <2>2, <2>3, TakenKeeps
<1>4. ASSUME ~outrun'
      PROVE  Tells(Due', Base', Reach', Coming')
  <2>1. /\ Tells(Due, Base, Reach, held \o stream)
        /\ Less(held \o stream, held \o Tail(stream), Len(held) + 1)
        /\ (held \o stream)[Len(held) + 1] = Head(stream)
    BY <1>1, <1>2, <1>4, ComingShrinks DEF ViewsInv, ViewInv
  <2>2. Head(stream).type # "opening" /\ \A n \in Claims : Head(stream).type \notin Sets[n]
    BY <1>2 DEF Claims, Sets
  <2>3. Tells(Due, Base, Reach, held \o Tail(stream))
    BY <2>1, <2>2, DroppedTells
  <2>4. Base' = Base /\ Reach' = Reach /\ Coming' = held \o Tail(stream) /\ Due' = Due
    BY <1>1, <1>2, GameStays DEF Base, Reach, Coming, Restores, Latest
  <2> QED
    BY <2>3, <2>4
<1> QED
  BY <1>1, <1>2, <1>3, <1>4 DEF ViewsInv, ViewInv

LEMMA ViewsStay ==
    ASSUME ViewsInv,
           UNCHANGED <<game, record, socket, conn, screen, replaying, snapshot, held, outrun>>
    PROVE  ViewsInv'
<1>1. Due' = Due /\ (Known' <=> Known) /\ journal' = journal
  BY GameStays
<1>2. attached' = attached /\ stream' = stream
  BY DEF socket
<1>3. HeldInv' /\ KnownInv'
  BY <1>1, <1>2 DEF ViewsInv, HeldInv, KnownInv
<1>4. Base' = Base /\ Reach' = Reach /\ Coming' = Coming
  BY <1>2 DEF Base, Reach, Coming, Restores, Latest
<1> QED
  BY <1>1, <1>2, <1>3, <1>4 DEF ViewsInv, ViewInv

LEMMA GivenUpViews ==
    ASSUME PlacesInv, ViewsInv, GivenUp, conn \in {"live", "closing"},
           UNCHANGED <<game, record, socket, conn, snapshot, outrun>>
    PROVE  ViewsInv'
<1>1. /\ UNCHANGED <<game, record, socket, conn, snapshot, outrun>>
      /\ attached => conn = "live"
  BY DEF ViewsInv, HeldInv
<1>2. CASE ~replaying
  <2>1. screen' = screen /\ held' = held /\ replaying' = FALSE
    BY <1>2 DEF GivenUp
  <2>2. replaying' = replaying
    BY <1>2, <2>1, QueuesAre
  <2> QED
    BY <1>1, <2>1, <2>2, ViewsStay
<1>3. CASE replaying
  <2>1. screen' = Finish(screen) /\ held' = <<>> /\ replaying' = FALSE
    BY <1>3 DEF GivenUp
  <2>2. /\ screen \in Screen /\ screen.cursor \in Nat /\ snapshot.latest \in Nat
        /\ stream \in Seq(TrueMessages)
    BY QueuesAre
  <2>3. Due' = Due /\ (Known' <=> Known) /\ journal' = journal
    BY <1>1, GameStays
  <2>4. attached' = attached /\ stream' = stream
    BY <1>1 DEF socket
  <2>5. HeldInv'
    BY <1>1, <2>1, <2>3, <2>4 DEF ViewsInv, HeldInv
  <2>6. KnownInv'
    <3>1. screen'.view.opening => screen.view.opening \/ snapshot.opened \/ OpeningTold(held)
      BY <2>1, <2>2, FinishOpening
    <3>2. ~OpeningTold(held')
      BY <2>1, NothingTold
    <3> QED
      BY <1>1, <2>3, <2>4, <3>1, <3>2 DEF ViewsInv, KnownInv
  <2>7. ASSUME attached', ~outrun'
        PROVE  Tells(Due', Base', Reach', Coming')
    <3>0. conn = "live" /\ ~outrun /\ attached
      BY <1>1, <2>4, <2>7
    <3>1. Tells(Due, Base, Reach, held \o stream)
      <4>1. Tells(Due, Base, Reach, Coming)
        BY <3>0 DEF ViewsInv, ViewInv
      <4> QED
        BY <3>0, <4>1 DEF Coming
    <3>2. screen.cursor <= Reach /\ Reach \in Nat
      BY <3>0, <1>3, <2>2 DEF Reach, Restores, Latest, Further
    <3>3. Tells(Due, Finish(screen).view, Finish(screen).cursor, stream)
      BY <3>0, <1>3, <2>2, <3>1, <3>2, FinishTells
    <3>4. Base' = Finish(screen).view /\ Reach' = Finish(screen).cursor
      BY <1>1, <2>1, <3>0 DEF Base, Reach, Restores
    <3>5. Coming' = stream
      <4>1. Coming' = <<>> \o stream
        BY <1>1, <2>1, <2>4, <3>0 DEF Coming
      <4> QED
        BY <2>2, <4>1
    <3> QED
      BY <2>3, <3>3, <3>4, <3>5
  <2>8. ViewInv'
    BY <1>1, <2>4, <2>7 DEF ViewInv
  <2> QED
    BY <2>5, <2>6, <2>8 DEF ViewsInv
<1> QED
  BY <1>2, <1>3

LEMMA ShowViews ==
    ASSUME PlacesInv, ViewsInv, ShowEvent
    PROVE  ViewsInv'
<1> DEFINE e == Head(stream)
<1>1. /\ Arrives(GameEvents) /\ screen' = Handle(screen, e, FALSE)
      /\ UNCHANGED <<game, record, conn, replaying, snapshot, held>>
      /\ ~outrun' => ~outrun /\ ~replaying
  BY DEF ShowEvent
<1>2. /\ attached /\ stream' = Tail(stream) /\ stream # <<>> /\ e \in TrueMessages
      /\ e.type \in GameEvents /\ conn = "live" /\ stream \in Seq(TrueMessages)
  <2>1. "auth_ok" \notin GameEvents
    BY DEF GameEvents, PublicTypes, OtherTypes
  <2> QED
    BY <1>1, <2>1, Arriving, QueuesAre DEF ViewsInv
<1>3. /\ e \in TrueEvents /\ e.id \in Nat /\ screen \in Screen /\ journal \in Seq(Entry)
  <2>1. e \in TrueEvents /\ screen \in Screen /\ journal \in Seq(Entry)
    BY <1>2, KindsOfMessages, QueuesAre
  <2> QED
    BY <2>1 DEF TrueEvents, Event
<1>4. HeldInv' /\ KnownInv'
  <2>1. /\ snapshot'.latest <= Len(journal) /\ (~replaying' => held' = <<>>)
        /\ \A i \in DOMAIN held' : held'[i].type \in GameEvents
    BY <1>1, <1>2 DEF ViewsInv, HeldInv
  <2>2. screen'.view.opening => screen.view.opening \/ OpeningTold(stream)
    <3>1. CASE e.type = "opening"
      BY <1>2, <3>1, ToldLess DEF TellsOpening
    <3>2. CASE e.type # "opening"
      BY <1>1, <1>3, <3>2, HandledOpening
    <3> QED
      BY <3>1, <3>2
  <2>3. screen'.view.opening \/ snapshot'.opened \/ OpeningTold(held') => Known
    BY <1>1, <2>2 DEF ViewsInv, KnownInv
  <2>4. conn' = "live" /\ UNCHANGED <<game, record>>
    BY <1>1, <1>2
  <2> QED
    BY <1>1, <2>1, <2>3, <2>4, TakenKeeps
<1>5. ASSUME ~outrun'
      PROVE  Tells(Due', Base', Reach', Coming')
  <2>1. ~outrun /\ ~replaying
    BY <1>1, <1>5
  <2>2. /\ Coming = stream /\ held = <<>> /\ Base = screen.view /\ Reach = screen.cursor
    BY <1>1, <1>2, <2>1, ComingShrinks DEF ViewsInv, Base, Reach, Restores
  <2>3. Tells(Due, screen.view, screen.cursor, stream)
    BY <1>2, <2>1, <2>2 DEF ViewsInv, ViewInv
  <2>4. Less(stream, Tail(stream), 1) /\ stream[1] = e
    BY <1>2, LessTaken
  <2>5. Tells(Due, Handle(screen, e, FALSE).view, Handle(screen, e, FALSE).cursor, Tail(stream))
    BY <1>3, <2>3, <2>4, TellsHandled
  <2>6. Base' = Handle(screen, e, FALSE).view /\ Reach' = Handle(screen, e, FALSE).cursor
    BY <1>1, <1>2, <2>1 DEF Base, Reach, Restores
  <2>7. Coming' = Tail(stream)
    <3>1. Coming' = <<>> \o Tail(stream)
      BY <1>1, <1>2, <2>2 DEF Coming
    <3> QED
      BY <1>2, <3>1
  <2>8. Due' = Due
    BY <1>1, GameStays
  <2> QED
    BY <2>5, <2>6, <2>7, <2>8
<1> QED
  BY <1>1, <1>2, <1>4, <1>5 DEF ViewsInv, ViewInv

LEMMA HoldViews ==
    ASSUME PlacesInv, ViewsInv, HoldEvent
    PROVE  ViewsInv'
<1> DEFINE e == Head(stream)
<1>1. /\ Arrives(GameEvents) /\ replaying /\ held' = Append(held, e)
      /\ UNCHANGED <<game, record, conn, screen, replaying, snapshot, outrun>>
  BY DEF HoldEvent, HeldBack
<1>2. /\ attached /\ stream' = Tail(stream) /\ stream # <<>> /\ e \in TrueMessages
      /\ e.type \in GameEvents /\ conn = "live"
      /\ stream \in Seq(TrueMessages) /\ held \in Seq(TrueMessages)
  <2>1. "auth_ok" \notin GameEvents
    BY DEF GameEvents, PublicTypes, OtherTypes
  <2> QED
    BY <1>1, <2>1, Arriving, QueuesAre DEF ViewsInv
<1>3. HeldInv' /\ KnownInv'
  <2>1. \A i \in DOMAIN held' : held'[i] = e \/ (i \in DOMAIN held /\ held'[i] = held[i])
    BY <1>1, <1>2
  <2>2. \A i \in DOMAIN held' : held'[i].type \in GameEvents
    BY <1>2, <2>1 DEF ViewsInv, HeldInv
  <2>3. snapshot'.latest <= Len(journal) /\ replaying'
    BY <1>1 DEF ViewsInv, HeldInv
  <2>4. OpeningTold(held') => OpeningTold(held) \/ OpeningTold(stream)
    <3>1. OpeningTold(Append(held, e)) => OpeningTold(held) \/ TellsOpening(e)
      BY <1>2, ToldMore
    <3> QED
      BY <1>1, <1>2, <3>1, ToldLess
  <2>5. screen'.view.opening \/ snapshot'.opened \/ OpeningTold(held') => Known
    BY <1>1, <2>4 DEF ViewsInv, KnownInv
  <2>6. conn' = "live" /\ UNCHANGED <<game, record>>
    BY <1>1, <1>2
  <2> QED
    BY <1>1, <2>2, <2>3, <2>5, <2>6, TakenKeeps
<1>4. Coming' = Coming
  <2>1. Coming = held \o stream /\ Coming' = Append(held, e) \o Tail(stream)
    BY <1>1, <1>2 DEF Coming
  <2>2. Append(held, e) \o Tail(stream) = held \o stream
    BY <1>2
  <2> QED
    BY <2>1, <2>2
<1>5. Base' = Base /\ Reach' = Reach /\ Due' = Due
  BY <1>1, <1>2, GameStays DEF Base, Reach, Restores, Latest
<1> QED
  BY <1>1, <1>2, <1>3, <1>4, <1>5 DEF ViewsInv, ViewInv

LEMMA ClosedViews ==
    ASSUME PlacesInv, ViewsInv, Closed, ~attached', stream' = <<>>
    PROVE  ViewsInv'
<1>1. conn' = "closed" /\ UNCHANGED <<game, record, snapshot>> /\ held' \in {held, <<>>}
  BY DEF Closed
<1>2. screen'.view.opening => screen.view.opening \/ snapshot.opened
  <2>1. screen' \in {FinishClosed(screen), screen} /\ screen \in Screen
    BY QueuesAre DEF Closed
  <2>2. FinishClosed(screen).view = ApplySnapshot(screen.view, snapshot)
    BY <2>1 DEF FinishClosed, Screen
  <2>3. ApplySnapshot(screen.view, snapshot).opening = (screen.view.opening \/ snapshot.opened)
    BY DEF ApplySnapshot
  <2> QED
    BY <2>1, <2>2, <2>3
<1> QED
  BY <1>1, <1>2, GoneViews

LEMMA BrowserViews ==
    ASSUME PlacesInv, ViewsInv, Browser
    PROVE  ViewsInv'
<1>1. CASE HoldTooMany
  BY <1>1, GoneViews DEF HoldTooMany
<1>2. CASE StartClosing
  BY <1>2, GoneViews DEF StartClosing, socket, ViewsInv, HeldInv
<1>3. CASE NoticeClose
  BY <1>3, ClosedViews DEF NoticeClose, socket, ViewsInv, HeldInv
<1>4. CASE AskAgain
  <2>1. UNCHANGED <<game, record, socket, conn, snapshot, outrun>>
    BY <1>4 DEF AskAgain
  <2>2. CASE conn = "live" /\ UNCHANGED <<screen, replaying, held>>
    BY <2>1, <2>2, ViewsStay
  <2>3. CASE conn = "closing" /\ GivenUp
    BY <2>1, <2>3, GivenUpViews
  <2> QED
    BY <1>4, <2>2, <2>3 DEF AskAgain
<1>5. CASE GiveUp
  BY <1>5, GivenUpViews DEF GiveUp
<1> QED
  BY <1>1, <1>2, <1>3, <1>4, <1>5, AuthViews, PageViews, RefusalViews, ShowViews, HoldViews
  DEF Browser, Receive

LEMMA StepViews ==
    ASSUME PlacesInv, RecordInv, GameFits, ViewsInv, [Next]_vars
    PROVE  ViewsInv'
<1>1. CASE UNCHANGED vars
  BY <1>1, ViewsStay DEF vars, client, tab
<1> QED
  BY <1>1, ElsewhereViews, ServerViews, BrowserViews DEF Next

LEMMA InitViews == Init => ViewsInv
<1> SUFFICES ASSUME Init PROVE ViewsInv
  OBVIOUS
<1>1. /\ attached = FALSE /\ stream = <<>> /\ conn = "closed" /\ held = <<>>
      /\ snapshot = NoSnapshot /\ screen.view = Blank /\ journal = <<>>
  BY DEF Init, PublicationInit
<1>2. NoSnapshot.latest = 0 /\ NoSnapshot.opened = FALSE /\ Blank.opening = FALSE
  BY DEF NoSnapshot, Blank
<1>3. HeldInv
  BY <1>1, <1>2 DEF HeldInv
<1>4. KnownInv
  BY <1>1, <1>2, NothingTold DEF KnownInv
<1> QED
  BY <1>1, <1>3, <1>4 DEF ViewsInv, ViewInv

-----------------------------------------------------------------------------
(* The theorem *)

LEMMA QuietViews ==
    ASSUME PlacesInv, ViewsInv
    PROVE  ViewIsCurrent
<1> SUFFICES ASSUME Quiet, ~outrun
             PROVE  ViewMatches
  BY DEF ViewIsCurrent
<1>1. /\ conn = "live" /\ attached /\ ~replaying /\ stream = <<>> /\ held = <<>>
      /\ pendingDelivery = <<>> /\ notices = <<>> /\ effects = "free"
  BY DEF Quiet, ViewsInv, HeldInv
<1>2. Base = screen.view /\ Coming = <<>>
  <2>1. Coming = <<>> \o <<>>
    BY <1>1 DEF Coming
  <2> QED
    BY <1>1, <2>1 DEF Base, Restores
<1>3. Tells(Due, screen.view, Reach, <<>>)
  BY <1>1, <1>2 DEF ViewsInv, ViewInv
<1>4. Claimed(phase, <<>>, "free") \subseteq Shows(screen.view)
  <2>1. \A n \in Claims : n \in Due => n \in Shows(screen.view)
    BY <1>3 DEF Tells, WillBe
  <2> QED
    BY <1>1, <2>1, DueIs DEF Claimed
<1>5. \A type : ~Owes(<<>>, type)
  BY OwesIs
<1>6. /\ phase \in BusyPhases => "thinking" \in Claimed(phase, <<>>, "free")
      /\ phase \notin BusyPhases => "idle" \in Claimed(phase, <<>>, "free")
      /\ phase = "paused" => "paused" \in Claimed(phase, <<>>, "free")
      /\ phase # "paused" => "unpaused" \in Claimed(phase, <<>>, "free")
      /\ phase = "ended" => "ended" \in Claimed(phase, <<>>, "free")
      /\ phase # "ended" => "unended" \in Claimed(phase, <<>>, "free")
  <2>1. "free" # "ending"
    OBVIOUS
  <2> QED
    BY <1>5, <2>1 DEF Claimed, Claims
<1>7. \A v : /\ "thinking" \in Shows(v) => v.thinking
             /\ "idle" \in Shows(v) => ~v.thinking
             /\ "paused" \in Shows(v) => v.retry
             /\ "unpaused" \in Shows(v) => ~v.retry
             /\ "ended" \in Shows(v) => v.ended
             /\ "unended" \in Shows(v) => ~v.ended
  BY DEF Shows
<1>8. /\ phase \in BusyPhases => screen.view.thinking
      /\ phase \notin BusyPhases => ~screen.view.thinking
      /\ phase = "paused" => screen.view.retry
      /\ phase # "paused" => ~screen.view.retry
      /\ phase = "ended" => screen.view.ended
      /\ phase # "ended" => ~screen.view.ended
  BY <1>4, <1>6, <1>7, Zenon
<1>9. Opened => screen.view.opening
  BY <1>3, DueIs DEF Tells, OpensLater
<1>10. screen.view.opening => Opened
  <2>1. ~OpeningPending
    BY <1>1 DEF OpeningPending
  <2> QED
    BY <2>1 DEF ViewsInv, KnownInv, Known
<1>11. screen.view \in View /\ Opened \in BOOLEAN
  BY QueuesAre DEF Screen, Opened
<1>12. /\ screen.view.thinking \in BOOLEAN /\ screen.view.retry \in BOOLEAN
       /\ screen.view.ended \in BOOLEAN /\ screen.view.opening \in BOOLEAN
  BY <1>11 DEF View
<1>13. \A x, y \in BOOLEAN : (x => y) /\ (y => x) => x = y
  OBVIOUS
<1>14. screen.view.opening = Opened
  BY <1>9, <1>10, <1>11, <1>12, <1>13, Zenon
<1>15. /\ screen.view.thinking = (phase \in {"preparing", "thinking"})
       /\ screen.view.retry = (phase = "paused")
       /\ screen.view.ended = (phase = "ended")
  BY <1>8, <1>12 DEF BusyPhases
<1> QED
  BY <1>14, <1>15 DEF ViewMatches

\* Whatever a lost socket, a full queue, a refused or given-up catch-up or an interrupted
\* delivery did before, a page that has received everything shows the state of the game:
\* thinking, a paused round, the end and the opening (handleMessage, applySnapshot and
\* finishJournalReplay of app.js against the broadcasts of engine.py), unless its catch-up
\* brought news its snapshot does not know.
THEOREM ViewsAreCurrent == Spec => []ViewIsCurrent
<1> DEFINE Inv == PlacesInv /\ RecordInv /\ GameFits /\ ViewsInv
<1>1. Init => Inv
  BY InitPlaces, InitRecords, InitFits, InitViews
<1>2. Inv /\ [Next]_vars => Inv'
  <2> SUFFICES ASSUME Inv, [Next]_vars PROVE Inv'
    OBVIOUS
  <2>1. RecordInv'
    BY StepRecords
  <2>2. PlacesInv'
    BY <2>1, StepPlaces
  <2>3. GameFits'
    BY StepFits
  <2>4. ViewsInv'
    BY StepViews
  <2> QED
    BY <2>1, <2>2, <2>3, <2>4
<1>3. Inv => ViewIsCurrent
  BY QuietViews
<1> QED
  BY <1>1, <1>2, <1>3, PTL DEF Spec
=============================================================================
