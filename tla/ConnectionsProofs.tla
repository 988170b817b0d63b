------------------------- MODULE ConnectionsProofs -------------------------
(***************************************************************************)
(* Proofs about Connections, for any number of sockets, clients and games: *)
(* whoever owns a socket plays the current game, a player without a socket *)
(* is about to be reported, and an older socket never parts its successor. *)
(***************************************************************************)
EXTENDS Connections, FiniteSetTheorems, TLAPS

-----------------------------------------------------------------------------
(* The inductive invariant, in parts *)

Bounded ==
    /\ IsFiniteSet(pending)
    /\ Len(games) \in 1..MaxGames
    /\ \A s \in Sockets : endpoint[s].step \in {"none", "accepting", "waiting"} =>
                             endpoint[s].attempts < MaxAttempts

\* A registered socket is the one of its handler's client; one whose handler has let go of it,
\* or that failed, is registered no longer, and connects no second time.
Linked ==
    \A s \in Sockets :
        /\ ids[s] # Nobody => ids[s] = endpoint[s].client
        /\ endpoint[s].step \in {"none", "reporting", "over"} => ids[s] = Nobody
        /\ s \in pending => ids[s] # Nobody
        /\ cleaning[s].step # "none" => ids[s] = Nobody /\ endpoint[s].step # "none"

\* The owner of a client is registered for it, and its handler remembers the current game.
Owned ==
    \A c \in Clients : owner[c] # Nobody =>
        /\ ids[owner[c]] = c /\ owner[c] \notin pending
        /\ endpoint[owner[c]].game = Current
        /\ endpoint[owner[c]].step \in {"entering", "serving", "starting", "leaving"}

\* Reports are made to games that exist.
Reportable ==
    \A s \in Sockets :
        /\ endpoint[s].step = "reporting" => endpoint[s].game \in 1..Current
        /\ cleaning[s].step = "locking" => cleaning[s].game \in 1..Current

\* The report that a ghost waits for.
Noticing(c, s) ==
    \/ /\ At(s, "reporting") /\ endpoint[s].client = c
       /\ endpoint[s].game = Current
       /\ endpoint[s].version = Player(Current, c).version
    \/ cleaning[s].step = "noticed" /\ cleaning[s].client = c
    \/ /\ cleaning[s].step = "locking" /\ cleaning[s].client = c
       /\ cleaning[s].game = Current

ConnInv == /\ ConnectionsTypeOK /\ Bounded /\ Linked /\ Owned /\ Reportable
           /\ OwnersPlay /\ GhostsAreNoticed

-----------------------------------------------------------------------------
(* One game changes *)

LEMMA GameReplaced ==
    ASSUME NEW before \in Seq(GameState), NEW g \in 1..Len(before), NEW q \in GameState
    PROVE  LET after == [before EXCEPT ![g] = q] IN
           /\ after \in Seq(GameState) /\ Len(after) = Len(before)
           /\ after[g] = q
           /\ \A h \in 1..Len(before) : h # g => after[h] = before[h]
OBVIOUS

\* One player of one game is put in another state, and the phase of the game perhaps changed.
LEMMA PlayerReplaced ==
    ASSUME games \in Seq(GameState), NEW g \in 1..Len(games), NEW c \in Clients,
           NEW p \in PlayerState, NEW q \in GameState,
           q.players = [games[g].players EXCEPT ![c] = p],
           games' = [games EXCEPT ![g] = q]
    PROVE  /\ games' \in Seq(GameState) /\ Len(games') = Len(games)
           /\ Player(g, c)' = p
           /\ \A h \in 1..Len(games), d \in Clients : h # g \/ d # c => Player(h, d)' = Player(h, d)
<1>1. /\ games' \in Seq(GameState) /\ Len(games') = Len(games)
      /\ games'[g] = q
      /\ \A h \in 1..Len(games) : h # g => games'[h] = games[h]
  BY GameReplaced
<1>2. games[g].players \in [Clients -> PlayerState]
  <2>1. games[g] \in GameState
    OBVIOUS
  <2> QED BY <2>1 DEF GameState
<1>3. q.players[c] = p /\ \A d \in Clients : d # c => q.players[d] = games[g].players[d]
  BY <1>2
<1> QED BY <1>1, <1>3 DEF Player

\* What Gone does to the players.
LEMMA GoneLeaves ==
    ASSUME games \in Seq(GameState), NEW g \in 1..Len(games), NEW c \in Clients, Gone(g, c)
    PROVE  /\ games' \in Seq(GameState) /\ Len(games') = Len(games)
           /\ \A h \in 1..Len(games), d \in Clients : h # g \/ d # c => Player(h, d)' = Player(h, d)
           /\ owner[c] = Nobody => ~Player(g, c)'.here
           /\ owner[c] # Nobody => games' = games
<1>1. Player(g, c) \in PlayerState
  <2>1. games[g] \in GameState
    OBVIOUS
  <2> QED BY <2>1 DEF GameState, Player
<1>2. CASE ~(Player(g, c).here /\ owner[c] = Nobody)
  BY <1>2 DEF Gone, Player, StillDisconnected
<1>3. CASE Player(g, c).here /\ owner[c] = Nobody
  <2>1. PICK p \in PlayerState : p = Left(games[g].players[c]) /\ ~p.here
    <3>1. PICK n \in Nat : n = Player(g, c).version + 1
      BY <1>1 DEF PlayerState
    <3>2. Left(games[g].players[c]) = [Player(g, c) EXCEPT !.here = FALSE, !.version = n]
      BY <3>1 DEF Left, Player
    <3> QED BY ONLY <1>1, <3>1, <3>2 DEF PlayerState
  <2>2. PICK q \in GameState : q = [games[g] EXCEPT !.players = [games[g].players EXCEPT ![c] = p]]
    <3>1. games[g] \in GameState
      OBVIOUS
    <3> QED BY <3>1 DEF GameState
  <2>3. games' = [games EXCEPT ![g] = q]
    BY <1>3, <2>1, <2>2 DEF Gone, StillDisconnected
  <2>4. q.players = [games[g].players EXCEPT ![c] = p]
    <3>1. games[g] \in GameState
      OBVIOUS
    <3> QED BY <2>2, <3>1 DEF GameState
  <2> QED BY <1>3, <2>1, <2>3, <2>4, PlayerReplaced
<1> QED BY <1>2, <1>3

-----------------------------------------------------------------------------
(* Handlers *)

LEMMA HandlerFields ==
    ASSUME NEW h \in Handler
    PROVE  /\ h.step \in Steps /\ h.client \in Clients /\ h.game \in 0..MaxGames
           /\ h.attempts \in 0..MaxAttempts /\ h.version \in Nat
BY DEF Handler

LEMMA OverTyped ==
    Over \in Handler /\ Over.step = "over" /\ NewEndpoint \in Handler
    /\ NewEndpoint.step = "none" /\ NewEndpoint.attempts = 0 /\ NotCleaning \in Cleanup
    /\ NotCleaning.step = "none"
BY ConnectionsAssumption DEF Over, NewEndpoint, NotCleaning, Handler, Cleanup, Steps

\* The handler of one socket changes.
LEMMA HandlerReplaced ==
    ASSUME endpoint \in [Sockets -> Handler], NEW s \in Sockets, NEW h \in Handler,
           endpoint' = [endpoint EXCEPT ![s] = h]
    PROVE  /\ endpoint' \in [Sockets -> Handler] /\ endpoint'[s] = h
           /\ \A t \in Sockets : t # s => endpoint'[t] = endpoint[t]
OBVIOUS

LEMMA EndsFacts ==
    ASSUME endpoint \in [Sockets -> Handler], NEW s \in Sockets, Ends(s)
    PROVE  /\ endpoint' \in [Sockets -> Handler] /\ endpoint'[s].step = "over"
           /\ \A t \in Sockets : t # s => endpoint'[t] = endpoint[t]
BY OverTyped, HandlerReplaced DEF Ends

LEMMA ToFacts ==
    ASSUME endpoint \in [Sockets -> Handler], NEW s \in Sockets, NEW x \in Steps, To(s, x)
    PROVE  /\ endpoint' \in [Sockets -> Handler] /\ endpoint'[s].step = x
           /\ endpoint'[s].client = endpoint[s].client /\ endpoint'[s].game = endpoint[s].game
           /\ endpoint'[s].attempts = endpoint[s].attempts
           /\ \A t \in Sockets : t # s => endpoint'[t] = endpoint[t]
<1>1. endpoint[s] \in Handler
  OBVIOUS
<1>2. PICK h : h = [endpoint[s] EXCEPT !.step = x]
  OBVIOUS
<1>3. /\ h \in Handler /\ h.step = x /\ h.client = endpoint[s].client
      /\ h.game = endpoint[s].game /\ h.attempts = endpoint[s].attempts
  BY <1>1, <1>2 DEF Handler
<1>4. endpoint' = [endpoint EXCEPT ![s] = h]
  BY <1>2 DEF To
<1> QED BY <1>3, <1>4, HandlerReplaced

Owning == {"entering", "serving", "starting", "leaving"}

LEMMA Typed ==
    ASSUME ConnInv
    PROVE  /\ games \in Seq(GameState) /\ Current \in 1..Len(games) /\ Current = Len(games)
           /\ owner \in [Clients -> Sockets \cup {Nobody}]
           /\ ids \in [Sockets -> Clients \cup {Nobody}]
           /\ pending \subseteq Sockets /\ endpoint \in [Sockets -> Handler]
           /\ cleaning \in [Sockets -> Cleanup]
           /\ Nobody \notin Sockets /\ Nobody \notin Clients
BY ConnectionsAssumption DEF ConnInv, ConnectionsTypeOK, Bounded, Current

\* A handler moves on by itself.
LEMMA HandlerMoves ==
    ASSUME ConnInv, NEW s \in Sockets, UNCHANGED <<games, owner, pending, ids, cleaning>>,
           endpoint' \in [Sockets -> Handler],
           \A t \in Sockets : t # s => endpoint'[t] = endpoint[t],
           endpoint[s].step \notin {"reporting"},
           endpoint'[s].step \notin {"none", "accepting", "reporting"},
           endpoint'[s].step = "over" => ids[s] = Nobody,
           endpoint'[s].step # "over" => endpoint'[s].client = endpoint[s].client,
           endpoint[s].step \in Owning => /\ endpoint'[s].step \in Owning
                                          /\ endpoint'[s].game = endpoint[s].game,
           endpoint'[s].step = "waiting" => endpoint'[s].attempts < MaxAttempts
    PROVE  ConnInv'
<1>1. ConnectionsTypeOK' /\ OwnersPlay' /\ Current' = Current
  BY DEF ConnInv, ConnectionsTypeOK, OwnersPlay, Player, Current
<1>2. Bounded'
  BY DEF ConnInv, Bounded
<1>3. Linked'
  BY DEF ConnInv, Linked
<1>4. Owned'
  BY <1>1, Typed DEF ConnInv, Owned, Owning
<1>5. Reportable'
  BY <1>1 DEF ConnInv, Reportable
<1>6. GhostsAreNoticed'
  BY <1>1 DEF ConnInv, GhostsAreNoticed, Player, At
<1> QED BY <1>1, <1>2, <1>3, <1>4, <1>5, <1>6 DEF ConnInv

LEMMA MovesKeep ==
    ASSUME ConnInv, NEW s \in Sockets, NEW x \in Steps, To(s, x),
           UNCHANGED <<games, owner, pending, ids, cleaning>>,
           \/ endpoint[s].step = "accepting" /\ x = "waiting"
           \/ endpoint[s].step \in {"entering", "starting"} /\ x = "serving"
           \/ endpoint[s].step = "locking" /\ x = "leaving"
           \/ endpoint[s].step = "locking" /\ x = "waiting" /\ endpoint[s].attempts < MaxAttempts
           \/ endpoint[s].step \in {"waiting", "serving"} /\ x = "leaving"
    PROVE  ConnInv'
<1>1. /\ endpoint' \in [Sockets -> Handler] /\ endpoint'[s].step = x
      /\ endpoint'[s].client = endpoint[s].client /\ endpoint'[s].game = endpoint[s].game
      /\ endpoint'[s].attempts = endpoint[s].attempts
      /\ \A t \in Sockets : t # s => endpoint'[t] = endpoint[t]
  BY Typed, ToFacts
<1>2. x = "waiting" => endpoint[s].attempts < MaxAttempts
  BY DEF ConnInv, Bounded
<1> QED BY <1>1, <1>2, HandlerMoves DEF Owning

LEMMA RefuseKeeps ==
    ASSUME ConnInv, NEW s \in Sockets, Refuse(s)
    PROVE  ConnInv'
<1>1. /\ endpoint' \in [Sockets -> Handler] /\ endpoint'[s].step = "over"
      /\ \A t \in Sockets : t # s => endpoint'[t] = endpoint[t]
  BY Typed, EndsFacts DEF Refuse
<1>2. endpoint[s].step = "none" /\ ids[s] = Nobody
  BY DEF Refuse, At, ConnInv, Linked
<1> QED BY <1>1, <1>2, HandlerMoves DEF Refuse, Owning

LEMMA LoginKeeps ==
    ASSUME ConnInv, NEW s \in Sockets, Login(s)
    PROVE  ConnInv'
<1>1. endpoint[s] \in Handler /\ endpoint[s].step = "waiting"
      /\ endpoint[s].attempts < MaxAttempts
  BY Typed DEF Login, At, ConnInv, Bounded
<1>2. PICK n \in 0..MaxAttempts : n = endpoint[s].attempts + 1
  <2>1. endpoint[s].attempts \in Nat /\ MaxAttempts \in Nat
    BY <1>1, HandlerFields, ConnectionsAssumption
  <2> QED BY <1>1, <2>1
<1>3. PICK g \in 0..MaxGames : g = Current
  BY DEF ConnInv, Bounded, Current
<1>4. PICK h \in Handler : /\ h = [endpoint[s] EXCEPT !.step = "locking", !.game = g, !.attempts = n]
                           /\ h.step = "locking" /\ h.client = endpoint[s].client
  <2> DEFINE h == [endpoint[s] EXCEPT !.step = "locking", !.game = g, !.attempts = n]
  <2>1. h \in Handler
    BY <1>1 DEF Handler, Steps
  <2>2. h.step = "locking" /\ h.client = endpoint[s].client
    BY <1>1 DEF Handler
  <2> QED BY <2>1, <2>2
<1>5. endpoint' = [endpoint EXCEPT ![s] = h]
  BY <1>2, <1>3, <1>4 DEF Login
<1>6. /\ endpoint' \in [Sockets -> Handler] /\ endpoint'[s] = h
      /\ \A t \in Sockets : t # s => endpoint'[t] = endpoint[t]
  BY <1>5, Typed, HandlerReplaced
<1>7. UNCHANGED <<games, owner, pending, ids, cleaning>>
  BY DEF Login
<1> QED BY <1>1, <1>4, <1>6, <1>7, HandlerMoves DEF Owning

LEMMA StepsKeep ==
    ASSUME ConnInv, NEW s \in Sockets, Entered(s) \/ RefuseLogin(s) \/ Leave(s) \/ Started(s)
    PROVE  ConnInv'
<1>1. endpoint[s].attempts \in Nat /\ MaxAttempts \in Nat
  BY Typed, HandlerFields, ConnectionsAssumption
<1> QED BY <1>1, MovesKeep DEF Entered, RefuseLogin, Leave, Started, At, Steps

-----------------------------------------------------------------------------
(* Sockets are registered and forgotten *)

LEMMA ConnectKeeps ==
    ASSUME ConnInv, NEW s \in Sockets, NEW c \in Clients, Connect(s, c)
    PROVE  ConnInv'
<1>1. /\ endpoint[s].step = "none" /\ Cardinality(pending) < MaxPending
      /\ pending' = pending \cup {s} /\ ids' = [ids EXCEPT ![s] = c]
      /\ endpoint' = [endpoint EXCEPT ![s].step = "accepting", ![s].client = c]
      /\ UNCHANGED <<games, owner, cleaning>>
  BY DEF Connect, At, Room
<1>2. ids[s] = Nobody /\ cleaning[s].step = "none" /\ s \notin pending
      /\ endpoint[s].attempts < MaxAttempts
  BY <1>1 DEF ConnInv, Linked, Bounded
<1>3. PICK h \in Handler : /\ h = [endpoint[s] EXCEPT !.step = "accepting", !.client = c]
                           /\ h.step = "accepting" /\ h.client = c
                           /\ h.attempts = endpoint[s].attempts
  <2> DEFINE h == [endpoint[s] EXCEPT !.step = "accepting", !.client = c]
  <2>0. endpoint[s] \in Handler
    BY Typed
  <2>1. h \in Handler
    BY <2>0 DEF Handler, Steps
  <2>2. h.step = "accepting" /\ h.client = c /\ h.attempts = endpoint[s].attempts
    BY <2>0 DEF Handler
  <2> QED BY <2>1, <2>2
<1>4. endpoint' = [endpoint EXCEPT ![s] = h]
  BY <1>1, <1>3
<1>5. /\ endpoint' \in [Sockets -> Handler] /\ endpoint'[s] = h
      /\ \A t \in Sockets : t # s => endpoint'[t] = endpoint[t]
  BY <1>4, Typed, HandlerReplaced
<1>6. /\ ids' \in [Sockets -> Clients \cup {Nobody}] /\ ids'[s] = c
      /\ \A t \in Sockets : t # s => ids'[t] = ids[t]
  BY <1>1, Typed
<1>7. pending' \subseteq Sockets /\ IsFiniteSet(pending') /\ Cardinality(pending') <= MaxPending
  <2>1. IsFiniteSet(pending)
    BY DEF ConnInv, Bounded
  <2>2. IsFiniteSet(pending') /\ Cardinality(pending') = Cardinality(pending) + 1
    BY <1>1, <1>2, <2>1, FS_AddElement
  <2>3. Cardinality(pending) \in Nat /\ MaxPending \in Nat
    BY <2>1, FS_CardinalityType, ConnectionsAssumption
  <2> QED BY <1>1, <2>2, <2>3, Typed
<1>8. Current' = Current /\ c # Nobody
  BY <1>1, Typed DEF Current
<1>9. ConnectionsTypeOK' /\ OwnersPlay'
  BY <1>1, <1>5, <1>6, <1>7, <1>8 DEF ConnInv, ConnectionsTypeOK, OwnersPlay, Player
<1>10. Bounded'
  BY <1>1, <1>2, <1>3, <1>5, <1>7 DEF ConnInv, Bounded
<1>11. Linked'
  BY <1>1, <1>2, <1>3, <1>5, <1>6, <1>8 DEF ConnInv, Linked
<1>12. Owned'
  <2>1. \A d \in Clients : owner[d] # s
    BY <1>1, Typed DEF ConnInv, Owned
  <2> QED BY <1>1, <1>5, <1>6, <1>8, <2>1, Typed DEF ConnInv, Owned
<1>13. Reportable'
  BY <1>1, <1>3, <1>5, <1>8 DEF ConnInv, Reportable
<1>14. GhostsAreNoticed'
  BY <1>1, <1>5, <1>8 DEF ConnInv, GhostsAreNoticed, Player, At
<1> QED BY <1>9, <1>10, <1>11, <1>12, <1>13, <1>14 DEF ConnInv

\* Whoever the socket owned owns nothing afterwards, and nobody else loses anything.
LEMMA Forgotten ==
    ASSUME ConnInv, NEW s \in Sockets, Forget(s)
    PROVE  /\ pending' \subseteq pending /\ pending' = pending \ {s}
           /\ IsFiniteSet(pending') /\ Cardinality(pending') <= MaxPending
           /\ ids' \in [Sockets -> Clients \cup {Nobody}] /\ ids'[s] = Nobody
           /\ \A t \in Sockets : t # s => ids'[t] = ids[t]
           /\ owner' \in [Clients -> Sockets \cup {Nobody}]
           /\ \A c \in Clients : owner'[c] = IF owner[c] = s THEN Nobody ELSE owner[c]
           /\ \A c \in Clients : owner[c] = s => c = ids[s] /\ Removes(s)
<1>1. /\ pending' = pending \ {s} /\ ids' = [ids EXCEPT ![s] = Nobody]
      /\ owner' = IF Removes(s) THEN [owner EXCEPT ![ids[s]] = Nobody] ELSE owner
  BY DEF Forget
<1>2. IsFiniteSet(pending') /\ Cardinality(pending') <= MaxPending
  <2>1. IsFiniteSet(pending) /\ Cardinality(pending) <= MaxPending
    BY DEF ConnInv, Bounded, ConnectionsTypeOK
  <2>2. IsFiniteSet(pending') /\ Cardinality(pending') <= Cardinality(pending)
    BY <1>1, <2>1, FS_Subset
  <2> QED BY <2>1, <2>2, FS_CardinalityType, ConnectionsAssumption
<1>3. \A c \in Clients : owner[c] = s => c = ids[s] /\ Removes(s)
  BY Typed DEF ConnInv, Owned, Removes, Registered
<1>4. Removes(s) => ids[s] \in Clients /\ owner[ids[s]] = s
  BY Typed DEF Removes, Registered
<1>5. owner' \in [Clients -> Sockets \cup {Nobody}]
  BY <1>1, Typed
<1>6. \A c \in Clients : owner'[c] = IF owner[c] = s THEN Nobody ELSE owner[c]
  BY <1>1, <1>3, <1>4, Typed
<1> QED BY <1>1, <1>2, <1>3, <1>5, <1>6, Typed

\* A socket is forgotten by its handler or by the writer: the parts that this cannot disturb.
LEMMA ForgetKeeps ==
    ASSUME ConnInv, NEW s \in Sockets, Forget(s), UNCHANGED games,
           endpoint' \in [Sockets -> Handler], cleaning' \in [Sockets -> Cleanup],
           \A t \in Sockets : t # s => endpoint'[t] = endpoint[t] /\ cleaning'[t] = cleaning[t],
           endpoint'[s].step # "none",
           cleaning'[s].step = "locking" => cleaning'[s].game \in 1..Current,
           endpoint'[s].step = "reporting" => endpoint'[s].game \in 1..Current,
           endpoint'[s].step \in {"accepting", "waiting"} => endpoint'[s].attempts < MaxAttempts
    PROVE  /\ ConnectionsTypeOK' /\ Bounded' /\ Linked' /\ Owned' /\ Reportable' /\ OwnersPlay'
<1>1. Current' = Current
  BY DEF Current
<1>2. ConnectionsTypeOK' /\ OwnersPlay'
  BY <1>1, Forgotten, Typed DEF ConnInv, ConnectionsTypeOK, OwnersPlay, Player
<1>3. Bounded'
  BY Forgotten DEF ConnInv, Bounded
<1>4. Linked'
  BY Forgotten DEF ConnInv, Linked
<1>5. Owned'
  <2>1. SUFFICES ASSUME NEW c \in Clients, owner'[c] # Nobody
                 PROVE  /\ ids'[owner'[c]] = c /\ owner'[c] \notin pending'
                        /\ endpoint'[owner'[c]].game = Current'
                        /\ endpoint'[owner'[c]].step \in {"entering", "serving", "starting", "leaving"}
    BY DEF Owned
  <2>2. owner'[c] = owner[c] /\ owner[c] # s /\ owner[c] \in Sockets
    BY <2>1, Forgotten, Typed
  <2> QED BY <1>1, <2>1, <2>2, Forgotten DEF ConnInv, Owned
<1>6. Reportable'
  BY <1>1 DEF ConnInv, Reportable
<1> QED BY <1>2, <1>3, <1>4, <1>5, <1>6

\* Nobody becomes a ghost, and no report is lost.
LEMMA NoNewGhost ==
    ASSUME ConnInv, UNCHANGED games,
           \A c \in Clients : Player(Current, c).here /\ owner'[c] = Nobody =>
               \/ \E s \in Sockets : Noticing(c, s)'
               \/ /\ owner[c] = Nobody
                  /\ \A s \in Sockets : Noticing(c, s) => Noticing(c, s)'
    PROVE  GhostsAreNoticed'
<1>1. Current' = Current /\ \A c \in Clients : Player(Current, c)' = Player(Current, c)
  BY DEF Current, Player
<1>2. \A c \in Clients : Player(Current, c).here /\ owner[c] = Nobody =>
          \E s \in Sockets : Noticing(c, s)
  BY DEF ConnInv, GhostsAreNoticed, Noticing
<1>3. \A c \in Clients : Player(Current, c)'.here /\ owner'[c] = Nobody =>
          \E s \in Sockets : Noticing(c, s)'
  BY <1>1, <1>2
<1> QED BY <1>3 DEF GhostsAreNoticed, Noticing

\* A handler ends whose socket owns nobody.
LEMMA OverKeeps ==
    ASSUME ConnInv, NEW s \in Sockets, Forget(s), Ends(s), UNCHANGED <<games, cleaning>>,
           endpoint[s].step \notin {"none", "reporting"},
           \A c \in Clients : owner[c] # s
    PROVE  ConnInv'
<1>1. /\ endpoint' \in [Sockets -> Handler] /\ endpoint'[s].step = "over"
      /\ \A t \in Sockets : t # s => endpoint'[t] = endpoint[t]
  BY Typed, EndsFacts
<1>2. ConnectionsTypeOK' /\ Bounded' /\ Linked' /\ Owned' /\ Reportable' /\ OwnersPlay'
  <2>1. cleaning[s].step = "locking" => cleaning[s].game \in 1..Current
    BY DEF ConnInv, Reportable
  <2> QED BY <1>1, <2>1, Typed, ForgetKeeps
<1>3. \A c \in Clients : owner'[c] = owner[c]
  BY Forgotten
<1>4. \A c \in Clients, t \in Sockets : Noticing(c, t) => Noticing(c, t)'
  BY <1>1 DEF Noticing, At, Player, Current
<1>5. GhostsAreNoticed'
  BY <1>3, <1>4, NoNewGhost
<1> QED BY <1>2, <1>5 DEF ConnInv

LEMMA AcceptedKeeps ==
    ASSUME ConnInv, NEW s \in Sockets, Accepted(s)
    PROVE  ConnInv'
<1>1. endpoint[s].step = "accepting" /\ UNCHANGED <<games, cleaning>>
  BY DEF Accepted, At
<1>2. CASE To(s, "waiting") /\ UNCHANGED <<owner, pending, ids>>
  BY <1>1, <1>2, MovesKeep DEF Steps
<1>3. CASE Ends(s) /\ Forget(s)
  <2>1. \A c \in Clients : owner[c] # s
    BY <1>1, Typed DEF ConnInv, Owned
  <2> QED BY <1>1, <1>3, <2>1, OverKeeps
<1> QED BY <1>2, <1>3 DEF Accepted

LEMMA FailKeeps ==
    ASSUME ConnInv, NEW s \in Sockets, Fail(s)
    PROVE  ConnInv'
<1>1. /\ ids[s] # Nobody /\ endpoint[s].step # "accepting" /\ Forget(s)
      /\ UNCHANGED <<games, endpoint>>
  BY DEF Fail, Registered, At
<1>2. endpoint[s].step \notin {"none", "reporting", "over"} /\ cleaning[s].step = "none"
  BY <1>1 DEF ConnInv, Linked
<1>3. /\ cleaning' \in [Sockets -> Cleanup] /\ cleaning'[s].step # "locking"
      /\ \A t \in Sockets : t # s => cleaning'[t] = cleaning[t]
      /\ Removes(s) => cleaning'[s].step = "noticed" /\ cleaning'[s].client = ids[s]
  <2>1. CASE Removes(s)
    <3>1. PICK w \in Cleanup : w = [step |-> "noticed", client |-> ids[s], game |-> 0]
      <4>1. ids[s] \in Clients /\ 0 \in 0..MaxGames
        BY <1>1, Typed, ConnectionsAssumption
      <4>2. [step |-> "noticed", client |-> ids[s], game |-> 0] \in Cleanup
        BY <4>1 DEF Cleanup
      <4> QED BY <4>2
    <3>2. cleaning' = [cleaning EXCEPT ![s] = w]
      BY <2>1, <3>1 DEF Fail
    <3> QED BY <2>1, <3>1, <3>2, Typed
  <2>2. CASE ~Removes(s)
    BY <1>2, <2>2, Typed DEF Fail
  <2> QED BY <2>1, <2>2
<1>4. ConnectionsTypeOK' /\ Bounded' /\ Linked' /\ Owned' /\ Reportable' /\ OwnersPlay'
  <2>1. endpoint[s].step = "waiting" => endpoint[s].attempts < MaxAttempts
    BY DEF ConnInv, Bounded
  <2> QED BY <1>1, <1>2, <1>3, <2>1, Typed, ForgetKeeps
<1>5. ASSUME NEW c \in Clients, owner'[c] = Nobody
      PROVE  \/ \E t \in Sockets : Noticing(c, t)'
             \/ owner[c] = Nobody /\ \A t \in Sockets : Noticing(c, t) => Noticing(c, t)'
  <2>1. CASE owner[c] = s
    <3>1. cleaning'[s].step = "noticed" /\ cleaning'[s].client = c
      BY <1>1, <1>3, <2>1, Forgotten
    <3> QED BY <3>1 DEF Noticing
  <2>2. CASE owner[c] # s
    <3>1. owner[c] = Nobody
      BY <1>1, <1>5, <2>2, Forgotten
    <3>2. \A t \in Sockets : Noticing(c, t) => Noticing(c, t)'
      BY <1>1, <1>2, <1>3 DEF Noticing, At, Player, Current
    <3> QED BY <3>1, <3>2
  <2> QED BY <2>1, <2>2
<1>6. GhostsAreNoticed'
  BY <1>1, <1>5, NoNewGhost
<1> QED BY <1>4, <1>6 DEF ConnInv

LEMMA RemoveSocketKeeps ==
    ASSUME ConnInv, NEW s \in Sockets, RemoveSocket(s)
    PROVE  ConnInv'
<1>1. endpoint[s].step = "leaving" /\ Forget(s) /\ UNCHANGED <<games, cleaning>>
  BY DEF RemoveSocket, At
<1>2. CASE Removes(s)
  <2>1. /\ ids[s] = endpoint[s].client /\ ids[s] \in Clients /\ owner[ids[s]] = s
        /\ endpoint[s].game = Current /\ cleaning[s].step = "none"
    <3>1. ids[s] # Nobody /\ owner[ids[s]] = s
      BY <1>2 DEF Removes, Registered
    <3>2. ids[s] \in Clients
      BY <3>1, Typed
    <3> QED BY <3>1, <3>2, Typed DEF ConnInv, Linked, Owned
  <2>2. PICK v \in Nat : v = Player(Current, endpoint[s].client).version
    <3>1. games[Current] \in GameState
      BY Typed
    <3>2. Player(Current, endpoint[s].client) \in PlayerState
      BY <2>1, <3>1 DEF Player, GameState
    <3> QED BY <3>2 DEF PlayerState
  <2>3. PICK h \in Handler : /\ h = [endpoint[s] EXCEPT !.step = "reporting", !.version = v]
                             /\ h.step = "reporting" /\ h.version = v
                             /\ h.client = endpoint[s].client /\ h.game = endpoint[s].game
    <3> DEFINE h == [endpoint[s] EXCEPT !.step = "reporting", !.version = v]
    <3>0. endpoint[s] \in Handler
      BY Typed
    <3>1. h \in Handler
      BY <3>0 DEF Handler, Steps
    <3>2. /\ h.step = "reporting" /\ h.version = v
          /\ h.client = endpoint[s].client /\ h.game = endpoint[s].game
      BY <3>0 DEF Handler
    <3> QED BY <3>1, <3>2
  <2>4. endpoint' = [endpoint EXCEPT ![s] = h]
    BY <1>2, <2>1, <2>2, <2>3 DEF RemoveSocket
  <2>5. /\ endpoint' \in [Sockets -> Handler] /\ endpoint'[s] = h
        /\ \A t \in Sockets : t # s => endpoint'[t] = endpoint[t]
    BY <2>4, Typed, HandlerReplaced
  <2>6. Current \in 1..Current
    BY DEF ConnInv, Bounded, Current
  <2>7. ConnectionsTypeOK' /\ Bounded' /\ Linked' /\ Owned' /\ Reportable' /\ OwnersPlay'
    BY <1>1, <2>1, <2>3, <2>5, <2>6, Typed, ForgetKeeps
  <2>8. ASSUME NEW c \in Clients, owner'[c] = Nobody
        PROVE  \/ \E t \in Sockets : Noticing(c, t)'
               \/ owner[c] = Nobody /\ \A t \in Sockets : Noticing(c, t) => Noticing(c, t)'
    <3>1. CASE owner[c] = s
      <4>1. c = endpoint[s].client
        BY <1>1, <2>1, <3>1, Forgotten
      <4> QED BY <1>1, <2>1, <2>2, <2>3, <2>5, <4>1 DEF Noticing, At, Player, Current
    <3>2. CASE owner[c] # s
      <4>1. owner[c] = Nobody
        BY <1>1, <2>8, <3>2, Forgotten
      <4>2. \A t \in Sockets : Noticing(c, t) => Noticing(c, t)'
        BY <1>1, <2>1, <2>5 DEF Noticing, At, Player, Current
      <4> QED BY <4>1, <4>2
    <3> QED BY <3>1, <3>2
  <2>9. GhostsAreNoticed'
    BY <1>1, <2>8, NoNewGhost
  <2> QED BY <2>7, <2>9 DEF ConnInv
<1>3. CASE ~Removes(s)
  <2>1. Ends(s)
    BY <1>3 DEF RemoveSocket, Ends
  <2>2. \A c \in Clients : owner[c] # s
    BY <1>1, <1>3, Forgotten
  <2> QED BY <1>1, <2>1, <2>2, OverKeeps
<1> QED BY <1>2, <1>3

-----------------------------------------------------------------------------
(* Presence *)

LEMMA EnterKeeps ==
    ASSUME ConnInv, NEW s \in Sockets, Enter(s)
    PROVE  ConnInv'
<1>0. PICK g \in 1..Len(games), c \in Clients : g = endpoint[s].game /\ c = endpoint[s].client
  <2>1. endpoint[s].game = Current
    BY DEF Enter, Activates
  <2> QED BY <2>1, Typed, HandlerFields
<1>1. /\ endpoint[s].step = "locking" /\ g = Current /\ s \in pending
      /\ pending' = pending \ {s} /\ owner' = [owner EXCEPT ![c] = s]
      /\ endpoint' = [endpoint EXCEPT ![s].step = "entering", ![s].attempts = 0]
      /\ UNCHANGED <<ids, cleaning>>
  BY <1>0 DEF Enter, At, Activates
<1>2. ids[s] = c /\ ids[s] # Nobody /\ Current = Len(games)
  BY <1>0, <1>1, Typed DEF ConnInv, Linked
<1>3. PICK h \in Handler : /\ h = [endpoint[s] EXCEPT !.step = "entering", !.attempts = 0]
                           /\ h.step = "entering" /\ h.game = g /\ h.client = c
  <2> DEFINE h == [endpoint[s] EXCEPT !.step = "entering", !.attempts = 0]
  <2>0. endpoint[s] \in Handler /\ 0 \in 0..MaxAttempts
    BY Typed, ConnectionsAssumption
  <2>1. h \in Handler
    BY <2>0 DEF Handler, Steps
  <2>2. h.step = "entering" /\ h.game = g /\ h.client = c
    BY <1>0, <2>0 DEF Handler
  <2> QED BY <2>1, <2>2
<1>4. endpoint' = [endpoint EXCEPT ![s] = h]
  BY <1>1, <1>3
<1>5. /\ endpoint' \in [Sockets -> Handler] /\ endpoint'[s] = h
      /\ \A t \in Sockets : t # s => endpoint'[t] = endpoint[t]
  BY <1>4, Typed, HandlerReplaced
<1>6. games[g] \in GameState /\ Player(g, c) \in PlayerState
  <2>1. games[g] \in GameState
    BY <1>2, Typed
  <2> QED BY <1>2, <2>1 DEF GameState, Player
<1>7. PICK p \in PlayerState : p = Arrive(games[g].players[c]) /\ p.here
  <2>1. Player(g, c).version \in Nat /\ Player(g, c).version + 1 \in Nat
    BY <1>6 DEF PlayerState
  <2>2. Arrive(Player(g, c)) \in PlayerState /\ Arrive(Player(g, c)).here
    BY <2>1 DEF Arrive, PlayerState
  <2> QED BY <2>2 DEF Player
<1>8. PICK f \in Phases : f = IF games[g].phase = "awaiting_host" THEN "scenario" ELSE games[g].phase
  BY <1>6 DEF GameState, Phases
<1>9. PICK q \in GameState :
          /\ q = [games[g] EXCEPT !.players = [games[g].players EXCEPT ![c] = p], !.phase = f]
          /\ q.players = [games[g].players EXCEPT ![c] = p]
  <2> DEFINE q == [games[g] EXCEPT !.players = [games[g].players EXCEPT ![c] = p], !.phase = f]
  <2>1. q \in GameState
    BY <1>6 DEF GameState
  <2>2. q.players = [games[g].players EXCEPT ![c] = p]
    BY <1>6 DEF GameState
  <2> QED BY <2>1, <2>2
<1>10. games' = [games EXCEPT ![g] = q]
  <2>1. games' = [games EXCEPT ![g].players[c] = p, ![g].phase = f]
    BY <1>0, <1>7, <1>8 DEF Enter
  <2> QED BY <1>9, <2>1
<1>11. /\ games' \in Seq(GameState) /\ Len(games') = Len(games)
       /\ Player(g, c)' = p
       /\ \A d \in Clients : d # c => Player(g, d)' = Player(g, d)
  <2>1. games \in Seq(GameState) /\ q.players = [games[g].players EXCEPT ![c] = p]
    BY <1>9, Typed
  <2>2. /\ games' \in Seq(GameState) /\ Len(games') = Len(games) /\ Player(g, c)' = p
        /\ \A i \in 1..Len(games), d \in Clients : i # g \/ d # c => Player(i, d)' = Player(i, d)
    BY <1>10, <2>1, PlayerReplaced
  <2> QED BY <2>2
<1>12. Current' = Current /\ g = Len(games)
  BY <1>1, <1>11 DEF Current
<1>13. owner' \in [Clients -> Sockets \cup {Nobody}] /\ owner'[c] = s
       /\ \A d \in Clients : d # c => owner'[d] = owner[d]
  BY <1>1, Typed
<1>14. IsFiniteSet(pending') /\ Cardinality(pending') <= MaxPending /\ pending' \subseteq Sockets
  <2>1. IsFiniteSet(pending) /\ Cardinality(pending) <= MaxPending
    BY DEF ConnInv, Bounded, ConnectionsTypeOK
  <2>2. IsFiniteSet(pending') /\ Cardinality(pending') <= Cardinality(pending)
    BY <1>1, <2>1, FS_Subset
  <2> QED BY <1>1, <2>1, <2>2, Typed, FS_CardinalityType, ConnectionsAssumption
<1>15. ConnectionsTypeOK'
  BY <1>1, <1>5, <1>11, <1>13, <1>14 DEF ConnInv, ConnectionsTypeOK
<1>16. Bounded'
  BY <1>3, <1>5, <1>11, <1>14 DEF ConnInv, Bounded
<1>17. Linked'
  BY <1>0, <1>1, <1>2, <1>3, <1>5 DEF ConnInv, Linked
<1>18. Owned'
  <2>1. \A d \in Clients : owner[d] # s
    BY <1>1, Typed DEF ConnInv, Owned
  <2> QED BY <1>1, <1>2, <1>3, <1>5, <1>12, <1>13, <2>1, Typed DEF ConnInv, Owned
<1>19. Reportable'
  BY <1>1, <1>3, <1>5, <1>12 DEF ConnInv, Reportable
<1>20. OwnersPlay'
  <2>1. \A d \in Clients : d # c => Player(Current, d)' = Player(Current, d)
    BY <1>1, <1>11, <1>12 DEF Player
  <2>2. Player(Current, c)'.here
    BY <1>1, <1>7, <1>11, <1>12 DEF Player
  <2> QED BY <1>13, <2>1, <2>2 DEF ConnInv, OwnersPlay
<1>21. GhostsAreNoticed'
  <2>1. ASSUME NEW d \in Clients, Player(Current, d)'.here, owner'[d] = Nobody
        PROVE  \E t \in Sockets : Noticing(d, t)'
    <3>1. d # c /\ owner[d] = Nobody /\ Player(Current, d)' = Player(Current, d)
      BY <1>1, <1>11, <1>12, <1>13, <2>1, Typed DEF Player
    <3>2. PICK t \in Sockets : Noticing(d, t)
      BY <2>1, <3>1 DEF ConnInv, GhostsAreNoticed, Noticing
    <3>3. Noticing(d, t)'
      BY <1>1, <1>3, <1>5, <1>12, <3>1, <3>2 DEF Noticing, At
    <3> QED BY <3>3
  <2> QED BY <2>1 DEF GhostsAreNoticed, Noticing
<1> QED BY <1>15, <1>16, <1>17, <1>18, <1>19, <1>20, <1>21 DEF ConnInv

\* A report is made to some game: only a client without a socket is parted.
LEMMA GoneKeeps ==
    ASSUME ConnInv, NEW g \in 1..Len(games), NEW c \in Clients, Gone(g, c)
    PROVE  /\ games' \in Seq(GameState) /\ Len(games') = Len(games) /\ Current' = Current
           /\ UNCHANGED owner => OwnersPlay'
           /\ g = Current /\ owner[c] = Nobody => ~Player(Current, c)'.here
           /\ \A d \in Clients : d # c \/ g # Current \/ owner[c] # Nobody =>
                 Player(Current, d)' = Player(Current, d)
<1>1. /\ games' \in Seq(GameState) /\ Len(games') = Len(games)
      /\ \A h \in 1..Len(games), d \in Clients : h # g \/ d # c => Player(h, d)' = Player(h, d)
      /\ owner[c] = Nobody => ~Player(g, c)'.here
      /\ owner[c] # Nobody => games' = games
  BY Typed, GoneLeaves
<1>2. Current' = Current /\ Current \in 1..Len(games)
  BY <1>1, Typed DEF Current
<1>3. \A d \in Clients : d # c \/ g # Current \/ owner[c] # Nobody =>
          Player(Current, d)' = Player(Current, d)
  BY <1>1, <1>2 DEF Player
<1>4. g = Current /\ owner[c] = Nobody => ~Player(Current, c)'.here
  BY <1>1, <1>2 DEF Player
<1>5. UNCHANGED owner => OwnersPlay'
  BY <1>2, <1>3 DEF ConnInv, OwnersPlay
<1> QED BY <1>1, <1>2, <1>3, <1>4, <1>5

LEMMA ReportKeeps ==
    ASSUME ConnInv, NEW s \in Sockets, Report(s)
    PROVE  ConnInv'
<1>1. /\ endpoint[s].step = "reporting" /\ Ends(s) /\ UNCHANGED <<owner, pending, ids, cleaning>>
  BY DEF Report, At
<1>2. PICK g \in 1..Len(games), c \in Clients : g = endpoint[s].game /\ c = endpoint[s].client
  <2>1. endpoint[s].game \in 1..Current
    BY <1>1 DEF ConnInv, Reportable
  <2> QED BY <2>1, Typed, HandlerFields
<1>3. /\ endpoint' \in [Sockets -> Handler] /\ endpoint'[s].step = "over"
      /\ \A t \in Sockets : t # s => endpoint'[t] = endpoint[t]
  BY <1>1, Typed, EndsFacts
<1>4. \/ UNCHANGED games /\ Player(g, c).version # endpoint[s].version
      \/ Gone(g, c)
  BY <1>2 DEF Report
<1>5. /\ games' \in Seq(GameState) /\ Len(games') = Len(games) /\ Current' = Current
      /\ OwnersPlay'
      /\ \A d \in Clients :
            \/ Player(Current, d)' = Player(Current, d)
            \/ d = c /\ ~Player(Current, d)'.here
  <2>1. CASE UNCHANGED games
    BY <1>1, <2>1, Typed DEF ConnInv, OwnersPlay, Player, Current
  <2>2. CASE Gone(g, c)
    BY <1>1, <2>2, GoneKeeps
  <2> QED BY <1>4, <2>1, <2>2
<1>6. ConnectionsTypeOK'
  BY <1>1, <1>3, <1>5 DEF ConnInv, ConnectionsTypeOK
<1>7. Bounded' /\ Linked' /\ Reportable'
  BY <1>1, <1>3, <1>5 DEF ConnInv, Bounded, Linked, Reportable
<1>8. Owned'
  <2>1. \A d \in Clients : owner[d] # s
    BY <1>1, Typed DEF ConnInv, Owned
  <2> QED BY <1>1, <1>3, <1>5, <2>1, Typed DEF ConnInv, Owned
<1>9. GhostsAreNoticed'
  <2>1. ASSUME NEW d \in Clients, Player(Current, d)'.here, owner'[d] = Nobody
        PROVE  \E t \in Sockets : Noticing(d, t)'
    <3>1. Player(Current, d)' = Player(Current, d) /\ owner[d] = Nobody
      BY <1>1, <1>5, <2>1
    <3>2. PICK t \in Sockets : Noticing(d, t)
      BY <2>1, <3>1 DEF ConnInv, GhostsAreNoticed, Noticing
    <3> DEFINE Its == /\ endpoint[s].client = d /\ endpoint[s].game = Current
                      /\ endpoint[s].version = Player(Current, d).version
    <3>3. CASE t # s
      BY <1>1, <1>3, <1>5, <3>1, <3>2, <3>3 DEF Noticing, At
    <3>4. CASE t = s /\ ~Its
      BY <1>1, <1>5, <3>1, <3>2, <3>4 DEF Noticing, At
    <3>5. CASE Its
      <4>1. /\ endpoint[s].client = d /\ endpoint[s].game = Current
            /\ endpoint[s].version = Player(Current, d).version
        BY <3>5
      <4>2. Gone(g, c) /\ d = c /\ g = Current
        BY <1>2, <1>4, <4>1
      <4>3. ~Player(Current, c)'.here
        BY <3>1, <4>2, GoneKeeps
      <4> QED BY <2>1, <4>2, <4>3
    <3> QED BY <3>3, <3>4, <3>5
  <2> QED BY <2>1 DEF GhostsAreNoticed, Noticing
<1> QED BY <1>5, <1>6, <1>7, <1>8, <1>9 DEF ConnInv

\* The clean() task of one socket changes.
LEMMA CleanupReplaced ==
    ASSUME cleaning \in [Sockets -> Cleanup], NEW s \in Sockets, NEW w \in Cleanup,
           cleaning' = [cleaning EXCEPT ![s] = w]
    PROVE  /\ cleaning' \in [Sockets -> Cleanup] /\ cleaning'[s] = w
           /\ \A t \in Sockets : t # s => cleaning'[t] = cleaning[t]
OBVIOUS

LEMMA CleanNoticedKeeps ==
    ASSUME ConnInv, NEW s \in Sockets, CleanNoticed(s)
    PROVE  ConnInv'
<1>1. /\ cleaning[s].step = "noticed" /\ UNCHANGED <<games, owner, pending, ids, endpoint>>
      /\ Current' = Current
  BY DEF CleanNoticed, Current
<1>2. PICK g \in 0..MaxGames : g = Current /\ g \in 1..Current
  BY DEF ConnInv, Bounded, Current
<1>3. PICK w \in Cleanup : /\ w = [cleaning[s] EXCEPT !.step = "locking", !.game = g]
                           /\ w.step = "locking" /\ w.game = g /\ w.client = cleaning[s].client
  <2> DEFINE w == [cleaning[s] EXCEPT !.step = "locking", !.game = g]
  <2>0. cleaning[s] \in Cleanup
    BY Typed
  <2>1. w \in Cleanup
    BY <2>0 DEF Cleanup
  <2>2. w.step = "locking" /\ w.game = g /\ w.client = cleaning[s].client
    BY <2>0 DEF Cleanup
  <2> QED BY <2>1, <2>2
<1>4. cleaning' = [cleaning EXCEPT ![s] = w]
  BY <1>2, <1>3 DEF CleanNoticed
<1>5. /\ cleaning' \in [Sockets -> Cleanup] /\ cleaning'[s] = w
      /\ \A t \in Sockets : t # s => cleaning'[t] = cleaning[t]
  BY <1>4, Typed, CleanupReplaced
<1>6. ConnectionsTypeOK' /\ Bounded' /\ Owned' /\ OwnersPlay'
  BY <1>1, <1>5 DEF ConnInv, ConnectionsTypeOK, Bounded, Owned, OwnersPlay, Player
<1>7. Linked' /\ Reportable'
  <2>1. Linked'
    BY <1>1, <1>5 DEF ConnInv, Linked
  <2>2. \A t \in Sockets : cleaning'[t].step = "locking" => cleaning'[t].game \in 1..Current
    BY <1>2, <1>3, <1>5 DEF ConnInv, Reportable
  <2>3. Reportable'
    BY <1>1, <2>2 DEF ConnInv, Reportable
  <2> QED BY <2>1, <2>3
<1>8. GhostsAreNoticed'
  <2>1. \A c \in Clients, t \in Sockets : Noticing(c, t) => Noticing(c, t)'
    BY <1>1, <1>2, <1>3, <1>5 DEF Noticing, At, Player
  <2> QED BY <1>1, <2>1, NoNewGhost
<1> QED BY <1>6, <1>7, <1>8 DEF ConnInv

LEMMA CleanReportedKeeps ==
    ASSUME ConnInv, NEW s \in Sockets, CleanReported(s)
    PROVE  ConnInv'
<1>1. /\ cleaning[s].step = "locking" /\ cleaning' = [cleaning EXCEPT ![s] = NotCleaning]
      /\ UNCHANGED <<owner, pending, ids, endpoint>>
  BY DEF CleanReported
<1>2. PICK g \in 1..Len(games), c \in Clients : g = cleaning[s].game /\ c = cleaning[s].client
  <2>1. cleaning[s].game \in 1..Current /\ cleaning[s].client \in Clients
    BY <1>1, Typed DEF ConnInv, Reportable, Cleanup
  <2> QED BY <2>1, Typed
<1>3. Gone(g, c)
  BY <1>2 DEF CleanReported
<1>4. /\ cleaning' \in [Sockets -> Cleanup] /\ cleaning'[s].step = "none"
      /\ \A t \in Sockets : t # s => cleaning'[t] = cleaning[t]
  BY <1>1, Typed, OverTyped, CleanupReplaced
<1>5. /\ games' \in Seq(GameState) /\ Len(games') = Len(games) /\ Current' = Current
      /\ OwnersPlay'
      /\ g = Current /\ owner[c] = Nobody => ~Player(Current, c)'.here
      /\ \A d \in Clients : d # c \/ g # Current \/ owner[c] # Nobody =>
            Player(Current, d)' = Player(Current, d)
  BY <1>1, <1>3, GoneKeeps
<1>6. ConnectionsTypeOK' /\ Bounded' /\ Linked' /\ Owned' /\ Reportable'
  BY <1>1, <1>4, <1>5
     DEF ConnInv, ConnectionsTypeOK, Bounded, Linked, Owned, Reportable
<1>7. GhostsAreNoticed'
  <2>1. ASSUME NEW d \in Clients, Player(Current, d)'.here, owner'[d] = Nobody
        PROVE  \E t \in Sockets : Noticing(d, t)'
    <3>1. /\ owner[d] = Nobody /\ (d # c \/ g # Current)
          /\ Player(Current, d)' = Player(Current, d)
      BY <1>1, <1>5, <2>1
    <3>2. PICK t \in Sockets : Noticing(d, t)
      BY <2>1, <3>1 DEF ConnInv, GhostsAreNoticed, Noticing
    <3>3. endpoint[t].step = "reporting" \/ t # s
      BY <1>1, <1>2, <3>1, <3>2 DEF Noticing, At
    <3>4. Noticing(d, t)'
      BY <1>1, <1>2, <1>4, <1>5, <3>1, <3>2, <3>3 DEF Noticing, At
    <3> QED BY <3>4
  <2> QED BY <2>1 DEF GhostsAreNoticed, Noticing
<1> QED BY <1>5, <1>6, <1>7 DEF ConnInv

-----------------------------------------------------------------------------
(* The games *)

LEMMA AdvanceKeeps ==
    ASSUME ConnInv, NEW from, NEW to \in Phases, Advance(from, to)
    PROVE  ConnInv'
<1>1. /\ games' = [games EXCEPT ![Current].phase = to]
      /\ UNCHANGED <<owner, pending, ids, endpoint, cleaning>>
  BY DEF Advance
<1>2. games[Current] \in GameState /\ Current \in 1..Len(games)
  BY Typed
<1>3. PICK q \in GameState : /\ q = [games[Current] EXCEPT !.phase = to]
                             /\ q.players = games[Current].players
  <2> DEFINE q == [games[Current] EXCEPT !.phase = to]
  <2>1. q \in GameState /\ q.players = games[Current].players
    BY <1>2 DEF GameState
  <2> QED BY <2>1
<1>4. games' = [games EXCEPT ![Current] = q]
  BY <1>1, <1>3
<1>5. /\ games' \in Seq(GameState) /\ Len(games') = Len(games) /\ games'[Current] = q
  BY <1>2, <1>4, Typed, GameReplaced
<1>6. Current' = Current /\ \A c \in Clients : Player(Current, c)' = Player(Current, c)
  BY <1>3, <1>5 DEF Current, Player
<1>7. ConnectionsTypeOK' /\ Bounded' /\ Linked' /\ Owned' /\ Reportable'
  BY <1>1, <1>5, <1>6 DEF ConnInv, ConnectionsTypeOK, Bounded, Linked, Owned, Reportable
<1>8. OwnersPlay' /\ GhostsAreNoticed'
  BY <1>1, <1>6 DEF ConnInv, OwnersPlay, GhostsAreNoticed, At
<1> QED BY <1>7, <1>8 DEF ConnInv

LEMMA GamePublished ==
    ASSUME NEW before \in Seq(GameState), NEW g \in GameState
    PROVE  /\ Append(before, g) \in Seq(GameState)
           /\ Len(Append(before, g)) = Len(before) + 1
           /\ Append(before, g)[Len(before) + 1] = g
OBVIOUS

\* The successor takes over with nobody but the host, whose socket alone is not let go.
LEMMA NewGameKeeps ==
    ASSUME ConnInv, NEW s \in Sockets, NewGame(s)
    PROVE  ConnInv'
<1> DEFINE others == {owner[c] : c \in Clients \ {Host}} \ {Nobody}
           players == [c \in Clients |-> IF c = Host THEN Present ELSE Absent]
<1>1. /\ endpoint[s].step = "serving" /\ endpoint[s].client = Host /\ owner[Host] = s
      /\ Current < MaxGames
      /\ games' = Append(games, [phase |-> "scenario", players |-> players])
      /\ ids' = [t \in Sockets |-> IF t \in others THEN Nobody ELSE ids[t]]
      /\ owner' = [c \in Clients |-> IF c = Host THEN s ELSE Nobody]
      /\ endpoint' = [endpoint EXCEPT ![s].step = "starting", ![s].game = Current + 1]
      /\ UNCHANGED <<pending, cleaning>>
  BY DEF NewGame, Authorized, At, Owns
<1>2. Host \in Clients /\ s # Nobody
  BY ConnectionsAssumption, Typed
<1>3. PICK n \in 1..MaxGames : n = Current + 1
  BY <1>1, Typed, ConnectionsAssumption
<1>4. PICK h \in Handler : /\ h = [endpoint[s] EXCEPT !.step = "starting", !.game = n]
                           /\ h.step = "starting" /\ h.game = n /\ h.client = Host
  <2> DEFINE h == [endpoint[s] EXCEPT !.step = "starting", !.game = n]
  <2>0. endpoint[s] \in Handler /\ n \in 0..MaxGames
    BY Typed
  <2>1. h \in Handler
    BY <2>0 DEF Handler, Steps
  <2>2. h.step = "starting" /\ h.game = n /\ h.client = Host
    BY <1>1, <2>0 DEF Handler
  <2> QED BY <2>1, <2>2
<1>5. endpoint' = [endpoint EXCEPT ![s] = h]
  BY <1>1, <1>3, <1>4
<1>6. /\ endpoint' \in [Sockets -> Handler] /\ endpoint'[s] = h
      /\ \A t \in Sockets : t # s => endpoint'[t] = endpoint[t]
  BY <1>5, Typed, HandlerReplaced
<1>7. PICK g \in GameState : g = [phase |-> "scenario", players |-> players] /\ g.players = players
  <2>1. players \in [Clients -> PlayerState]
    BY DEF Present, Absent, PlayerState
  <2> HIDE DEF players
  <2>2. [phase |-> "scenario", players |-> players] \in GameState
    BY <2>1 DEF GameState, Phases
  <2> QED BY <2>2
<1>8. /\ games' \in Seq(GameState) /\ Len(games') = n /\ Current' = n /\ games'[n] = g
  BY <1>1, <1>3, <1>7, Typed, GamePublished DEF Current
<1>9. \A c \in Clients : Player(Current, c)'.here <=> c = Host
  BY <1>7, <1>8 DEF Player, Present, Absent
<1>10. /\ owner' \in [Clients -> Sockets \cup {Nobody}] /\ owner'[Host] = s
       /\ \A c \in Clients : c # Host => owner'[c] = Nobody
  BY <1>1, <1>2
<1>11. /\ \A t \in others : t \in Sockets /\ t \notin pending /\ ids[t] # Host
  BY Typed DEF ConnInv, Owned
<1>12. ids[s] = Host /\ s \notin others /\ s \notin pending
  BY <1>1, <1>2, <1>11 DEF ConnInv, Owned
<1> HIDE DEF others, players
<1>13. /\ ids' \in [Sockets -> Clients \cup {Nobody}] /\ ids'[s] = Host
       /\ \A t \in Sockets : ids'[t] = Nobody \/ ids'[t] = ids[t]
       /\ \A t \in pending : ids'[t] = ids[t]
  BY <1>1, <1>11, <1>12, Typed
<1>14. ConnectionsTypeOK'
  BY <1>1, <1>6, <1>8, <1>10, <1>13 DEF ConnInv, ConnectionsTypeOK
<1>15. Bounded'
  BY <1>1, <1>4, <1>6, <1>8 DEF ConnInv, Bounded
<1>16. Linked'
  BY <1>1, <1>4, <1>6, <1>13 DEF ConnInv, Linked
<1>17. Owned'
  BY <1>1, <1>2, <1>4, <1>6, <1>8, <1>10, <1>12, <1>13 DEF Owned
<1>18. Reportable'
  <2>1. 1..Current \subseteq 1..n
    BY <1>3, Typed
  <2>2. \A t \in Sockets : endpoint'[t].step = "reporting" => endpoint'[t].game \in 1..Current
    BY <1>4, <1>6 DEF ConnInv, Reportable
  <2> QED BY <1>1, <1>8, <2>1, <2>2 DEF ConnInv, Reportable
<1>19. OwnersPlay' /\ GhostsAreNoticed'
  BY <1>2, <1>9, <1>10 DEF OwnersPlay, GhostsAreNoticed
<1> QED BY <1>14, <1>15, <1>16, <1>17, <1>18, <1>19 DEF ConnInv

-----------------------------------------------------------------------------
(* The theorems *)

LEMMA ConnInvInit == ConnectionsInit => ConnInv
<1> SUFFICES ASSUME ConnectionsInit PROVE ConnInv
  OBVIOUS
<1> DEFINE players == [c \in Clients |-> Absent]
<1>1. /\ games = <<[phase |-> "awaiting_host", players |-> players]>>
      /\ owner = [c \in Clients |-> Nobody] /\ ids = [s \in Sockets |-> Nobody]
      /\ pending = {} /\ endpoint = [s \in Sockets |-> NewEndpoint]
      /\ cleaning = [s \in Sockets |-> NotCleaning]
  BY DEF ConnectionsInit
<1>2. players \in [Clients -> PlayerState] /\ \A c \in Clients : ~players[c].here
  BY DEF Absent, PlayerState
<1> HIDE DEF players
<1>3. PICK g \in GameState : g = [phase |-> "awaiting_host", players |-> players]
                             /\ g.players = players
  <2>1. [phase |-> "awaiting_host", players |-> players] \in GameState
    BY <1>2 DEF GameState, Phases
  <2> QED BY <2>1
<1>4. games \in Seq(GameState) /\ Len(games) = 1 /\ games[1] = g
  BY <1>1, <1>3
<1>5. IsFiniteSet(pending) /\ Cardinality(pending) = 0 /\ pending \subseteq Sockets
  BY <1>1, FS_EmptySet
<1>6. \A s \in Sockets : endpoint[s] = NewEndpoint /\ cleaning[s] = NotCleaning /\ ids[s] = Nobody
  BY <1>1
<1>7. ConnectionsTypeOK
  <2>1. Cardinality(pending) <= MaxPending
    BY <1>5, ConnectionsAssumption
  <2>2. /\ owner \in [Clients -> Sockets \cup {Nobody}] /\ ids \in [Sockets -> Clients \cup {Nobody}]
    BY <1>1
  <2>3. endpoint \in [Sockets -> Handler] /\ cleaning \in [Sockets -> Cleanup]
    BY <1>1, OverTyped
  <2> QED BY <1>4, <1>5, <2>1, <2>2, <2>3 DEF ConnectionsTypeOK
<1>8. Bounded
  BY <1>4, <1>5, <1>6, OverTyped, ConnectionsAssumption DEF Bounded
<1>9. Linked /\ Reportable
  BY <1>1, <1>6, OverTyped DEF Linked, Reportable
<1>10. Owned /\ OwnersPlay
  BY <1>1 DEF Owned, OwnersPlay
<1>11. GhostsAreNoticed
  BY <1>2, <1>3, <1>4 DEF GhostsAreNoticed, Player, Current
<1> QED BY <1>7, <1>8, <1>9, <1>10, <1>11 DEF ConnInv

LEMMA ConnInvNext == ConnInv /\ [ConnectionsNext]_connectionVars => ConnInv'
<1> SUFFICES ASSUME ConnInv, [ConnectionsNext]_connectionVars PROVE ConnInv'
  OBVIOUS
<1>1. CASE UNCHANGED connectionVars
  BY <1>1 DEF ConnInv, connectionVars, ConnectionsTypeOK, Bounded, Linked, Owned, Reportable,
              OwnersPlay, GhostsAreNoticed, Player, At, Current
<1>2. ASSUME NEW s \in Sockets,
             \/ \E c \in Clients : Connect(s, c)
             \/ Refuse(s) \/ Accepted(s) \/ Fail(s) \/ Login(s) \/ Enter(s)
             \/ Entered(s) \/ RefuseLogin(s) \/ Leave(s) \/ Started(s)
      PROVE  ConnInv'
  BY <1>2, ConnectKeeps, RefuseKeeps, AcceptedKeeps, FailKeeps, LoginKeeps, EnterKeeps, StepsKeep
<1>3. ASSUME NEW s \in Sockets,
             \/ RemoveSocket(s) \/ Report(s) \/ CleanNoticed(s) \/ CleanReported(s) \/ NewGame(s)
      PROVE  ConnInv'
  BY <1>3, RemoveSocketKeeps, ReportKeeps, CleanNoticedKeeps, CleanReportedKeeps, NewGameKeeps
<1>4. CASE OpenLobby \/ StartGame \/ EndGame
  BY <1>4, AdvanceKeeps DEF OpenLobby, StartGame, EndGame, Phases
<1> QED BY <1>1, <1>2, <1>3, <1>4 DEF ConnectionsNext

\* Sockets waiting to authenticate stay within their limit, and so do the attempts of each.
THEOREM ConnectionsTyped == ConnectionsSpec => []ConnectionsTypeOK
<1>1. ConnInv => ConnectionsTypeOK
  BY DEF ConnInv
<1> QED BY <1>1, ConnInvInit, ConnInvNext, PTL DEF ConnectionsSpec

\* A socket owns a client only as a connected player of the current game, across any number of
\* replaced sockets and replaced games (activate, start_new_game, handle_disconnect).
THEOREM OwnersPlaying == ConnectionsSpec => []OwnersPlay
<1>1. ConnInv => OwnersPlay
  BY DEF ConnInv
<1> QED BY <1>1, ConnInvInit, ConnInvNext, PTL DEF ConnectionsSpec

\* A connected player who lost every socket is always about to be reported to the current game
\* (the endpoint's finally block, _fail, clean).
THEOREM GhostsNoticed == ConnectionsSpec => []GhostsAreNoticed
<1>1. ConnInv => GhostsAreNoticed
  BY DEF ConnInv
<1> QED BY <1>1, ConnInvInit, ConnInvNext, PTL DEF ConnectionsSpec

\* The end of an older socket never takes its client from the socket that replaced it
\* (disconnect, _forget).
THEOREM SuccessorsSpared == ConnectionsSpec => SuccessorSpared
<1> DEFINE Spared == \A c \in Clients : owner'[c] # owner[c] /\ owner[c] # Nobody =>
                        owner'[c] \in pending \/ ids'[owner[c]] = Nobody
<1>1. ConnInv /\ [ConnectionsNext]_connectionVars => [Spared]_connectionVars
  <2> SUFFICES ASSUME ConnInv, ConnectionsNext PROVE Spared
    OBVIOUS
  <2>1. ASSUME NEW s \in Sockets, Forget(s) PROVE Spared
    <3>1. \A c \in Clients : owner'[c] # owner[c] => owner[c] = s
      BY <2>1, Forgotten
    <3> QED BY <2>1, <3>1, Forgotten
  <2>2. ASSUME NEW s \in Sockets, Enter(s) PROVE Spared
    BY <2>2, Typed DEF Enter, Activates
  <2>3. ASSUME NEW s \in Sockets, NewGame(s) PROVE Spared
    <3>1. owner[Host] = s /\ owner' = [c \in Clients |-> IF c = Host THEN s ELSE Nobody]
      BY <2>3 DEF NewGame, Authorized, Owns
    <3>2. \A c \in Clients : c # Host /\ owner[c] # Nobody => ids'[owner[c]] = Nobody
      BY <2>3, Typed DEF NewGame
    <3> QED BY <3>1, <3>2
  <2>4. CASE UNCHANGED owner
    BY <2>4
  <2> QED BY <2>1, <2>2, <2>3, <2>4
          DEF ConnectionsNext, Connect, Refuse, Accepted, Fail, Login, Entered, RefuseLogin, Leave,
              RemoveSocket, Report, CleanNoticed, CleanReported, Started, OpenLobby, StartGame,
              EndGame, Advance
<1> QED BY <1>1, ConnInvInit, ConnInvNext, PTL DEF ConnectionsSpec, SuccessorSpared
=============================================================================
