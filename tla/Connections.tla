---------------------------- MODULE Connections ----------------------------
(***************************************************************************)
(* Sockets, the clients they authenticate as, and the game they play: the  *)
(* ConnectionManager, the WebSocket endpoint and start_new_game            *)
(* (api/server.py) over the presence of GameEngine.                        *)
(*                                                                         *)
(* The server has one current game at a time and replaces it when the host *)
(* asks; handlers of the old game go on with the engine they remember.     *)
(* Session has what a game does with its players; here a game is its phase *)
(* and the presence of its players.  A step that may await (an engine's    *)
(* lock or effects_lock, a send, a close) ends there.  A transport may      *)
(* close at any moment, so that the server closes one is not recorded: its *)
(* handler may read the close whenever it reads.                           *)
(***************************************************************************)
EXTENDS Integers, Sequences, FiniteSets

CONSTANTS
    Clients,       \* client ids
    Host,          \* the one who knows the host password
    Sockets,       \* each connects once
    Nobody,        \* no socket, no client
    MaxPending,    \* max_pending_connections
    MaxAttempts,   \* max_auth_attempts
    MaxPlayers,    \* max_players
    MaxGames       \* bound: games played

ASSUME ConnectionsAssumption ==
    /\ Host \in Clients /\ Nobody \notin Clients \cup Sockets
    /\ {MaxPending, MaxAttempts, MaxPlayers, MaxGames} \subseteq Nat \ {0}

VARIABLES
    games,      \* the engines created; the last is application.state.engine
    owner,      \* active_connections: the socket of each client
    pending,    \* sockets not authenticated
    ids,        \* _ids: the client of each registered socket
    endpoint,   \* the handler of each socket
    cleaning    \* the clean() task of a socket that failed

connectionVars == <<games, owner, pending, ids, endpoint, cleaning>>

Phases == {"awaiting_host", "scenario", "lobby", "playing", "ended"}
Absent == [here |-> FALSE, joined |-> FALSE, version |-> 0]
Present == [here |-> TRUE, joined |-> TRUE, version |-> 0]
NewEndpoint == [step |-> "none", client |-> Host, game |-> 0, attempts |-> 0, version |-> 0]
Over == [NewEndpoint EXCEPT !.step = "over"]
NotCleaning == [step |-> "none", client |-> Host, game |-> 0]

Current == Len(games)

Steps == {"none", "accepting", "waiting", "locking", "entering", "serving", "starting",
          "leaving", "reporting", "over"}
PlayerState == [here : BOOLEAN, joined : BOOLEAN, version : Nat]
GameState == [phase : Phases, players : [Clients -> PlayerState]]
Handler == [step : Steps, client : Clients, game : 0..MaxGames, attempts : 0..MaxAttempts,
            version : Nat]
Cleanup == [step : {"none", "noticed", "locking"}, client : Clients, game : 0..MaxGames]

ConnectionsTypeOK ==
    /\ games \in Seq(GameState)
    /\ owner \in [Clients -> Sockets \cup {Nobody}]
    /\ ids \in [Sockets -> Clients \cup {Nobody}]
    /\ pending \subseteq Sockets /\ Cardinality(pending) <= MaxPending
    /\ endpoint \in [Sockets -> Handler]
    /\ cleaning \in [Sockets -> Cleanup]

ConnectionsInit ==
    /\ games = <<[phase |-> "awaiting_host", players |-> [c \in Clients |-> Absent]]>>
    /\ owner = [c \in Clients |-> Nobody] /\ ids = [s \in Sockets |-> Nobody]
    /\ pending = {}
    /\ endpoint = [s \in Sockets |-> NewEndpoint]
    /\ cleaning = [s \in Sockets |-> NotCleaning]

-----------------------------------------------------------------------------
(* ConnectionManager *)

Registered(s) == ids[s] # Nobody
Owns(s) == owner[endpoint[s].client] = s

\* Mutant: a replaced socket takes its successor with it.
RemovesAnyway(s) == Registered(s) /\ owner[ids[s]] # Nobody
Removes(s) == Registered(s) /\ owner[ids[s]] = s

Forget(s) ==
    /\ pending' = pending \ {s}
    /\ ids' = [ids EXCEPT ![s] = Nobody]
    /\ owner' = IF Removes(s) THEN [owner EXCEPT ![ids[s]] = Nobody] ELSE owner

At(s, step) == endpoint[s].step = step
Ends(s) == endpoint' = [endpoint EXCEPT ![s] = Over]
To(s, step) == endpoint' = [endpoint EXCEPT ![s].step = step]

\* Mutant: pending sockets are not limited.
RoomForAll == TRUE
Room == Cardinality(pending) < MaxPending

\* A socket of another origin, or blocked by a budget, or beyond the limit of pending ones, is
\* refused.
Connect(s, c) ==
    /\ At(s, "none")
    /\ Room
    /\ pending' = pending \cup {s} /\ ids' = [ids EXCEPT ![s] = c]
    /\ endpoint' = [endpoint EXCEPT ![s].step = "accepting", ![s].client = c]
    /\ UNCHANGED <<games, owner, cleaning>>

Refuse(s) ==
    /\ At(s, "none")
    /\ Ends(s)
    /\ UNCHANGED <<games, owner, pending, ids, cleaning>>

\* accept succeeds, or raises.
Accepted(s) ==
    /\ At(s, "accepting")
    /\ \/ To(s, "waiting") /\ UNCHANGED <<owner, pending, ids>>
       \/ Ends(s) /\ Forget(s)
    /\ UNCHANGED <<games, cleaning>>

\* _fail: the queue is full, or the writer cannot send.
Fail(s) ==
    /\ Registered(s) /\ ~At(s, "accepting")
    /\ Forget(s)
    /\ cleaning' = IF Removes(s)
                   THEN [cleaning EXCEPT ![s] = [step |-> "noticed", client |-> ids[s], game |-> 0]]
                   ELSE cleaning
    /\ UNCHANGED <<games, endpoint>>

-----------------------------------------------------------------------------
(* Presence: _authenticate and handle_disconnect *)

Player(g, c) == games[g].players[c]

\* Correct credentials and a phase that takes this client.
Welcome(g, c) ==
    \/ Player(g, c).joined
    \/ games[g].phase = "awaiting_host" /\ c = Host
    \/ /\ games[g].phase = "lobby"
       /\ Cardinality({p \in Clients : Player(g, p).joined}) < MaxPlayers

\* Mutant: the socket is promoted in whatever game it authenticated to.
ActivatesAnywhere(s) == s \in pending
\* activate: raises when the game changed, or the socket was forgotten.
Activates(s) == endpoint[s].game = Current /\ s \in pending

Arrive(player) == [here |-> TRUE, joined |-> TRUE,
                   version |-> IF player.joined /\ ~player.here THEN player.version + 1
                               ELSE player.version]

\* A login is read; the engine of this moment is remembered, then its lock awaited.
Login(s) ==
    /\ At(s, "waiting")
    /\ endpoint' = [endpoint EXCEPT ![s].step = "locking", ![s].game = Current,
                                    ![s].attempts = @ + 1]
    /\ UNCHANGED <<games, owner, pending, ids, cleaning>>

\* Under the lock, the socket is promoted and the player connected together; its attempts
\* are not read again.
Enter(s) ==
    LET g == endpoint[s].game
        c == endpoint[s].client
    IN /\ At(s, "locking")
       /\ Welcome(g, c) /\ Activates(s)
       /\ pending' = pending \ {s} /\ owner' = [owner EXCEPT ![c] = s]
       /\ endpoint' = [endpoint EXCEPT ![s].step = "entering", ![s].attempts = 0]
       /\ games' = [games EXCEPT ![g].players[c] = Arrive(@),
                                 ![g].phase = IF @ = "awaiting_host" THEN "scenario" ELSE @]
       /\ UNCHANGED <<ids, cleaning>>

\* The snapshot and the announcements are sent, and the replaced socket closed.
Entered(s) ==
    /\ At(s, "entering")
    /\ To(s, "serving")
    /\ UNCHANGED <<games, owner, pending, ids, cleaning>>

\* Wrong credentials, a phase that takes nobody, or activate raised.
RefuseLogin(s) ==
    /\ At(s, "locking")
    /\ To(s, IF endpoint[s].attempts >= MaxAttempts THEN "leaving" ELSE "waiting")
    /\ UNCHANGED <<games, owner, pending, ids, cleaning>>

\* Mutant: a socket that has not logged in makes its client present.
NoSocketAtAll(c) == \A s \in Sockets : ids[s] # c
StillDisconnected(c) == owner[c] = Nobody

Left(player) == [player EXCEPT !.here = FALSE, !.version = @ + 1]
Gone(g, c) ==
    IF Player(g, c).here /\ StillDisconnected(c)
    THEN games' = [games EXCEPT ![g].players[c] = Left(@)]
    ELSE UNCHANGED games

-----------------------------------------------------------------------------
(* The end of a socket *)

\* The endpoint reads that the transport is closed, or a message of a socket that owns its
\* client no longer; the login deadline passes, or the budget of failures is spent.
Leave(s) ==
    /\ At(s, "waiting") \/ At(s, "serving")
    /\ To(s, "leaving")
    /\ UNCHANGED <<games, owner, pending, ids, cleaning>>

\* The finally block, under the lock of the engine last remembered.
RemoveSocket(s) ==
    /\ At(s, "leaving")
    /\ Forget(s)
    /\ endpoint' = IF Removes(s)
                   THEN [endpoint EXCEPT ![s].step = "reporting", ![s].version =
                            Player(endpoint[s].game, endpoint[s].client).version]
                   ELSE [endpoint EXCEPT ![s] = Over]
    /\ UNCHANGED <<games, cleaning>>

\* handle_disconnect, once effects_lock is free.
Report(s) ==
    LET g == endpoint[s].game
        c == endpoint[s].client
    IN /\ At(s, "reporting")
       /\ Ends(s)
       /\ IF Player(g, c).version = endpoint[s].version THEN Gone(g, c) ELSE UNCHANGED games
       /\ UNCHANGED <<owner, pending, ids, cleaning>>

\* clean: takes the engine of this moment, and awaits its effects_lock.
CleanNoticed(s) ==
    /\ cleaning[s].step = "noticed"
    /\ cleaning' = [cleaning EXCEPT ![s].step = "locking", ![s].game = Current]
    /\ UNCHANGED <<games, owner, pending, ids, endpoint>>

CleanReported(s) ==
    /\ cleaning[s].step = "locking"
    /\ Gone(cleaning[s].game, cleaning[s].client)
    /\ cleaning' = [cleaning EXCEPT ![s] = NotCleaning]
    /\ UNCHANGED <<owner, pending, ids, endpoint>>

-----------------------------------------------------------------------------
(* The games *)

Authorized(s) == At(s, "serving") /\ Owns(s)

\* The host starts the game, and ends it; the scenario opens the lobby by itself.
Advance(from, to) ==
    /\ games[Current].phase = from
    /\ games' = [games EXCEPT ![Current].phase = to]
    /\ UNCHANGED <<owner, pending, ids, endpoint, cleaning>>

OpenLobby == Advance("scenario", "lobby")
StartGame == (\E s \in Sockets : Authorized(s) /\ endpoint[s].client = Host)
             /\ Advance("lobby", "playing")
EndGame == (\E s \in Sockets : Authorized(s) /\ endpoint[s].client = Host)
           /\ Advance("playing", "ended")

\* start_new_game: from the check of the ended game to the publication of the next one
\* nothing is awaited; everybody else's socket is forgotten, then closed.  The endpoint
\* remembers the new engine when it returns, and reads nothing before that.
NewGame(s) ==
    LET others == {owner[c] : c \in Clients \ {Host}} \ {Nobody}
    IN /\ Authorized(s) /\ endpoint[s].client = Host
       /\ games[Current].phase = "ended" /\ Current < MaxGames
       /\ games' = Append(games, [phase |-> "scenario", players |->
                              [c \in Clients |-> IF c = Host THEN Present ELSE Absent]])
       /\ ids' = [t \in Sockets |-> IF t \in others THEN Nobody ELSE ids[t]]
       /\ owner' = [c \in Clients |-> IF c = Host THEN s ELSE Nobody]
       /\ endpoint' = [endpoint EXCEPT ![s].step = "starting", ![s].game = Current + 1]
       /\ UNCHANGED <<pending, cleaning>>

\* The old game is shut down, and the host sent the snapshot of the new one.
Started(s) ==
    /\ At(s, "starting")
    /\ To(s, "serving")
    /\ UNCHANGED <<games, owner, pending, ids, cleaning>>

ConnectionsNext ==
    \/ \E s \in Sockets :
          \/ \E c \in Clients : Connect(s, c)
          \/ Refuse(s) \/ Accepted(s) \/ Fail(s)
          \/ Login(s) \/ Enter(s) \/ Entered(s) \/ RefuseLogin(s)
          \/ Leave(s) \/ RemoveSocket(s) \/ Report(s)
          \/ CleanNoticed(s) \/ CleanReported(s)
          \/ NewGame(s) \/ Started(s)
    \/ OpenLobby \/ StartGame \/ EndGame

ConnectionsSpec == ConnectionsInit /\ [][ConnectionsNext]_connectionVars

-----------------------------------------------------------------------------
(* Properties *)

\* Whoever owns a socket is a connected player of the current game: neither a late login to
\* the game before nor the belated report of an older socket can part the two.
OwnersPlay == \A c \in Clients : owner[c] # Nobody => Player(Current, c).here

\* A connected player without a socket is about to be reported: some handler or clean() task
\* still holds the report, and it will be neither refused as stale nor made to another game.
GhostsAreNoticed ==
    \A c \in Clients : Player(Current, c).here /\ owner[c] = Nobody =>
        \E s \in Sockets :
            \/ /\ At(s, "reporting") /\ endpoint[s].client = c
               /\ endpoint[s].game = Current
               /\ endpoint[s].version = Player(Current, c).version
            \/ cleaning[s].step = "noticed" /\ cleaning[s].client = c
            \/ /\ cleaning[s].step = "locking" /\ cleaning[s].client = c
               /\ cleaning[s].game = Current

\* A socket stops owning its client only when it is itself forgotten or a login replaces it:
\* the end of an older socket of the same client, however late, leaves its successor alone.
SuccessorSpared ==
    [][\A c \in Clients : owner'[c] # owner[c] /\ owner[c] # Nobody =>
          owner'[c] \in pending \/ ids'[owner[c]] = Nobody]_connectionVars
=============================================================================
