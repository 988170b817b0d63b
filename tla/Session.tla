------------------------------ MODULE Session ------------------------------
(***************************************************************************)
(* One game session of AnyWorld: GameEngine with its LobbyMixin            *)
(* (logic/engine.py, logic/lobby.py) and the presence half of the          *)
(* WebSocket endpoint that feeds it.                                       *)
(*                                                                         *)
(* The engine runs on one asyncio event loop, so a step here is what the   *)
(* code does between two suspension points.  `lock` is never held across   *)
(* one, and each `async with self.lock` block is a single step;            *)
(* `effects_lock` is held across archive writes and deliveries, and is the *)
(* variable `effects`.  Every other task may run while it is held.         *)
(***************************************************************************)
EXTENDS TurnOrder

CONSTANTS
    MaxPlayers,          \* settings.server.max_players
    Attempts,            \* tries of one job: range(3) in _run_job
    DiceOutcomes,        \* what a dice plan can roll for a round
    Losses,              \* ways a socket is lost: "closed", "failed"
    DeliveryDeadlines,   \* whether the job deadline may strike after a commit
    MaxRounds,           \* bound: no action is submitted for a later round
    MaxChanges,          \* bound: presence changes of all players together
    MaxGeneration,       \* bound: jobs the host may launch
    MaxShutdowns         \* bound: shutdowns waiting at the same time

ASSUME BoundsAssumption ==
    /\ MaxPlayers \in Nat /\ Attempts \in Nat \ {0}
    /\ Losses \subseteq {"closed", "failed"} /\ DeliveryDeadlines \in BOOLEAN
    /\ MaxRounds \in Nat /\ MaxChanges \in Nat
    /\ MaxGeneration \in Nat /\ MaxShutdowns \in Nat

VARIABLES
    phase,            \* GameEngine.state
    joinOrder,        \* players in the order they joined; the first is the host
    connected,        \* players with is_connected
    version,          \* connection_version
    departed,         \* players with departure_pending
    returned,         \* players with return_pending
    live,             \* clients with a socket in manager.active_connections
    greetings,        \* _authenticate calls that have yet to broadcast a directive
    turnQueue, buffer, active,
    paused,           \* round_paused
    pending,          \* pending_resolution
    roundCounter,
    accepted,         \* accepted_actions: pairs of client and round
    generation,
    inferenceTask,    \* epoch of the task in inference_task, 0 for None
    jobs,             \* the _run_job tasks that have not ended
    effects,          \* who holds effects_lock
    pendingDelivery,  \* pending_delivery
    shown,            \* round of the last outcome broadcast, 0 the opening, -1 none
    announced,        \* the last broadcast turn_directive
    endings,          \* game_ended events broadcast
    submissions,      \* _submit_action calls past their first lock block
    rejections,       \* clients whose action was refused and not answered yet
    leavers,          \* handle_disconnect calls waiting for effects_lock
    retries,          \* _retry_round calls waiting for the paused task to finish
    shutdowns         \* shutdown calls waiting for effects_lock

party    == <<joinOrder, connected, version, departed, returned, live, greetings>>
turn     == <<turnQueue, buffer, active>>
round    == <<paused, pending, roundCounter, accepted>>
work     == <<generation, inferenceTask, jobs>>
output   == <<pendingDelivery, shown, announced, endings>>
requests == <<submissions, rejections, leavers, retries, shutdowns>>
vars     == <<phase, party, turn, round, work, effects, output, requests>>

Phases == {"AWAITING_HOST", "SCENARIO_INJECTION", "AWAITING_PLAYERS",
           "ACTIVE_TURN", "AWAITING_LLM", "ENDED"}

NoRound   == [actions |-> EmptyBuffer, participants |-> {}, dice |-> NoOne]
NoDice    == NoOne       \* pending.dice is None
Unchecked == -1          \* handle_disconnect without expected_version

Participant ==
    [player : Players, departed : BOOLEAN, returned : BOOLEAN, version : Nat]
Round ==
    [actions : [Players -> Entry], participants : SUBSET Participant,
     dice : DiceOutcomes \cup {NoDice}]
Job ==
    [epoch : Nat, kind : {"scenario", "start", "round"}, attempt : Nat,
     stage : {"opening", "working", "archiving", "delivering", "failing",
              "recovering", "finishing"}]
Event ==
    [type : {"state_update", "system_msg", "round_start", "turn_directive"},
     round : Nat, player : Players \cup {NoOne}]
Submission ==
    [client : Players, owned : BOOLEAN, epoch : Nat,
     participants : SUBSET Participant, round : Nat \ {0}]
\* A login owes the clients the directive that names `player`.
Greeting == [client : Players, owned : BOOLEAN, version : Nat, player : Players]
\* `late`: a login broadcast it when it was no longer this player's turn.
Announcement == [player : Players \cup {NoOne}, late : BOOLEAN]
Leaver == [client : Players, version : Nat \cup {Unchecked}]
Retry  == [client : Players, owned : BOOLEAN, epoch : Nat, round : Nat]

TypeOK ==
    /\ phase \in Phases
    /\ joinOrder \in Seq(Players)
    /\ connected \in SUBSET Players
    /\ version \in [Players -> Nat]
    /\ departed \in SUBSET Players /\ returned \in SUBSET Players
    /\ live \in SUBSET Players
    /\ greetings \in SUBSET Greeting
    /\ turnQueue \in Seq(Players)
    /\ buffer \in [Players -> Entry]
    /\ active \in Players \cup {NoOne}
    /\ paused \in BOOLEAN
    /\ pending \in Round
    /\ roundCounter \in Nat
    /\ accepted \in SUBSET (Players \X Nat)
    /\ generation \in Nat /\ inferenceTask \in Nat
    /\ jobs \in SUBSET Job
    /\ effects \in {"free", "job", "ending", "finalizing"}
    /\ pendingDelivery \in Seq(Event)
    /\ shown \in Int
    /\ announced \in Announcement
    /\ endings \in Nat
    /\ submissions \in SUBSET Submission
    /\ rejections \in SUBSET Players
    /\ leavers \in SUBSET Leaver
    /\ retries \in SUBSET Retry
    /\ shutdowns \in Nat

\* The directive that names p, broadcast by whoever selected the turn.
Told(p) == [player |-> p, late |-> FALSE]

Init ==
    /\ phase = "AWAITING_HOST"
    /\ joinOrder = <<>> /\ connected = {} /\ version = [p \in Players |-> 0]
    /\ departed = {} /\ returned = {} /\ live = {} /\ greetings = {}
    /\ turnQueue = <<>> /\ buffer = EmptyBuffer /\ active = NoOne
    /\ paused = FALSE /\ pending = NoRound /\ roundCounter = 0 /\ accepted = {}
    /\ generation = 0 /\ inferenceTask = 0 /\ jobs = {}
    /\ effects = "free"
    /\ pendingDelivery = <<>> /\ shown = -1 /\ announced = Told(NoOne) /\ endings = 0
    /\ submissions = {} /\ rejections = {} /\ leavers = {} /\ retries = {} /\ shutdowns = 0

-----------------------------------------------------------------------------
(* Shared pieces of the handlers *)

Joined  == Range(joinOrder)
Host(p) == joinOrder # <<>> /\ joinOrder[1] = p

Outcome(n)   == [type |-> "state_update", round |-> n, player |-> NoOne]
Started      == [type |-> "system_msg", round |-> 0, player |-> NoOne]
RoundStart(n) == [type |-> "round_start", round |-> n, player |-> NoOne]
Directive(n, p) == [type |-> "turn_directive", round |-> n, player |-> p]

\* Mutant: a job never finds itself superseded.
AlwaysCurrent(epoch) == TRUE
Current(epoch) == generation = epoch /\ phase # "ENDED"

\* _participants_locked: who is present or has an unreported departure or return.
Participants ==
    {[player |-> p, departed |-> p \in departed, returned |-> p \in returned,
      version |-> version[p]] :
        p \in Joined \cap (connected \cup departed \cup returned)}

\* Mutant: the launch leaves the phase open to a second launch.
LaunchJobQuietly(kind) ==
    /\ generation' = generation + 1
    /\ inferenceTask' = generation + 1
    /\ jobs' = jobs \cup {[epoch |-> generation + 1, kind |-> kind,
                           attempt |-> 0, stage |-> "opening"]}
    /\ UNCHANGED <<phase, paused>>

\* Mutant: a retried round still counts as paused.
LaunchJobPaused(kind) ==
    /\ generation' = generation + 1
    /\ phase' = "AWAITING_LLM"
    /\ inferenceTask' = generation + 1
    /\ jobs' = jobs \cup {[epoch |-> generation + 1, kind |-> kind,
                           attempt |-> 0, stage |-> "opening"]}
    /\ UNCHANGED paused

LaunchJob(kind) ==
    /\ generation' = generation + 1
    /\ phase' = "AWAITING_LLM"
    /\ paused' = FALSE
    /\ inferenceTask' = generation + 1
    /\ jobs' = jobs \cup {[epoch |-> generation + 1, kind |-> kind,
                           attempt |-> 0, stage |-> "opening"]}

\* Mutant: the new directive is not broadcast.
SilentTurn(player) == announced

\* The directive a change of turn broadcasts, if there is one.
Announcing(player) == IF player = NoOne THEN announced ELSE Told(player)

\* _next_turn_locked, then _take_complete_round_locked, then _launch_round_locked,
\* from a given queue and buffer.  The actions that use it say what happens to the party
\* first: the frozen participants are those of the step's result.
ResumeTurns(queue, buf) ==
    LET next == NextTurn(queue, connected', buf) IN
    /\ turnQueue' = next.queue
    /\ buffer' = next.buffer
    /\ active' = next.active
    /\ IF Complete(next.buffer, Joined)
       THEN /\ pending' = [actions |-> next.buffer,
                           participants |-> Participants', dice |-> NoDice]
            /\ LaunchJob("round")
       ELSE UNCHANGED <<phase, paused, pending, work>>

\* The requests of a socket that its client no longer owns lose CURRENT_OWNER.
Disown(reqs, p) ==
    {IF r.client = p THEN [r EXCEPT !.owned = FALSE] ELSE r : r \in reqs}

\* A socket's receive loop handles one payload at a time.
Busy(p) == \/ p \in rejections
           \/ \E s \in submissions : s.client = p /\ s.owned
           \/ \E r \in retries : r.client = p /\ r.owned
           \/ \E g \in greetings : g.client = p /\ g.owned

Stage(j, stage) == jobs' = (jobs \ {j}) \cup {[j EXCEPT !.stage = stage]}

-----------------------------------------------------------------------------
(* Presence: _authenticate, the loss of a socket, handle_disconnect *)

Changes == FoldFunction(LAMBDA a, b : a + b, 0, version)

\* A new player: the host first, the others while the lobby is open.
Join(p) ==
    /\ p \notin Joined
    /\ \/ phase = "AWAITING_HOST"
       \/ phase = "AWAITING_PLAYERS" /\ Len(joinOrder) < MaxPlayers
    /\ joinOrder' = Append(joinOrder, p)
    /\ turnQueue' = Append(turnQueue, p)
    /\ connected' = connected \cup {p}
    /\ live' = live \cup {p}
    /\ phase' = IF phase = "AWAITING_HOST" THEN "SCENARIO_INJECTION" ELSE phase
    /\ UNCHANGED <<version, departed, returned, greetings, buffer, active, round, work,
                   effects, output, requests>>

\* Mutant: authentication never selects a turn.
NeverStalled == FALSE

\* Nobody connected holds the turn, as after everyone has left.
TurnStalled == phase = "ACTIVE_TURN" /\ active \notin connected'

\* A known player authenticates again, on a first or a replacing socket.  The directive
\* of a turn selected here is broadcast later (AnnounceReturn).
Reconnect(p) ==
    /\ p \in Joined
    /\ p \in connected \/ Changes < MaxChanges
    /\ connected' = connected \cup {p}
    /\ version' = IF p \in connected THEN version
                  ELSE [version EXCEPT ![p] = @ + 1]
    /\ returned' = IF p \notin connected /\ phase \in {"ACTIVE_TURN", "AWAITING_LLM"}
                   THEN returned \cup {p} ELSE returned
    /\ live' = live \cup {p}
    /\ submissions' = Disown(submissions, p)
    /\ rejections' = rejections \ {p}
    /\ retries' = Disown(retries, p)
    /\ UNCHANGED <<joinOrder, departed>>
    /\ IF TurnStalled
       THEN ResumeTurns(turnQueue, buffer)
       ELSE UNCHANGED <<phase, turn, paused, pending, work>>
    /\ greetings' = Disown(greetings, p) \cup
          (IF TurnStalled /\ active' # NoOne
           THEN {[client |-> p, owned |-> TRUE, version |-> version'[p],
                  player |-> active']}
           ELSE {})
    /\ UNCHANGED <<roundCounter, accepted, effects, output, leavers, shutdowns>>

\* The end of _authenticate, after auth_ok and the system_msg and without effects_lock:
\* whatever was broadcast meanwhile is followed by the directive of the lock block.
AnnounceReturn(g) ==
    /\ greetings' = greetings \ {g}
    /\ announced' = [player |-> g.player, late |-> g.player # active]
    /\ UNCHANGED <<phase, joinOrder, connected, version, departed, returned, live,
                   turn, round, work, effects, pendingDelivery, shown, endings,
                   requests>>

\* The endpoint's finally block closes an idle socket and knows the version it saw; the
\* manager's _fail does not, and can strike while the endpoint is inside a handler.
LoseSocket(p, how) ==
    /\ p \in live
    /\ Changes < MaxChanges
    /\ how = "closed" => ~Busy(p)
    /\ live' = live \ {p}
    /\ leavers' = leavers \cup
          {[client |-> p, version |-> IF how = "closed" THEN version[p] ELSE Unchecked]}
    /\ greetings' = Disown(greetings, p)
    /\ submissions' = Disown(submissions, p)
    /\ rejections' = rejections \ {p}
    /\ retries' = Disown(retries, p)
    /\ UNCHANGED <<phase, joinOrder, connected, version, departed, returned, turn,
                   round, work, effects, output, shutdowns>>

\* Mutant: a newer socket does not save the player.
StillLostAnyway(d) ==
    d.client \in connected /\ d.version \in {Unchecked, version[d.client]}

\* Mutant: the check is inverted.
StillLostInverted(d) ==
    d.client \in live /\ d.version \in {Unchecked, version[d.client]}

\* handle_disconnect still applies: the player is marked connected, no newer socket
\* has been promoted, and no newer presence change has been seen.
StillLost(d) ==
    /\ d.client \in connected /\ d.client \notin live
    /\ d.version \in {Unchecked, version[d.client]}

\* Mutant: whoever leaves is idled, acted or not.
IdlesAnyLeaver(p) == connected' # {}

\* The leaver held the turn and others remain.
IdlesLeaver(p) == active = p /\ connected' # {}

Disconnect(d) ==
    LET p == d.client IN
    /\ effects = "free"
    /\ StillLost(d)
    /\ leavers' = leavers \ {d}
    /\ connected' = connected \ {p}
    /\ version' = [version EXCEPT ![p] = @ + 1]
    /\ departed' = departed \cup {p}
    /\ returned' = returned \ {p}
    /\ UNCHANGED <<joinOrder, live, greetings>>
    /\ IF phase = "ACTIVE_TURN"
       THEN /\ IF IdlesLeaver(p)
               THEN ResumeTurns(Rotate(turnQueue, 1), [buffer EXCEPT ![p] = Idle])
               ELSE ResumeTurns(turnQueue, buffer)
            /\ announced' = Announcing(active')
       ELSE UNCHANGED <<phase, turn, paused, pending, work, announced>>
    /\ UNCHANGED <<roundCounter, accepted, effects, pendingDelivery, shown,
                   endings, submissions, rejections, retries, shutdowns>>

IgnoreDisconnect(d) ==
    /\ effects = "free"
    /\ ~StillLost(d)
    /\ leavers' = leavers \ {d}
    /\ UNCHANGED <<phase, party, turn, round, work, effects, output,
                   submissions, rejections, retries, shutdowns>>

-----------------------------------------------------------------------------
(* Player actions: _submit_action, and process_payload's handling of its errors *)

ActionAllowed(p) ==
    /\ p \in connected
    /\ phase = "ACTIVE_TURN"
    /\ pendingDelivery = <<>>
    /\ p = active

\* Mutant: the round the client names is not compared.
AnyRound(n) == TRUE

OpenRound(n) == n = roundCounter + 1

\* The first lock block.  A client names the round it acts in; a late request names
\* an earlier one.  A repeat of an accepted action is only acknowledged again.
Submit(p, n) ==
    /\ p \in live /\ ~Busy(p)
    /\ n <= MaxRounds
    /\ <<p, n>> \notin accepted
    /\ IF OpenRound(n) /\ ActionAllowed(p)
       THEN /\ submissions' = submissions \cup
                  {[client |-> p, owned |-> TRUE, epoch |-> generation,
                    participants |-> Participants, round |-> n]}
            /\ UNCHANGED rejections
       ELSE /\ rejections' = rejections \cup {p}
            /\ UNCHANGED submissions
    /\ UNCHANGED <<phase, party, turn, round, work, effects, output,
                   leavers, retries, shutdowns>>

\* The call still speaks for its player and for the session it was made in.
Fresh(s) == s.owned /\ s.epoch = generation

\* The second block, under effects_lock, after preflight_round.
AcceptAction(s) ==
    /\ effects = "free"
    /\ Fresh(s)
    /\ ActionAllowed(s.client)
    /\ s.participants = Participants
    /\ submissions' = submissions \ {s}
    /\ accepted' = accepted \cup {<<s.client, roundCounter + 1>>}
    /\ UNCHANGED party
    /\ ResumeTurns(Rotate(turnQueue, 1), [buffer EXCEPT ![s.client] = s.round])
    /\ announced' = Announcing(active')
    /\ UNCHANGED <<roundCounter, effects, pendingDelivery, shown, endings,
                   rejections, leavers, retries, shutdowns>>

\* preflight_round refuses the action, or one of the checks after it does.
RejectAction(s) ==
    /\ submissions' = submissions \ {s}
    /\ rejections' = IF s.owned THEN rejections \cup {s.client} ELSE rejections
    /\ UNCHANGED <<phase, party, turn, round, work, effects, output,
                   leavers, retries, shutdowns>>

\* The second block returns without an error.
AbandonAction(s) ==
    /\ effects = "free"
    /\ ~Fresh(s)
    /\ submissions' = submissions \ {s}
    /\ UNCHANGED <<phase, party, turn, round, work, effects, output,
                   rejections, leavers, retries, shutdowns>>

\* process_payload answers a rejected action with the directive that puts the active
\* player back to work; it advances the queue without looking for a complete round.
RestoreTurn(p) ==
    LET next == NextTurn(turnQueue, connected, buffer) IN
    /\ p \in rejections /\ effects = "free"
    /\ rejections' = rejections \ {p}
    /\ IF active = p /\ phase = "ACTIVE_TURN"
       THEN /\ turnQueue' = next.queue
            /\ buffer' = next.buffer
            /\ active' = next.active
       ELSE UNCHANGED turn
    /\ UNCHANGED <<phase, party, round, work, effects, output,
                   submissions, leavers, retries, shutdowns>>

-----------------------------------------------------------------------------
(* The host's commands *)

InitializeScenario(p) ==
    /\ p \in live /\ Host(p) /\ ~Busy(p)
    /\ phase = "SCENARIO_INJECTION"
    /\ generation < MaxGeneration
    /\ LaunchJob("scenario")
    /\ UNCHANGED <<party, turn, pending, roundCounter, accepted, effects, output,
                   requests>>

StartGame(p) ==
    /\ p \in live /\ Host(p) /\ ~Busy(p)
    /\ phase = "AWAITING_PLAYERS"
    /\ generation < MaxGeneration
    /\ LaunchJob("start")
    /\ UNCHANGED <<party, turn, pending, roundCounter, accepted, effects, output,
                   requests>>

\* _retry_round up to the wait for the paused job's task.
RequestRetry(p) ==
    /\ p \in live /\ Host(p) /\ ~Busy(p)
    /\ paused /\ pending # NoRound
    /\ generation < MaxGeneration
    /\ retries' = retries \cup
          {[client |-> p, owned |-> TRUE, epoch |-> inferenceTask,
            round |-> roundCounter]}
    /\ UNCHANGED <<phase, party, turn, round, work, effects, output,
                   submissions, rejections, leavers, shutdowns>>

TaskRunning(epoch) == \E j \in jobs : j.epoch = epoch

\* The rechecks after the wait: same owner, same paused round, no task running.
Relaunchable(r) ==
    /\ r.owned /\ Host(r.client)
    /\ paused /\ pending # NoRound /\ roundCounter = r.round
    /\ ~TaskRunning(inferenceTask)

RelaunchRound(r) ==
    /\ ~TaskRunning(r.epoch)
    /\ Relaunchable(r)
    /\ LaunchJob("round")
    /\ retries' = retries \ {r}
    /\ UNCHANGED <<party, turn, pending, roundCounter, accepted, effects, output,
                   submissions, rejections, leavers, shutdowns>>

RefuseRetry(r) ==
    /\ ~TaskRunning(r.epoch)
    /\ ~Relaunchable(r)
    /\ retries' = retries \ {r}
    /\ UNCHANGED <<phase, party, turn, round, work, effects, output,
                   submissions, rejections, leavers, shutdowns>>

-----------------------------------------------------------------------------
(* Inference jobs: _run_job and the work it owns *)

\* dm_thinking is broadcast, unless the job was superseded while it waited.
OpenJob(j) ==
    /\ j.stage = "opening" /\ effects = "free"
    /\ Stage(j, IF Current(j.epoch) THEN "working" ELSE "finishing")
    /\ UNCHANGED <<phase, party, turn, round, generation, inferenceTask, effects,
                   output, requests>>

\* Mutant: each attempt plans and rolls again.
AlwaysPlans == TRUE

NeedsDice == pending.dice = NoDice

\* plan_dice and the rolls, once for a pending round.
PlanDice(j, outcome) ==
    /\ j.stage = "working" /\ j.kind = "round"
    /\ NeedsDice
    /\ pending' = [pending EXCEPT !.dice = outcome]
    /\ UNCHANGED <<phase, party, turn, paused, roundCounter, accepted, work, effects,
                   output, requests>>

\* An LLMResolutionError in a current round job starts its work again.
RetryAttempt(j) ==
    /\ j.stage = "working" /\ j.kind = "round"
    /\ j.attempt < Attempts - 1
    /\ Current(j.epoch) /\ pending # NoRound
    /\ jobs' = (jobs \ {j}) \cup {[j EXCEPT !.attempt = @ + 1]}
    /\ UNCHANGED <<phase, party, turn, round, generation, inferenceTask, effects,
                   output, requests>>

\* Any other error, the last attempt's error, or the deadline of the whole job.
FailWork(j) ==
    /\ j.stage = "working"
    /\ Stage(j, "failing")
    /\ UNCHANGED <<phase, party, turn, round, generation, inferenceTask, effects,
                   output, requests>>

\* task.cancel(), delivered at an await of the job.
CancelJob(j) ==
    /\ phase = "ENDED" /\ j.epoch = inferenceTask
    /\ j.stage \in {"opening", "working", "failing"}
    /\ Stage(j, "finishing")
    /\ UNCHANGED <<phase, party, turn, round, generation, inferenceTask, effects,
                   output, requests>>

\* The result is ready and effects_lock is free.
Committing(j, kind) ==
    /\ j.stage = "working" /\ j.kind = kind /\ effects = "free"
    /\ kind = "round" => pending.dice # NoDice

\* The work of a job that is no longer current returns without committing.
DropResult(j) ==
    /\ Committing(j, j.kind)
    /\ ~Current(j.epoch)
    /\ Stage(j, "finishing")
    /\ UNCHANGED <<phase, party, turn, round, generation, inferenceTask, effects,
                   output, requests>>

\* _prepare_scenario: the lobby opens.
OpenLobby(j) ==
    /\ Committing(j, "scenario")
    /\ Current(j.epoch)
    /\ phase' = "AWAITING_PLAYERS"
    /\ effects' = "job"
    /\ Stage(j, "delivering")
    /\ UNCHANGED <<party, turn, round, generation, inferenceTask, output, requests>>

\* _prepare_start writes the opening archive while it holds effects_lock ...
BeginArchive(j) ==
    /\ Committing(j, "start")
    /\ Current(j.epoch)
    /\ effects' = "job"
    /\ Stage(j, "archiving")
    /\ UNCHANGED <<phase, party, turn, round, generation, inferenceTask, output,
                   requests>>

\* ... and commits the opening if it is still current.
CommitStart(j) ==
    LET next == NextTurn(turnQueue, connected, buffer) IN
    /\ j.stage = "archiving"
    /\ Current(j.epoch)
    /\ departed' = Joined \ connected
    /\ returned' = {}
    /\ phase' = "ACTIVE_TURN"
    /\ turnQueue' = next.queue
    /\ buffer' = next.buffer
    /\ active' = next.active
    /\ pendingDelivery' = pendingDelivery
         \o <<Outcome(0), Started, RoundStart(1)>>
         \o (IF next.active = NoOne THEN <<>> ELSE <<Directive(1, next.active)>>)
    /\ Stage(j, "delivering")
    /\ UNCHANGED <<joinOrder, connected, version, live, greetings, round, generation,
                   inferenceTask, effects, shown, announced, endings, requests>>

\* The archive cannot be written, or the deadline strikes first: it is discarded.
FailArchive(j) ==
    /\ j.stage = "archiving"
    /\ Stage(j, "failing")
    /\ effects' = "free"
    /\ UNCHANGED <<phase, party, turn, round, generation, inferenceTask, output,
                   requests>>

\* Mutant: newer transitions are cleared with the reported one.
ReportedAnyVersion(p, flag) ==
    \E x \in pending.participants : x.player = p /\ x[flag]

\* The frozen round reported a transition that is still the player's latest.
Reported(p, flag) ==
    \E x \in pending.participants :
        x.player = p /\ x[flag] /\ x.version = version[p]

\* Mutants: the new round keeps the old queue, or the old buffer.
OldQueueRound  == NextTurn(turnQueue, connected, EmptyBuffer)
OldBufferRound == NextTurn(joinOrder, connected, buffer)

\* The buffer is cleared and the queue starts again in join order.
NewRound == NextTurn(joinOrder, connected, EmptyBuffer)

\* _resolve_round_work's commit.
CommitRound(j) ==
    LET number == roundCounter + 1
        next   == NewRound
    IN
    /\ Committing(j, "round")
    /\ Current(j.epoch)
    /\ roundCounter' = number
    /\ accepted' = {a \in accepted : a[2] >= number - 1}
    /\ departed' = {p \in departed : ~Reported(p, "departed")}
    /\ returned' = {p \in returned : ~Reported(p, "returned")}
    /\ pending' = NoRound
    /\ phase' = "ACTIVE_TURN"
    /\ turnQueue' = next.queue
    /\ buffer' = next.buffer
    /\ active' = next.active
    /\ pendingDelivery' = pendingDelivery \o <<Outcome(number)>>
         \o (IF next.active = NoOne THEN <<>>
             ELSE <<RoundStart(number + 1), Directive(number + 1, next.active)>>)
    /\ effects' = "job"
    /\ Stage(j, "delivering")
    /\ UNCHANGED <<joinOrder, connected, version, live, greetings, paused, generation,
                   inferenceTask, shown, announced, endings, requests>>

-----------------------------------------------------------------------------
(* Delivery of committed events, failure and end of a job *)

\* What the broadcast of the event at the head of pending_delivery shows the clients.
PublishHead ==
    LET event == Head(pendingDelivery) IN
    /\ shown' = IF event.type = "state_update" THEN event.round ELSE shown
    /\ announced' = IF event.type = "turn_directive" THEN Told(event.player)
                    ELSE announced

\* One turn of _deliver_pending's loop.
DeliverHead ==
    /\ pendingDelivery # <<>>
    /\ PublishHead
    /\ pendingDelivery' = Tail(pendingDelivery)

\* Mutant: the failure handler does not deliver.
DeliversOnce(j) == j.stage = "delivering"

Delivers(j) == j.stage \in {"delivering", "recovering"}

\* Mutant: what is left of a delivery is dropped.
NothingLeft == TRUE

Drained == pendingDelivery = <<>>

Deliver(j) ==
    /\ Delivers(j)
    /\ DeliverHead
    /\ UNCHANGED <<phase, party, turn, round, work, effects, endings, requests>>

\* Mutant: effects_lock is not released.
FinishDeliveryLocked(j) ==
    /\ Delivers(j) /\ Drained
    /\ Stage(j, "finishing")
    /\ UNCHANGED <<phase, party, turn, round, generation, inferenceTask, effects,
                   output, requests>>

FinishDelivery(j) ==
    /\ Delivers(j) /\ Drained
    /\ effects' = "free"
    /\ Stage(j, "finishing")
    /\ UNCHANGED <<phase, party, turn, round, generation, inferenceTask, output,
                   requests>>

\* The job's deadline strikes between commit and delivery: the event at the head stays
\* there, whether or not its broadcast was already under way.
MissDeadline(j) ==
    /\ DeliveryDeadlines
    /\ j.stage = "delivering"
    /\ \/ j.kind = "scenario" /\ UNCHANGED <<shown, announced>>
       \/ pendingDelivery # <<>> /\ UNCHANGED <<shown, announced>>
       \/ pendingDelivery # <<>> /\ PublishHead
    /\ effects' = "free"
    /\ Stage(j, "failing")
    /\ UNCHANGED <<phase, party, turn, round, generation, inferenceTask,
                   pendingDelivery, endings, requests>>

\* Mutant: a failed round is not paused.
NeverPauses(j) == FALSE

Pauses(j) == j.kind = "round"

\* _run_job's handler of a failure that left nothing committed.
Rollback(j) ==
    /\ j.stage = "failing" /\ effects = "free"
    /\ Current(j.epoch) /\ phase = "AWAITING_LLM"
    /\ phase' = CASE j.kind = "scenario" -> "SCENARIO_INJECTION"
                  [] j.kind = "start"    -> "AWAITING_PLAYERS"
                  [] j.kind = "round"    -> "AWAITING_LLM"
    /\ paused' = Pauses(j)
    /\ Stage(j, "finishing")
    /\ UNCHANGED <<party, turn, pending, roundCounter, accepted, generation,
                   inferenceTask, effects, output, requests>>

\* The same handler after a commit: finish the delivery, or repeat the directive when
\* nothing was left to deliver.
Recover(j) ==
    LET next == IF phase = "ACTIVE_TURN" THEN NextTurn(turnQueue, connected, buffer)
                ELSE [queue |-> turnQueue, buffer |-> buffer, active |-> active]
    IN
    /\ j.stage = "failing" /\ effects = "free"
    /\ Current(j.epoch) /\ phase # "AWAITING_LLM"
    /\ turnQueue' = next.queue
    /\ buffer' = next.buffer
    /\ active' = next.active
    /\ announced' = IF pendingDelivery = <<>> /\ next.active # NoOne
                    THEN Told(next.active) ELSE announced
    /\ effects' = "job"
    /\ Stage(j, "recovering")
    /\ UNCHANGED <<phase, party, round, generation, inferenceTask, pendingDelivery,
                   shown, endings, requests>>

AbandonFailure(j) ==
    /\ j.stage = "failing" /\ effects = "free"
    /\ ~Current(j.epoch)
    /\ Stage(j, "finishing")
    /\ UNCHANGED <<phase, party, turn, round, generation, inferenceTask, effects,
                   output, requests>>

\* The end of the finally block; usage reports change no state of the session.
EndJob(j) ==
    /\ j.stage = "finishing"
    /\ jobs' = jobs \ {j}
    /\ inferenceTask' = IF inferenceTask = j.epoch THEN 0 ELSE inferenceTask
    /\ UNCHANGED <<phase, party, turn, round, generation, effects, output, requests>>

-----------------------------------------------------------------------------
(* shutdown, requested by the host or by the server's lifespan *)

RequestEnd(p) ==
    /\ p \in live /\ Host(p) /\ ~Busy(p)
    /\ phase \in {"ACTIVE_TURN", "AWAITING_LLM"}
    /\ shutdowns < MaxShutdowns
    /\ shutdowns' = shutdowns + 1
    /\ UNCHANGED <<phase, party, turn, round, work, effects, output,
                   submissions, rejections, leavers, retries>>

StopServer ==
    /\ phase # "ENDED" /\ shutdowns < MaxShutdowns
    /\ shutdowns' = shutdowns + 1
    /\ UNCHANGED <<phase, party, turn, round, work, effects, output,
                   submissions, rejections, leavers, retries>>

BeginShutdown ==
    /\ effects = "free" /\ shutdowns > 0
    /\ shutdowns' = shutdowns - 1
    /\ effects' = "ending"
    /\ UNCHANGED <<phase, party, turn, round, work, output,
                   submissions, rejections, leavers, retries>>

DeliverBeforeEnd ==
    /\ effects = "ending"
    /\ DeliverHead
    /\ UNCHANGED <<phase, party, turn, round, work, effects, endings, requests>>

EndSession ==
    /\ effects = "ending" /\ Drained
    /\ phase' = "ENDED"
    /\ generation' = generation + 1
    /\ active' = NoOne
    /\ paused' = FALSE
    /\ pendingDelivery' = <<>>
    /\ effects' = IF phase = "ENDED" THEN "free" ELSE "finalizing"
    /\ UNCHANGED <<party, turnQueue, buffer, pending, roundCounter, accepted,
                   inferenceTask, jobs, shown, announced, endings, requests>>

\* The transcript is finalized and game_ended broadcast before effects_lock is released.
AnnounceEnd ==
    /\ effects = "finalizing"
    /\ endings' = endings + 1
    /\ effects' = "free"
    /\ UNCHANGED <<phase, party, turn, round, work, pendingDelivery, shown,
                   announced, requests>>

-----------------------------------------------------------------------------
JobStep(j) ==
    \/ OpenJob(j) \/ RetryAttempt(j) \/ FailWork(j) \/ CancelJob(j)
    \/ \E outcome \in DiceOutcomes : PlanDice(j, outcome)
    \/ DropResult(j) \/ OpenLobby(j) \/ BeginArchive(j) \/ CommitStart(j)
    \/ FailArchive(j) \/ CommitRound(j)
    \/ Deliver(j) \/ FinishDelivery(j) \/ MissDeadline(j)
    \/ Rollback(j) \/ Recover(j) \/ AbandonFailure(j) \/ EndJob(j)

ClientStep(p) ==
    \/ Join(p) \/ Reconnect(p)
    \/ \E how \in Losses : LoseSocket(p, how)
    \/ \E n \in {roundCounter, roundCounter + 1} \ {0} : Submit(p, n)
    \/ InitializeScenario(p) \/ StartGame(p) \/ RequestRetry(p) \/ RequestEnd(p)

RequestStep ==
    \/ \E g \in greetings : AnnounceReturn(g)
    \/ \E d \in leavers : Disconnect(d) \/ IgnoreDisconnect(d)
    \/ \E s \in submissions : AcceptAction(s) \/ RejectAction(s) \/ AbandonAction(s)
    \/ \E p \in Players : RestoreTurn(p)
    \/ \E r \in retries : RelaunchRound(r) \/ RefuseRetry(r)

ShutdownStep ==
    StopServer \/ BeginShutdown \/ DeliverBeforeEnd \/ EndSession \/ AnnounceEnd

Next ==
    \/ \E p \in Players : ClientStep(p)
    \/ RequestStep
    \/ \E j \in jobs : JobStep(j)
    \/ ShutdownStep

Spec == Init /\ [][Next]_vars

(***************************************************************************)
(* The event loop runs every ready task, asyncio.Lock serves its waiters   *)
(* in order, and asyncio.timeout bounds the calls to the resolver: work    *)
(* that has begun goes on.  Nothing obliges a player to act, a socket to   *)
(* fail or the host to retry or end.                                       *)
(***************************************************************************)
Fairness ==
    /\ WF_vars(\E j \in jobs : JobStep(j))
    /\ \A p \in Players :
          /\ WF_vars(\E d \in leavers :
                        d.client = p /\ (Disconnect(d) \/ IgnoreDisconnect(d)))
          /\ WF_vars(\E s \in submissions : s.client = p /\
                        (AcceptAction(s) \/ RejectAction(s) \/ AbandonAction(s)))
          /\ WF_vars(RestoreTurn(p))
          /\ WF_vars(\E g \in greetings : g.client = p /\ AnnounceReturn(g))
    /\ WF_vars(\E r \in retries : RelaunchRound(r) \/ RefuseRetry(r))
    /\ WF_vars(BeginShutdown \/ DeliverBeforeEnd \/ EndSession \/ AnnounceEnd)

FairSpec == Spec /\ Fairness

-----------------------------------------------------------------------------
(* Safety *)

\* While anyone is connected during a turn phase, the turn belongs to a connected player
\* who has not acted yet and who heads the queue: no disconnect, return, rejection or
\* commit strands the round (_next_turn_locked and its callers).
TurnIsPlayable ==
    phase = "ACTIVE_TURN" /\ connected # {} =>
        /\ active \in connected
        /\ buffer[active] = Blank
        /\ turnQueue # <<>> /\ turnQueue[1] = active

\* Players act in the order they joined: those with an entry are a prefix of join_order,
\* and turn_queue is join_order turned by exactly that prefix.
JoinOrderKept ==
    phase = "ACTIVE_TURN" =>
        \E k \in 0..Len(joinOrder) :
            /\ turnQueue = Rotate(joinOrder, k)
            /\ \A i \in 1..Len(joinOrder) : buffer[joinOrder[i]] # Blank <=> i <= k

\* An action lands in the round it was meant for, never in a later one, whatever the
\* delay between its two lock blocks (_submit_action).
ActionsOfThisRound ==
    \A p \in Players : buffer[p] \in {Blank, Idle, roundCounter + 1}

\* An action_accepted acknowledgement of the open round is backed by the buffer: the
\* player's turn is not taken back or idled afterwards.
AcknowledgedIsCounted ==
    \A a \in accepted : /\ a[2] <= roundCounter + 1
                        /\ a[2] = roundCounter + 1 => buffer[a[1]] = a[2]

\* A session never waits for inference that nobody performs: in AWAITING_LLM either the
\* host has been told the round is paused or a current job has yet to settle the phase.
SomeoneResolves ==
    phase = "AWAITING_LLM" /\ ~paused =>
        \E j \in jobs : /\ Current(j.epoch)
                        /\ j.stage \in {"opening", "working", "archiving", "failing"}

\* The resolver's memory is not shared: no two jobs work on it at the same time, even
\* when a cancelled one has not noticed yet or a paused one is being retried.
OneJobWorks ==
    \A i, j \in jobs : i.stage = "working" /\ j.stage = "working" => i = j

\* "Round paused" is only ever said of a round the host can retry: its actions are kept
\* and no job is left that could still commit or fail.
PausedIsRetryable ==
    paused => /\ phase = "AWAITING_LLM"
              /\ pending # NoRound
              /\ \A j \in jobs : Current(j.epoch) => j.stage = "finishing"

\* A pending round holds an entry of every player and is the round being resolved: the
\* buffer cannot drift from it while presence changes.
PendingIsComplete ==
    pending # NoRound =>
        /\ phase \in {"AWAITING_LLM", "ENDED"}
        /\ \A p \in Joined : pending.actions[p] # Blank
        /\ pending.actions = buffer

\* A committed round reaches the players before the game ends, even when the deadline
\* interrupts its delivery, and the game ends once (shutdown, _deliver_pending).
NoOutcomeLost ==
    /\ \A n \in 1..roundCounter :
          n <= shown \/ \E i \in 1..Len(pendingDelivery) : pendingDelivery[i] = Outcome(n)
    /\ endings <= 1
    /\ endings = 1 => phase = "ENDED" /\ pendingDelivery = <<>>

\* A player without a socket is not left marked as connected: a disconnect that will
\* take effect is on its way.  Nobody owns a socket without being connected.
NoGhosts ==
    /\ live \subseteq connected
    /\ \A p \in connected \ live : \E d \in leavers : d.client = p /\ StillLost(d)

\* The clients have been told whose turn it is, will be told by a login still in progress,
\* or were told of a past turn by one that came late.
TurnHeard ==
    \/ announced.player = active
    \/ \E g \in greetings : g.player = active
    \/ announced.late

\* When nothing is being delivered, the last turn_directive the clients saw names the
\* player whose turn it is, or the login that selected this turn has yet to broadcast its
\* directive.  One announcement may be outdated: that of a login whose turn has passed by
\* then (_authenticate broadcasts without effects_lock); every other selection of a turn
\* is announced in the order of the selections.
TurnAnnounced ==
    /\ phase = "ACTIVE_TURN" /\ connected # {}
    /\ effects = "free" /\ pendingDelivery = <<>>
    => TurnHeard

-----------------------------------------------------------------------------
(* What a step may never do *)

\* An accepted action stays in the buffer until the round it belongs to commits with it.
ActionsSurvive ==
    [][\A p \in Players :
          buffer[p] > 0 /\ buffer'[p] # buffer[p] =>
              roundCounter' = buffer[p] /\ pending.actions[p] = buffer[p]]_vars

\* Once dice are rolled, the round's actions, participants and dice are what commits: no
\* automatic or host retry rerolls them.
DiceAreFinal ==
    [][pending.dice # NoDice /\ pending' # pending =>
          pending' = NoRound /\ roundCounter' = roundCounter + 1]_vars

\* A departure or return is forgotten only after it was reported: by the round that froze
\* it, by the opening for everyone, or (a return) because the player left again.
TransitionsSurvive ==
    [][\A p \in Players :
          /\ p \in departed \ departed' =>
                phase' = "ACTIVE_TURN" /\
                (roundCounter' = roundCounter => shown = -1 /\ p \in connected)
          /\ p \in (departed \ departed') \cup (returned \ returned') /\ roundCounter' # roundCounter
                => [player |-> p, departed |-> p \in departed,
                    returned |-> p \in returned, version |-> version[p]]
                        \in pending.participants]_vars

\* Nothing revives an ended game: no late result, retry or action changes what the
\* session decided (the promise of the generation number).
EndedIsFinal ==
    [][phase = "ENDED" =>
          /\ phase' = "ENDED"
          /\ UNCHANGED <<buffer, active, paused, roundCounter, pendingDelivery, shown>>]_vars

\* A departure the round reported, followed by no other change than the player's return,
\* is not reported a second time by a later round.
TransitionsNarratedOnce ==
    [][\A p \in Players :
          (/\ roundCounter' # roundCounter
           /\ \E x \in pending.participants :
                 x.player = p /\ x.departed /\ version[p] <= x.version + 1
           /\ p \in connected)
          => p \notin departed']_vars

-----------------------------------------------------------------------------
(* The promise the session keeps *)

TableStage ==
    CASE phase = "ENDED"       -> "over"
      [] phase = "ACTIVE_TURN" -> "acting"
      [] phase = "AWAITING_LLM" /\ pending # NoRound -> "resolving"
      [] OTHER                 -> "lobby"

Table == INSTANCE RoundTable WITH
             stage   <- TableStage,
             members <- Joined,
             acted   <- {p \in Players : buffer[p] # Blank},
             played  <- roundCounter

\* The session plays rounds as RoundTable promises: one entry per member and round, each
\* complete round resolved at most once, through failures, retries and reconnections.
PlaysRounds == Table!TableSpec

-----------------------------------------------------------------------------
(* Liveness *)

\* Inference never leaves the players waiting forever: the phase moves on, or the host is
\* told that the round is paused (_run_job consumes every failure).
InferenceSettles ==
    phase = "AWAITING_LLM" /\ ~paused ~> phase # "AWAITING_LLM" \/ paused

\* A committed outcome is delivered even when the deadline interrupted it, unless a later
\* round has paused first and waits for the host.
OutcomesAreDelivered ==
    pendingDelivery # <<>> ~> pendingDelivery = <<>> \/ paused

\* The turn never stays with a player who is gone while somebody else could act.
TurnMovesOn ==
    \A p \in Players :
        active = p /\ p \notin live ~> active # p \/ p \in live

\* Ending the game ends it, whatever the running job is doing.
EndIsReached == shutdowns > 0 ~> phase = "ENDED" /\ endings = 1
=============================================================================
